----------------------------- MODULE Formatting -----------------------------
(***************************************************************************)
(* From Dify's answer to the messages of a reply (formatting/): a Flex     *)
(* bubble, or plain text cut to LINE's limits, and the images behind it.   *)
(*                                                                         *)
(* An answer is a sequence of lines, a line a sequence of tokens, each one *)
(* character long: "x" (text), "sp" (a blank), "row" (a table cell, its    *)
(* blanks and its bar), "sep" (the line under a table's header), "quote"   *)
(* (the mark that begins a quoted line), "void" (inline markup around      *)
(* nothing, as in "[](url)"), "img" and "bad" (markup of an image whose    *)
(* URL is_valid_image_url takes, or not).  Other inline markup, headings   *)
(* and lists are text.                                                     *)
(***************************************************************************)
EXTENDS Integers, SequencesExt

CONSTANTS
    Lines,          \* the lines answers are made of
    MaxLines,       \* bound: lines of an answer
    MaxText,        \* LINE_MAX_TEXT
    MaxMessages,    \* LINE_MAX_MESSAGES
    MaxBubble       \* _MAX_FLEX_BUBBLE_BYTES, in tokens shown

Tokens == {"x", "sp", "row", "sep", "quote", "void", "img", "bad"}

\* A quote's mark begins its line; a table's line is cells and images.
ASSUME LinesAssumption ==
    /\ Lines \subseteq Seq(Tokens)
    /\ \A line \in Lines :
         /\ \A n \in DOMAIN line : line[n] = "quote" => n = 1
         /\ ToSet(line) \cap {"row", "sep"} # {}
              => ToSet(line) \subseteq {"row", "sep", "img", "bad"}
ASSUME LimitsAssumption ==
    /\ MaxText \in Nat \ {0, 1} /\ MaxMessages \in Nat \ {0} /\ MaxBubble \in Nat
    /\ MaxLines \in Nat

VARIABLES
    answer, flex_enabled, strip_md,    \* the arguments of build_reply
    reply                              \* the messages it returns

vars == <<answer, flex_enabled, strip_md, reply>>

Text(t)      == [type |-> "text", text |-> t]
Flex(lines)  == [type |-> "flex", contents |-> lines]
Image(n)     == [type |-> "image", url |-> n]
Images(n)    == [k \in 1 .. n |-> Image(k)]
Least(m, n)  == IF m < n THEN m ELSE n

\* The subsequence of s at the positions of ns.
Pick(s, ns) == FlattenSeq([n \in DOMAIN s |-> IF n \in ns THEN <<s[n]>> ELSE <<>>])
Without(line, kinds) == Pick(line, {n \in DOMAIN line : line[n] \notin kinds})
CountOf(text, kind) == Cardinality({n \in DOMAIN text : text[n] = kind})

\* The answer as one text.
Joined(lines) ==
    FlattenSeq([n \in DOMAIN lines |->
                  IF n = Len(lines) THEN lines[n] ELSE Append(lines[n], "nl")])

\* str.strip: a line break is one of the blanks.
Blanks == {"sp", "nl"}
Strip(text) ==
    LET ink == {n \in DOMAIN text : text[n] \notin Blanks} IN
    IF ink = {} THEN <<>> ELSE SubSeq(text, Min(ink), Max(ink))

-----------------------------------------------------------------------------
(* formatting/markdown.py. *)

\* strip_markdown: quotes lose their marks, each with the blank after it, and
\* three or more line breaks become two.
StripMarkdown(text) ==
    LET mark(n) == n \in DOMAIN text /\ text[n] = "quote"
        bare == Pick(text, {n \in DOMAIN text :
                              ~(mark(n) \/ (mark(n - 1) /\ text[n] \in Blanks))}) IN
    Pick(bare, {n \in DOMAIN bare : ~(n > 2 /\ \A k \in n - 2 .. n : bare[k] = "nl")})

\* Where the chunk that begins at i ends: before the last line break among the
\* first MaxText characters, or after all of them.
ChunkEnd(text, i) ==
    LET breaks == {n \in i + 1 .. i + MaxText - 1 : text[n] = "nl"} IN
    IF breaks = {} THEN i + MaxText - 1 ELSE Max(breaks) - 1

\* The rest after a chunk, without its leading line breaks; other blanks stay.
\* Fault: with them.
RestFromAll(text, end) == end + 1
RestFrom(text, end) ==
    LET ink == {n \in end + 1 .. Len(text) : text[n] # "nl"} IN
    IF ink = {} THEN Len(text) + 1 ELSE Min(ink)

\* split_text.
SplitText(text) ==
    LET from[i \in 1 .. Len(text) + 1] ==
          CASE i > Len(text) -> <<>>
            [] i \in Len(text) - MaxText + 1 .. Len(text) -> <<SubSeq(text, i, Len(text))>>
            [] OTHER -> <<SubSeq(text, i, ChunkEnd(text, i))>>
                          \o from[RestFrom(text, ChunkEnd(text, i))]
    IN IF text = <<>> THEN <<text>> ELSE from[1]

-----------------------------------------------------------------------------
(* formatting/plain.py. *)

\* _truncate_with_notice; the notice is one character.
Notice == "notice"
\* Fault: the messages beyond the limit are dropped.
TruncateSilently(messages) ==
    SubSeq(messages, 1, Least(Len(messages), MaxMessages))
TruncateWithNotice(messages) ==
    IF Len(messages) <= MaxMessages THEN messages
    ELSE [SubSeq(messages, 1, MaxMessages) EXCEPT
            ![MaxMessages] =
               IF @.type = "text"
               THEN Text(Append(SubSeq(@.text, 1, Least(Len(@.text), MaxText - 1)), Notice))
               ELSE Text(<<Notice>>)]

\* The text without the images that are sent on their own.
PlainText(lines, strip) ==
    LET text == Without(Joined(lines), {"img"}) IN
    Strip(IF strip THEN StripMarkdown(text) ELSE text)

\* How many images still fit.
\* Fault: off by one.
RoomShort(texts) == IF texts < MaxMessages THEN MaxMessages - texts - 1 ELSE 0
Room(texts) == IF texts < MaxMessages THEN MaxMessages - texts ELSE 0

\* format_plain_reply: an answer that leaves nothing is sent as it is.
FormatPlainReply(lines, strip) ==
    LET raw    == Joined(lines)
        text   == PlainText(lines, strip)
        chunks == IF text = <<>> THEN <<>> ELSE SplitText(text)
        texts  == [n \in DOMAIN chunks |-> Text(chunks[n])]
        all    == texts \o Images(Least(CountOf(raw, "img"), Room(Len(texts))))
    IN TruncateWithNotice(
         IF all = <<>> THEN <<Text(SubSeq(raw, 1, Least(Len(raw), MaxText)))>> ELSE all)

-----------------------------------------------------------------------------
(* formatting/flex.py. *)

Bar(line)   == \E n \in DOMAIN line : line[n] \in {"row", "sep"}
IsSep(line) == line # <<>> /\ \A n \in DOMAIN line : line[n] = "sep"
WithoutSeps(lines) == Pick(lines, {n \in DOMAIN lines : ~IsSep(lines[n])})

\* Fault: a table with one row counts as empty.
FlexTableTwoRows(lines) ==
    IF Len(lines) <= 3 THEN <<>> ELSE lines
\* flex_table: nothing without a line after the separator; no more cells than
\* the header has.
FlexTable(lines) ==
    LET rows == WithoutSeps(SubSeq(lines, 3, Len(lines))) IN
    IF Len(lines) < 3 THEN <<>>
    ELSE <<lines[1]>> \o [n \in DOMAIN rows |->
                            SubSeq(rows[n], 1, Least(Len(rows[n]), Len(lines[1])))]

\* flex_rich_text, of a paragraph or of what a quote's mark leaves.
RichText(line) == Without(Strip(Without(line, {"quote"})), {"void"})

\* md_to_flex_contents: the lines it shows.
MdToFlexContents(lines) ==
    LET last == Len(lines)
        TableEnd(i) == Max({j \in i .. last : \A k \in i .. j : Bar(lines[k])})
        from[i \in 1 .. last + 1] ==
          CASE i > last -> <<>>
            [] i <= last /\ lines[i] = <<>> -> from[i + 1]
            [] i < last /\ Bar(lines[i]) /\ IsSep(lines[i + 1]) ->
                 FlexTable(SubSeq(lines, i, TableEnd(i))) \o from[TableEnd(i) + 1]
            [] OTHER -> <<RichText(lines[i])>> \o from[i + 1]
    IN from[1]

\* The lines without any image, stripped.
FlexLines(lines) == [n \in DOMAIN lines |-> Strip(Without(lines[n], {"img", "bad"}))]

\* format_flex_reply; no messages for "no Flex reply".
FormatFlexReply(lines) ==
    LET clean    == FlexLines(lines)
        contents == MdToFlexContents(clean)
        blank    == \A n \in DOMAIN clean : clean[n] = <<>>
        images   == CountOf(Joined(lines), "img")
    IN CASE blank -> Images(Least(images, MaxMessages))
         [] ~blank /\ (contents = <<>> \/ Len(FlattenSeq(contents)) > MaxBubble) -> <<>>
         [] OTHER -> <<Flex(contents)>> \o Images(Least(images, MaxMessages - 1))

-----------------------------------------------------------------------------
(* formatting/__init__.py. *)

BuildReply(lines, flex, strip) ==
    IF flex /\ FormatFlexReply(lines) # <<>> THEN FormatFlexReply(lines)
                                             ELSE FormatPlainReply(lines, strip)

\* The handlers ask for a reply to an answer that is not empty.
Init ==
    /\ answer \in UNION {[1 .. n -> Lines] : n \in 1 .. MaxLines}
    /\ Joined(answer) # <<>>
    /\ flex_enabled \in BOOLEAN /\ strip_md \in BOOLEAN
    /\ reply = <<>>

\* A conversion to Flex that raises counts as none.
Reply ==
    /\ reply = <<>>
    /\ \E flex \in {flex_enabled, FALSE} : reply' = BuildReply(answer, flex, strip_md)
    /\ UNCHANGED <<answer, flex_enabled, strip_md>>

Spec == Init /\ [][Reply]_vars

-----------------------------------------------------------------------------
(* Properties. *)

OfType(type) == Pick(reply, {n \in DOMAIN reply : reply[n].type = type})
Texts == OfType("text")
Shown == FlattenSeq([n \in DOMAIN Texts |-> Texts[n].text])
IsFlex == reply # <<>> /\ reply[1].type = "flex"
Done  == reply # <<>>

\* What split_text cuts out of lines of blanks: up to the end of a line, or as
\* much as fits a message.
BlankStretch(text, m) ==
    \E i, j \in DOMAIN text :
        /\ m = SubSeq(text, i, j) /\ text[i] = "sp"
        /\ Len(m) = MaxText \/ (j < Len(text) /\ text[j + 1] = "nl")

\* LINE refuses a whole reply for one message it does not take: 1 to MaxMessages
\* messages, texts first, none too long; none blank, unless nothing is left of the
\* answer or split_text cuts where a line of blanks stands; and a bubble without
\* empty texts, unless a line is a quote or markup without text.
Sendable ==
    Done =>
        /\ Len(reply) <= MaxMessages
        /\ \A n \in DOMAIN reply :
             /\ reply[n].type = "text" =>
                  /\ Len(reply[n].text) <= MaxText
                  /\ PlainText(answer, strip_md) # <<>> =>
                       \/ Strip(reply[n].text) # <<>>
                       \/ BlankStretch(PlainText(answer, strip_md), reply[n].text)
             /\ reply[n].type = "flex" =>
                  /\ n = 1 /\ reply[n].contents # <<>>
                  /\ \/ <<>> \notin ToSet(reply[n].contents)
                     \/ \E line \in ToSet(FlexLines(answer)) :
                          line # <<>> /\ ToSet(line) \subseteq {"quote", "void", "sp"}
             /\ n > 1 /\ reply[n].type = "text" => reply[n - 1].type = "text"

\* split_text and _truncate_with_notice: a plain reply shows every character of
\* the text but line breaks, in order, or as many as fit and then the notice.
TextIsWhole ==
    (Done /\ ~IsFlex /\ Texts # <<>>) =>
        LET text  == Without(PlainText(answer, strip_md), {"nl"})
            shown == Without(Shown, {"nl"}) IN
        \/ text = <<>>
        \/ shown = text
        \/ /\ Len(Texts) = MaxMessages /\ shown[Len(shown)] = Notice
           /\ Len(text) >= Len(shown)
           /\ \A n \in 1 .. Len(shown) - 1 : shown[n] = text[n]

\* The first images of the answer follow, in their order, as many as there is
\* room for behind the text.
ImagesInOrder ==
    Done =>
        LET others == Cardinality({n \in DOMAIN reply : reply[n].type # "image"})
            found  == Least(CountOf(Joined(answer), "img"), MaxMessages - others) IN
        OfType("image") = Images(found)

\* Line k belongs to a table, and is not its header.
InTable(lines, k) ==
    \E j \in 1 .. k - 1 : IsSep(lines[j + 1]) /\ \A m \in j .. k : Bar(lines[m])

\* The header of a table without rows.
HeaderOnly(lines, k) ==
    /\ k < Len(lines) /\ Bar(lines[k]) /\ IsSep(lines[k + 1]) /\ ~InTable(lines, k)
    /\ k + 1 = Len(lines) \/ ~Bar(lines[k + 2])

\* The lines a bubble may leave out.
LeftOut(lines, k) ==
    \/ lines[k] = <<>> \/ HeaderOnly(lines, k)
    \/ IsSep(lines[k]) /\ InTable(lines, k)

\* md_to_flex_contents, line by line: a bubble has every line of the answer, in
\* order, but blank ones, the separators of tables and the headers of tables
\* without rows.  A line is shown as rich text; a table row may lose cells, and
\* keeps its first one.
FlexShowsAll ==
    IsFlex =>
        LET lines == FlexLines(answer)
            due   == Pick(lines, {k \in DOMAIN lines : ~LeftOut(lines, k)})
            shown == reply[1].contents IN
        /\ Len(shown) = Len(due)
        /\ \A n \in DOMAIN due :
             \/ shown[n] = RichText(due[n])
             \/ Bar(due[n]) /\ shown[n] # <<>> /\ IsPrefix(shown[n], due[n])
=============================================================================
