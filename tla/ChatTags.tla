------------------------------ MODULE ChatTags ------------------------------
(***************************************************************************)
(* The tags of the dashboard: the list of names (admin_tags) and the tags  *)
(* of each chat (conversations.tags), kept in step by code only.           *)
(*                                                                         *)
(* Removing and renaming take the write lock twice, once for the list and  *)
(* once for the chats: other operators may come in between, or the process *)
(* end.  The page saves the whole list of a chat, from what it last read.  *)
(***************************************************************************)
EXTENDS Naturals, SequencesExt

CONSTANTS
    Operators, Chats,
    Names,         \* of tags
    Escaped,       \* the names that json.dumps escapes: with a quote or backslash
    MaxRequests    \* bound: requests that may write

ASSUME NamesAssumption == Escaped \subseteq Names
ASSUME RequestsAssumption == MaxRequests \in Nat

VARIABLES
    known,      \* names in admin_tags
    tags,       \* conversations.tags of each chat
    op,         \* what each operator is about
    requests,
    excused     \* history: names that may be on a chat and not on the list

tagVars == <<known, tags, op, requests, excused>>

NoName == "none"
Idle == [kind |-> "idle"]
\* Between the two halves of remove_tag (new is NoName) or rename_tag.
Rewriting(old, new) == [kind |-> "rewriting", old |-> old, new |-> new]
\* A chat's page as it was read: its tags and the names on offer.
Editing(c) == [kind |-> "editing", chat |-> c, view |-> tags[c], offered |-> known]

\* What an earlier start has left.
TagsInit ==
    /\ known \in SUBSET Names
    /\ tags \in [Chats -> {list \in UNION {[1 .. n -> known] : n \in 0 .. Cardinality(known)} :
                             IsInjective(list)}]
    /\ op = [o \in Operators |-> Idle]
    /\ requests = 0 /\ excused = {}

Asks(o, kind) ==
    /\ op[o].kind = kind /\ requests < MaxRequests
    /\ requests' = requests + 1

-----------------------------------------------------------------------------
(* manage_tags. *)

\* add_tag.
AddTag(o, n) ==
    /\ Asks(o, "idle")
    /\ known' = known \cup {n}
    /\ UNCHANGED <<tags, op, excused>>

\* The first half of remove_tag.
RemoveTag(o, n) ==
    /\ Asks(o, "idle")
    /\ known' = known \ {n}
    /\ op' = [op EXCEPT ![o] = Rewriting(n, NoName)]
    /\ UNCHANGED <<tags, excused>>

\* The first half of rename_tag.  admin_tags.name is a key: renaming a name of
\* the list to another one raises, and nothing happens.
RenameTag(o, old, new) ==
    /\ Asks(o, "idle")
    /\ old \in known => new \notin known \ {old}
    /\ known' = IF old \in known THEN (known \ {old}) \cup {new} ELSE known
    /\ op' = [op EXCEPT ![o] = Rewriting(old, new)]
    /\ UNCHANGED <<tags, excused>>

\* The elements of a list at some of its positions, in their order.
InOrder(positions) ==
    CHOOSE p \in [1 .. Cardinality(positions) -> positions] :
        \A i, j \in DOMAIN p : i < j => p[i] < p[j]
At(list, positions) ==
    [i \in 1 .. Cardinality(positions) |-> list[InOrder(positions)[i]]]

\* _rewrite_chat_tags of one chat: replace or drop, keeping the first of equals.
Replaced(list, old, new) == [i \in DOMAIN list |-> IF list[i] = old THEN new ELSE list[i]]
\* Fault: a chat that has the new name already is left alone.
RewrittenUnlessPresent(list, old, new) ==
    LET replaced == Replaced(list, old, new) IN
    IF new \in ToSet(list) THEN list
    ELSE At(replaced, {i \in DOMAIN replaced : replaced[i] # NoName})
Rewritten(list, old, new) ==
    LET replaced == Replaced(list, old, new) IN
    At(replaced, {i \in DOMAIN replaced :
                    /\ replaced[i] # NoName
                    /\ \A j \in 1 .. i - 1 : replaced[j] # replaced[i]})

\* tags LIKE '%"old"%': an escaped name is never found.
Candidates(old) == {c \in Chats : old \in ToSet(tags[c]) /\ old \notin Escaped}

\* The second half: one UPDATE for each chat; `done` is all of them unless an
\* error cuts it.
Rewrite(o, done) ==
    LET old == op[o].old
        new == op[o].new IN
    /\ op[o].kind = "rewriting"
    /\ done \subseteq Candidates(old)
    /\ tags' = [c \in Chats |-> IF c \in done THEN Rewritten(tags[c], old, new) ELSE tags[c]]
    /\ excused' = (IF done = Candidates(old) THEN excused \ {old} ELSE excused \cup {old})
                  \cup ({new} \ (known \cup {NoName}))
    /\ op' = [op EXCEPT ![o] = Idle]
    /\ UNCHANGED <<known, requests>>

-----------------------------------------------------------------------------
(* update_chat_meta, as the page calls it. *)

\* get_chat_meta and the list of names.
OpenChat(o, c) ==
    /\ op[o].kind # "rewriting"
    /\ op' = [op EXCEPT ![o] = Editing(c)]
    /\ UNCHANGED <<known, tags, requests, excused>>

\* The page's list with one tag more, or one less.
SaveTags(o) ==
    LET c    == op[o].chat
        view == op[o].view IN
    /\ Asks(o, "editing")
    /\ \E list \in {Append(view, n) : n \in op[o].offered \ ToSet(view)}
                   \cup {At(view, {i \in DOMAIN view : view[i] # n}) : n \in ToSet(view)} :
         /\ tags' = [tags EXCEPT ![c] = list]
         /\ excused' = excused \cup (ToSet(list) \ known)
    /\ op' = [op EXCEPT ![o] = Idle]
    /\ UNCHANGED known

\* The process restarts: the halves not done never come, the pages stay.
TagsRestart ==
    LET cut == {o \in Operators : op[o].kind = "rewriting"} IN
    /\ op' = [o \in Operators |-> IF o \in cut THEN Idle ELSE op[o]]
    /\ excused' = excused \cup {op[o].old : o \in cut}
    /\ UNCHANGED <<known, tags, requests>>

-----------------------------------------------------------------------------
(* Properties. *)

\* No chat has a tag twice, whatever is renamed to what.
TagsTypeOK ==
    /\ known \subseteq Names /\ excused \subseteq Names
    /\ \A c \in Chats : ToSet(tags[c]) \subseteq Names /\ IsInjective(tags[c])
    /\ \A o \in Operators :
         \/ op[o] = Idle
         \/ op[o].kind = "rewriting" /\ op[o].old \in Names /\ op[o].new \in Names \cup {NoName}
         \/ op[o].kind = "editing" /\ op[o].chat \in Chats /\ op[o].offered \subseteq Names
    /\ requests \in 0 .. MaxRequests

\* A tag on a chat is on the list.  The exceptions: a removal or rename of it is
\* between its halves, or was cut; a page saved it after it went; the new name
\* of a rename went before its second half; or its name is one that the LIKE
\* cannot find.
TagsAreListed ==
    LET leaving == {op[o].old : o \in {x \in Operators : op[x].kind = "rewriting"}} IN
    \A c \in Chats : ToSet(tags[c]) \subseteq known \cup excused \cup leaving \cup Escaped
=============================================================================
