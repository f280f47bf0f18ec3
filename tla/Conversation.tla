---------------------------- MODULE Conversation ----------------------------
(***************************************************************************)
(* The continuity of one chat's Dify conversation: the conversation_id     *)
(* column (cid), Bridge._chat_with_cid_protection, the retry policy of     *)
(* DifyClient.chat and the error classes it follows.                       *)
(*                                                                         *)
(* A turn is one question of the chat, asked by the worker its job or      *)
(* media batch runs on.  Dify is external: it makes a conversation for a   *)
(* request without an id, and its refusals are told apart by what          *)
(* classify_http_status looks at.  Turns of one chat do not overlap, which *)
(* is OneWorkerPerChat of module Pipeline (Serial below).                  *)
(***************************************************************************)
EXTENDS Naturals, FiniteSets

CONSTANTS
    Workers,         \* workers that may run a turn of the chat
    MaxConvs,        \* bound: conversations Dify ever makes for the chat
    StrayNotFound    \* may a request with a good id be answered 404?

ASSUME MaxConvsAssumption == MaxConvs \in Nat
ASSUME StrayAssumption == StrayNotFound \in BOOLEAN

Convs == 1 .. MaxConvs
NoCid == 0          \* NULL in the table, None in the code

VARIABLES
    cid,     \* durable: conversations.conversation_id of the chat
    made,    \* Dify: how many conversations it has made
    gone,    \* Dify: conversations that do not exist any more
    turn     \* of each worker

vars == <<cid, made, gone, turn>>

\* pc: "idle", "asking" (request under way), "open" (Dify works on it),
\* "reading" (the conversation id has been seen), "final" (chat() returned).
\* read: the cid of get_cid.  sent: the id in the request.  seen: the id of the
\* conversation Dify uses.  text: an answer has begun.  mode: the transport.
\* reset: the id was dropped, this is the request after that.
Turn == [pc : {"idle", "asking", "open", "reading", "final"},
         read : Convs \cup {NoCid}, sent : Convs \cup {NoCid},
         seen : Convs \cup {NoCid}, text : BOOLEAN,
         mode : {"stream", "block"}, reset : BOOLEAN]
Idle == [pc |-> "idle", read |-> NoCid, sent |-> NoCid, seen |-> NoCid,
         text |-> FALSE, mode |-> "stream", reset |-> FALSE]
Ask(r, s, m, again) == [pc |-> "asking", read |-> r, sent |-> s, seen |-> NoCid,
                        text |-> FALSE, mode |-> m, reset |-> again]

Exists(c) == c \in 1 .. made /\ c \notin gone
Become(w, t) == turn' = [turn EXCEPT ![w] = t]
Ends(w) == Become(w, Idle)

Init ==
    /\ cid = NoCid
    /\ made = 0
    /\ gone = {}
    /\ turn = [w \in Workers |-> Idle]

-----------------------------------------------------------------------------
(* Error classes. *)

\* Fault: every error means that the conversation is gone.
ClassifyAllInvalid(status, marked) == "Invalid"
\* classify_http_status: does the body hold a conversation marker?
Classify(status, marked) ==
    IF status = 404 THEN "Invalid"
    ELSE IF 400 <= status /\ status < 500 /\ marked THEN "Invalid"
    ELSE IF status = 429 \/ status >= 500 THEN "Transient"
    ELSE "Fatal"

\* What Dify, or a proxy before it, refuses a request with.
Refusals(sent) ==
    IF sent # NoCid /\ ~Exists(sent)
      THEN {<<404, TRUE>>, <<400, TRUE>>, <<503, FALSE>>}
      ELSE {<<400, FALSE>>, <<429, FALSE>>, <<503, FALSE>>}
             \cup (IF StrayNotFound THEN {<<404, FALSE>>} ELSE {})

\* DifyClient.chat on an exception of a request.
\* Fault: a transient error of the first stream drops the id as well.
RetriesDropping(w, class) ==
    LET t == turn[w] IN
    IF class # "Fatal" /\ t.read # NoCid /\ ~t.reset
      THEN /\ cid' = NoCid
           /\ Become(w, Ask(t.read, NoCid, t.mode, TRUE))
    ELSE Ends(w) /\ UNCHANGED cid

Retries(w, class) ==
    LET t == turn[w] IN
    CASE class = "Invalid" /\ t.read # NoCid /\ ~t.reset ->
           \* on_conversation_invalid, then once more without an id
           /\ cid' = NoCid
           /\ Become(w, Ask(t.read, NoCid, t.mode, TRUE))
      [] class = "Transient" /\ t.mode = "stream" /\ ~t.reset ->
           \* once more on the blocking transport, with the id read at first
           /\ UNCHANGED cid
           /\ Become(w, Ask(t.read, t.read, "block", FALSE))
      [] OTHER -> Ends(w) /\ UNCHANGED cid

-----------------------------------------------------------------------------
(* Turns. *)

Serial == \A w \in Workers : turn[w].pc = "idle"

\* Fault: turns of one chat overlap.
BeginUnpinned(w) ==
    /\ turn[w].pc = "idle"
    /\ Become(w, Ask(cid, cid, "stream", FALSE))
    /\ UNCHANGED <<cid, made, gone>>

\* handle_text or _flush_files: get_cid, then DifyClient.chat.
Begin(w) ==
    /\ Serial
    /\ Become(w, Ask(cid, cid, "stream", FALSE))
    /\ UNCHANGED <<cid, made, gone>>

\* The /clear command.
ClearCommand ==
    /\ Serial
    /\ cid' = NoCid
    /\ UNCHANGED <<made, gone, turn>>

\* Dify takes the request up; without an id it makes a conversation.
DifyAccepts(w) ==
    LET t == turn[w] IN
    /\ t.pc = "asking"
    /\ \/ /\ t.sent = NoCid /\ made < MaxConvs
          /\ made' = made + 1
          /\ Become(w, [t EXCEPT !.pc = "open", !.seen = made + 1])
       \/ /\ Exists(t.sent)
          /\ Become(w, [t EXCEPT !.pc = "open", !.seen = t.sent])
          /\ UNCHANGED made
    /\ UNCHANGED <<cid, gone>>

DifyRefuses(w) ==
    /\ turn[w].pc = "asking"
    /\ \E r \in Refusals(turn[w].sent) : Retries(w, Classify(r[1], r[2]))
    /\ UNCHANGED <<made, gone>>

\* Fault: the id is kept for the end of the stream.
FirstChunkUnsaved(w) ==
    /\ turn[w].pc = "open" /\ turn[w].mode = "stream"
    /\ \E text \in BOOLEAN :
         Become(w, [turn[w] EXCEPT !.pc = "reading", !.text = text])
    /\ UNCHANGED <<cid, made, gone>>

\* The first chunk with a conversation_id: on_cid stores it before the next
\* chunk is read.  It may hold the beginning of the answer.
FirstChunk(w) ==
    /\ turn[w].pc = "open" /\ turn[w].mode = "stream"
    /\ \E text \in BOOLEAN :
         Become(w, [turn[w] EXCEPT !.pc = "reading", !.text = text])
    /\ cid' = turn[w].seen
    /\ UNCHANGED <<made, gone>>

\* The stream comes to its end; one without any such chunk has no id.
StreamEnds(w) ==
    LET t == turn[w] IN
    /\ t.mode = "stream"
    /\ \/ t.pc = "reading" /\ Become(w, [t EXCEPT !.pc = "final"])
       \/ t.pc = "open" /\ Become(w, [t EXCEPT !.pc = "final", !.seen = NoCid])
    /\ UNCHANGED <<cid, made, gone>>

\* The connection breaks: a partial answer is used, otherwise the error is
\* transient.
StreamCut(w) ==
    LET t == turn[w] IN
    /\ t.mode = "stream" /\ t.pc \in {"open", "reading"}
    /\ IF t.text THEN Become(w, [t EXCEPT !.pc = "final"]) /\ UNCHANGED cid
                 ELSE Retries(w, "Transient")
    /\ UNCHANGED <<made, gone>>

\* A blocking answer: its id is stored by on_cid.
BlockingAnswer(w) ==
    /\ turn[w].pc = "open" /\ turn[w].mode = "block"
    /\ cid' = turn[w].seen
    /\ Become(w, [turn[w] EXCEPT !.pc = "final"])
    /\ UNCHANGED <<made, gone>>

\* chat() returned: _chat_with_cid_protection stores an id that differs from
\* the one it read; the turn is over.
StoreFinal(w) ==
    LET t == turn[w] IN
    /\ t.pc = "final"
    /\ cid' = IF t.seen # NoCid /\ t.seen # t.read THEN t.seen ELSE cid
    /\ Ends(w)
    /\ UNCHANGED <<made, gone>>

\* An error event of the stream, a broken blocking request (DifyTransient
\* again, or DifyFatal), or the job timeout, at any point: the exception ends
\* the turn.
TurnFails(w) ==
    /\ turn[w].pc # "idle"
    /\ Ends(w)
    /\ UNCHANGED <<cid, made, gone>>

Crash ==
    /\ turn' = [w \in Workers |-> Idle]
    /\ UNCHANGED <<cid, made, gone>>

\* Dify forgets a conversation (deleted in its console, or expired).
DifyForgets(c) ==
    /\ Exists(c)
    /\ gone' = gone \cup {c}
    /\ UNCHANGED <<cid, made, turn>>

Next ==
    \/ ClearCommand \/ Crash
    \/ \E c \in Convs : DifyForgets(c)
    \/ \E w \in Workers :
         \/ Begin(w) \/ DifyAccepts(w) \/ DifyRefuses(w) \/ FirstChunk(w)
         \/ StreamEnds(w) \/ StreamCut(w) \/ BlockingAnswer(w)
         \/ StoreFinal(w) \/ TurnFails(w)

Spec == Init /\ [][Next]_vars

-----------------------------------------------------------------------------
(* Properties. *)

TypeOK ==
    /\ cid \in Convs \cup {NoCid}
    /\ made \in 0 .. MaxConvs
    /\ gone \subseteq Convs
    /\ turn \in [Workers -> Turn]

\* A turn that asked without an id, on the blocking transport.
SecondTry(w) == turn[w].mode = "block" /\ turn[w].read = NoCid

\* An interruption never orphans a conversation the code has seen: once a chunk
\* named it, the column holds it, whatever happens to the turn (client.py:5-8).
SeenIsStored ==
    \A w \in Workers :
        turn[w].pc \in {"reading", "final"} /\ turn[w].seen # NoCid =>
            cid = turn[w].seen

\* Dify is asked for a new conversation only when the chat has none, except on
\* the blocking retry of a turn that began without one.
ForkOnlyOnRetry ==
    [][made' # made => \/ cid = NoCid
                       \/ \E w \in Workers : SecondTry(w)]_vars

\* The column lets go of a conversation that exists only for /clear, and, on
\* that retry, for the conversation the retry made.
ExistingIsKept ==
    [][cid' # cid /\ Exists(cid) =>
         \/ ClearCommand
         \/ cid' # NoCid /\ \E w \in Workers : SecondTry(w)]_vars
=============================================================================
