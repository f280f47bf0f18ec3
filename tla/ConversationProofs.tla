------------------------- MODULE ConversationProofs -------------------------
(***************************************************************************)
(* Theorems about Conversation, for any number of workers, conversations   *)
(* and retries.                                                            *)
(***************************************************************************)
EXTENDS Conversation, TLAPS

\* Turns of the chat do not overlap.
Alone ==
    \A v, w \in Workers : v # w => turn[v].pc = "idle" \/ turn[w].pc = "idle"

\* How a turn under way relates to the column.  A turn that read an id asks
\* with it, until it is told that the conversation is gone; a turn that asks
\* without an id finds the column empty, unless it is the second try of a turn
\* that began without one.
Consistent(t, c) ==
    /\ t.pc \in {"asking", "open", "reading"} =>
         /\ t.sent # NoCid => t.sent = t.read /\ c = t.read
         /\ t.sent = NoCid => t.read = NoCid \/ t.reset
    /\ t.pc \in {"asking", "open"} /\ t.sent = NoCid =>
         c = NoCid \/ (t.mode = "block" /\ t.read = NoCid)
    /\ t.pc \in {"open", "reading"} =>
         t.seen # NoCid /\ (t.sent # NoCid => t.seen = t.sent)
    /\ t.pc \in {"asking", "open"} => ~t.text
    /\ t.pc = "reading" => t.mode = "stream"
    /\ t.pc \in {"reading", "final"} /\ t.seen # NoCid => c = t.seen

ConvInv ==
    /\ TypeOK /\ Alone
    /\ \A w \in Workers : Consistent(turn[w], cid)

LEMMA IdleType == Idle \in Turn /\ Idle.pc = "idle"
BY DEF Idle, Turn

\* One turn moves on, no other is under way: it is enough to look at that one.
LEMMA OneMoves ==
    ASSUME ConvInv, NEW w \in Workers, NEW t \in Turn,
           turn[w].pc # "idle" \/ Serial,
           Become(w, t), Consistent(t, cid'),
           cid' \in Convs \cup {NoCid}, made' \in 0 .. MaxConvs, gone' = gone
    PROVE  ConvInv'
<1>. USE DEF ConvInv
<1>1. \A v \in Workers \ {w} : turn[v].pc = "idle" /\ turn'[v] = turn[v]
  BY DEF Alone, Serial, Become, TypeOK
<1>2. turn'[w] = t
  BY DEF Become, TypeOK
<1>3. TypeOK' /\ Alone'
  BY <1>1, <1>2 DEF TypeOK, Alone, Become
<1>4. \A v \in Workers \ {w} : Consistent(turn'[v], cid')
  BY <1>1 DEF Consistent
<1>. QED BY <1>2, <1>3, <1>4

LEMMA IdleMoves ==
    ASSUME ConvInv, NEW w \in Workers, turn[w].pc # "idle", Ends(w),
           cid' \in Convs \cup {NoCid}, UNCHANGED <<made, gone>>
    PROVE  ConvInv'
<1>1. Consistent(Idle, cid')
  BY IdleType DEF Consistent
<1>. QED BY <1>1, IdleType, OneMoves DEF Ends, ConvInv, TypeOK

LEMMA RetriesInv ==
    ASSUME ConvInv, NEW w \in Workers, NEW class, Retries(w, class),
           turn[w].pc \in {"asking", "open", "reading"},
           UNCHANGED <<made, gone>>
    PROVE  ConvInv'
<1>. DEFINE t == turn[w]
<1>1. t \in Turn /\ cid \in Convs \cup {NoCid} /\ made \in 0 .. MaxConvs
  BY DEF ConvInv, TypeOK
<1>2. /\ t.read \in Convs \cup {NoCid} /\ NoCid \in Convs \cup {NoCid}
      /\ t.mode \in {"stream", "block"} /\ t.reset \in BOOLEAN
  BY <1>1 DEF Turn
<1>3. CASE Ends(w) /\ UNCHANGED cid
  BY <1>1, <1>3, IdleMoves
<1>4. CASE /\ t.read # NoCid /\ cid' = NoCid
           /\ Become(w, Ask(t.read, NoCid, t.mode, TRUE))
  <2>. DEFINE n == Ask(t.read, NoCid, t.mode, TRUE)
  <2>1. /\ n \in Turn /\ n.pc = "asking" /\ n.sent = NoCid /\ n.reset /\ ~n.text
        /\ n.read = t.read /\ n.mode = t.mode
    BY <1>2 DEF Ask, Turn
  <2>2. Consistent(n, cid')
    BY <1>4, <2>1 DEF Consistent
  <2>. HIDE DEF n
  <2>. QED BY <1>1, <1>2, <1>4, <2>1, <2>2, OneMoves DEF n
<1>5. CASE /\ ~t.reset /\ UNCHANGED cid
           /\ Become(w, Ask(t.read, t.read, "block", FALSE))
  <2>. DEFINE n == Ask(t.read, t.read, "block", FALSE)
  <2>1. /\ n \in Turn /\ n.pc = "asking" /\ n.sent = t.read /\ ~n.reset /\ ~n.text
        /\ n.read = t.read /\ n.mode = "block"
    BY <1>2 DEF Ask, Turn
  <2>2. t.read # NoCid => cid = t.read
    BY <1>5 DEF ConvInv, Consistent
  <2>3. Consistent(n, cid')
    BY <1>5, <2>1, <2>2 DEF Consistent
  <2>. HIDE DEF n
  <2>. QED BY <1>1, <1>2, <1>5, <2>1, <2>3, OneMoves DEF n
<1>. QED BY <1>3, <1>4, <1>5 DEF Retries

LEMMA ConvInit == Init => ConvInv
BY IdleType, MaxConvsAssumption
DEF Init, ConvInv, TypeOK, Alone, Consistent, Convs, NoCid

LEMMA ConvStep == ConvInv /\ [Next]_vars => ConvInv'
<1> SUFFICES ASSUME ConvInv, [Next]_vars PROVE ConvInv'
  OBVIOUS
<1>a. /\ cid \in Convs \cup {NoCid} /\ NoCid \in Convs \cup {NoCid}
      /\ made \in 0 .. MaxConvs /\ NoCid \notin Convs
      /\ \A w \in Workers : turn[w] \in Turn /\ Consistent(turn[w], cid)
  BY DEF ConvInv, TypeOK, Convs, NoCid
<1>1. CASE ClearCommand
  <2>1. \A w \in Workers : turn'[w].pc = "idle"
    BY <1>1 DEF ClearCommand, Serial
  <2>. QED BY <1>1, <1>a, <2>1
           DEF ClearCommand, ConvInv, TypeOK, Alone, Consistent
<1>2. CASE Crash
  BY <1>2, <1>a, IdleType DEF Crash, ConvInv, TypeOK, Alone, Consistent
<1>3. ASSUME NEW c \in Convs, DifyForgets(c) PROVE ConvInv'
  BY <1>3 DEF DifyForgets, ConvInv, TypeOK, Alone
<1>4. ASSUME NEW w \in Workers, Begin(w) PROVE ConvInv'
  <2>. DEFINE n == Ask(cid, cid, "stream", FALSE)
  <2>1. /\ n \in Turn /\ n.pc = "asking" /\ n.sent = cid /\ ~n.reset /\ ~n.text
        /\ n.read = cid /\ n.mode = "stream"
    BY <1>a DEF Ask, Turn
  <2>2. Consistent(n, cid')
    BY <1>4, <2>1 DEF Begin, Consistent
  <2>. HIDE DEF n
  <2>. QED BY <1>4, <1>a, <2>1, <2>2, OneMoves DEF Begin, n
<1>5. ASSUME NEW w \in Workers, DifyAccepts(w) PROVE ConvInv'
  <2>. DEFINE t == turn[w]
  <2>1. PICK c \in Convs :
          /\ Become(w, [t EXCEPT !.pc = "open", !.seen = c])
          /\ t.sent # NoCid => c = t.sent
          /\ made' \in 0 .. MaxConvs
    <3>1. CASE t.sent = NoCid /\ made < MaxConvs /\ made' = made + 1
               /\ Become(w, [t EXCEPT !.pc = "open", !.seen = made + 1])
      <4>1. made + 1 \in Convs
        BY <1>a, <3>1, MaxConvsAssumption DEF Convs
      <4>2. made' \in 0 .. MaxConvs
        BY <3>1, <4>1 DEF Convs
      <4>. QED BY <3>1, <4>1, <4>2
    <3>2. CASE Exists(t.sent) /\ UNCHANGED made
               /\ Become(w, [t EXCEPT !.pc = "open", !.seen = t.sent])
      <4>1. t.sent \in Convs
        BY <1>a, <3>2, MaxConvsAssumption DEF Exists, Convs
      <4>. QED BY <1>a, <3>2, <4>1
    <3>. QED BY <1>5, <3>1, <3>2 DEF DifyAccepts
  <2>. DEFINE n == [t EXCEPT !.pc = "open", !.seen = c]
  <2>2. /\ n \in Turn /\ n.pc = "open" /\ n.seen = c /\ n.read = t.read
        /\ n.sent = t.sent /\ (n.reset <=> t.reset) /\ n.mode = t.mode
        /\ (n.text <=> t.text)
    BY <1>a DEF Turn
  <2>3. t.pc = "asking" /\ UNCHANGED <<cid, gone>>
    BY <1>5 DEF DifyAccepts
  <2>4. Consistent(n, cid')
    BY <1>a, <2>1, <2>2, <2>3 DEF Consistent
  <2>. HIDE DEF n
  <2>. QED BY <1>a, <2>1, <2>2, <2>3, <2>4, OneMoves DEF n
<1>6. ASSUME NEW w \in Workers, DifyRefuses(w) PROVE ConvInv'
  BY <1>6, RetriesInv DEF DifyRefuses
<1>7. ASSUME NEW w \in Workers, FirstChunk(w) PROVE ConvInv'
  <2>. DEFINE t == turn[w]
  <2>1. PICK text \in BOOLEAN :
          Become(w, [t EXCEPT !.pc = "reading", !.text = text])
    BY <1>7 DEF FirstChunk
  <2>. DEFINE n == [t EXCEPT !.pc = "reading", !.text = text]
  <2>2. /\ n \in Turn /\ n.pc = "reading" /\ n.seen = t.seen /\ n.read = t.read
        /\ n.sent = t.sent /\ (n.reset <=> t.reset) /\ n.mode = t.mode
    BY <1>a DEF Turn
  <2>3. /\ t.pc = "open" /\ t.mode = "stream" /\ cid' = t.seen
        /\ UNCHANGED <<made, gone>>
    BY <1>7 DEF FirstChunk
  <2>4. Consistent(n, cid')
    BY <1>a, <2>2, <2>3 DEF Consistent
  <2>5. cid' \in Convs \cup {NoCid}
    BY <1>a, <2>3 DEF Turn
  <2>. HIDE DEF n
  <2>. QED BY <1>a, <2>1, <2>2, <2>3, <2>4, <2>5, OneMoves DEF n
\* chat() is about to return.
<1>b. ASSUME NEW w \in Workers, NEW x \in {turn[w].seen, NoCid},
             Become(w, [turn[w] EXCEPT !.pc = "final", !.seen = x]),
             x # NoCid => cid' = x, turn[w].pc # "idle",
             cid' \in Convs \cup {NoCid}, UNCHANGED <<made, gone>>
      PROVE  ConvInv'
  <2>. DEFINE n == [turn[w] EXCEPT !.pc = "final", !.seen = x]
  <2>1. n \in Turn /\ n.pc = "final" /\ n.seen = x
    BY <1>a, <1>b DEF Turn
  <2>2. Consistent(n, cid')
    BY <1>b, <2>1 DEF Consistent
  <2>. HIDE DEF n
  <2>. QED BY <1>a, <1>b, <2>1, <2>2, OneMoves DEF n
<1>c. ASSUME NEW w \in Workers, Become(w, [turn[w] EXCEPT !.pc = "final"])
      PROVE  Become(w, [turn[w] EXCEPT !.pc = "final", !.seen = turn[w].seen])
  BY <1>a, <1>c DEF Turn
<1>8. ASSUME NEW w \in Workers, StreamEnds(w) PROVE ConvInv'
  <2>1. CASE turn[w].pc = "reading"
    <3>1. Become(w, [turn[w] EXCEPT !.pc = "final"])
      BY <1>8, <2>1 DEF StreamEnds
    <3>2. turn[w].seen # NoCid => cid = turn[w].seen
      BY <1>a, <2>1 DEF Consistent
    <3>. QED BY <1>8, <1>a, <1>b, <1>c, <2>1, <3>1, <3>2 DEF StreamEnds
  <2>2. CASE turn[w].pc = "open"
    BY <1>8, <1>a, <1>b, <2>2 DEF StreamEnds
  <2>. QED BY <1>8, <2>1, <2>2 DEF StreamEnds
<1>9. ASSUME NEW w \in Workers, StreamCut(w) PROVE ConvInv'
  <2>1. CASE Retries(w, "Transient")
    BY <1>9, <2>1, RetriesInv DEF StreamCut
  <2>2. CASE Become(w, [turn[w] EXCEPT !.pc = "final"]) /\ UNCHANGED cid
    <3>1. turn[w].pc # "idle" /\ cid \in Convs \cup {NoCid}
      BY <1>9, <1>a DEF StreamCut
    <3>2. CASE turn[w].pc = "reading"
      <4>1. turn[w].seen # NoCid => cid = turn[w].seen
        BY <1>a, <3>2 DEF Consistent
      <4>. QED BY <1>9, <1>b, <1>c, <2>2, <3>1, <4>1 DEF StreamCut
    <3>3. CASE turn[w].pc # "reading"
      <4>1. turn[w].pc = "open" /\ ~turn[w].text
        BY <1>9, <1>a, <3>3 DEF StreamCut, Consistent
      <4>. QED BY <1>9, <2>1, <4>1 DEF StreamCut
    <3>. QED BY <3>2, <3>3
  <2>. QED BY <1>9, <2>1, <2>2 DEF StreamCut
<1>10. ASSUME NEW w \in Workers, BlockingAnswer(w) PROVE ConvInv'
  <2>1. turn[w].seen \in Convs \cup {NoCid}
    BY <1>a DEF Turn
  <2>. QED BY <1>10, <1>a, <1>b, <1>c, <2>1 DEF BlockingAnswer
<1>11. ASSUME NEW w \in Workers, StoreFinal(w) PROVE ConvInv'
  <2>1. cid' \in Convs \cup {NoCid}
    BY <1>11, <1>a DEF StoreFinal, Turn
  <2>. QED BY <1>11, <2>1, IdleMoves DEF StoreFinal
<1>12. ASSUME NEW w \in Workers, TurnFails(w) PROVE ConvInv'
  BY <1>12, <1>a, IdleMoves DEF TurnFails
<1>13. CASE UNCHANGED vars
  BY <1>13 DEF vars, ConvInv, TypeOK, Alone
<1>. QED
  BY <1>1, <1>2, <1>3, <1>4, <1>5, <1>6, <1>7, <1>8, <1>9, <1>10, <1>11,
     <1>12, <1>13 DEF Next

\* A conversation the code has seen is never orphaned by an interruption.
THEOREM SeenIsAlwaysStored == Spec => []SeenIsStored
<1>1. ConvInv => SeenIsStored
  BY DEF ConvInv, SeenIsStored, Consistent
<1>. QED BY ConvInit, ConvStep, <1>1, PTL DEF Spec

\* A chat that has a conversation gets another one only by the second try of a
\* turn that began without one.
THEOREM ForksAreRetries == Spec => ForkOnlyOnRetry
<1>1. ConvInv /\ [Next]_vars =>
        [made' # made => cid = NoCid \/ \E w \in Workers : SecondTry(w)]_vars
  <2> SUFFICES ASSUME ConvInv, [Next]_vars, made' # made
               PROVE  cid = NoCid \/ \E w \in Workers : SecondTry(w)
    OBVIOUS
  <2>1. PICK w \in Workers : DifyAccepts(w)
    BY DEF Next, vars, ClearCommand, Crash, DifyForgets, Begin, DifyRefuses,
           FirstChunk, StreamEnds, StreamCut, BlockingAnswer, StoreFinal, TurnFails
  <2>2. turn[w].pc = "asking" /\ turn[w].sent = NoCid
    BY <2>1 DEF DifyAccepts
  <2>. QED BY <2>2 DEF ConvInv, Consistent, SecondTry
<1>. QED BY ConvInit, ConvStep, <1>1, PTL DEF Spec, ForkOnlyOnRetry

\* As long as every 404 speaks of the conversation, the column lets go of one
\* that exists only for /clear or on that second try.
THEOREM ExistingKept == ASSUME ~StrayNotFound PROVE Spec => ExistingIsKept
<1>1. ConvInv /\ [Next]_vars =>
        [cid' # cid /\ Exists(cid) =>
           \/ ClearCommand
           \/ cid' # NoCid /\ \E w \in Workers : SecondTry(w)]_vars
  <2> SUFFICES ASSUME ConvInv, [Next]_vars, cid' # cid, Exists(cid), ~ClearCommand
               PROVE  cid' # NoCid /\ \E w \in Workers : SecondTry(w)
    OBVIOUS
  <2>1. cid # NoCid /\ \A w \in Workers : Consistent(turn[w], cid)
    BY DEF ConvInv, TypeOK, Exists, NoCid
  <2>2. PICK w \in Workers : \/ DifyRefuses(w) \/ FirstChunk(w) \/ StreamCut(w)
                             \/ BlockingAnswer(w) \/ StoreFinal(w)
    BY DEF Next, vars, Crash, DifyForgets, Begin, DifyAccepts, StreamEnds,
           TurnFails
  <2>3. CASE DifyRefuses(w)
    <3>1. PICK r \in Refusals(turn[w].sent) : Retries(w, Classify(r[1], r[2]))
      BY <2>3 DEF DifyRefuses
    <3>2. /\ Classify(r[1], r[2]) = "Invalid" /\ turn[w].read # NoCid
          /\ ~turn[w].reset /\ turn[w].pc = "asking"
      BY <2>3, <3>1 DEF DifyRefuses, Retries
    <3>3. turn[w].sent = cid
      BY <2>1, <3>2 DEF Consistent
    <3>4. r = <<400, FALSE>> \/ r = <<429, FALSE>> \/ r = <<503, FALSE>>
      <4>. DEFINE a == <<400, FALSE>>
                  b == <<429, FALSE>>
                  c == <<503, FALSE>>
      <4>1. Refusals(cid) = {a, b, c}
        BY <2>1 DEF Refusals
      <4>. HIDE DEF a, b, c
      <4>2. r \in {a, b, c}
        BY <3>1, <3>3, <4>1
      <4>3. r = a \/ r = b \/ r = c
        BY ONLY <4>2
      <4>. QED BY <4>3 DEF a, b, c
    <3>5. /\ Classify(400, FALSE) # "Invalid" /\ Classify(429, FALSE) # "Invalid"
          /\ Classify(503, FALSE) # "Invalid"
      BY DEF Classify
    <3>6. CASE r = <<400, FALSE>>
      <4>1. r[1] = 400 /\ r[2] = FALSE
        BY ONLY <3>6
      <4>2. Classify(400, FALSE) = "Invalid"
        BY ONLY <3>2, <4>1
      <4>. QED BY ONLY <3>5, <4>2
    <3>7. CASE r = <<429, FALSE>>
      <4>1. r[1] = 429 /\ r[2] = FALSE
        BY ONLY <3>7
      <4>2. Classify(429, FALSE) = "Invalid"
        BY ONLY <3>2, <4>1
      <4>. QED BY ONLY <3>5, <4>2
    <3>8. CASE r = <<503, FALSE>>
      <4>1. r[1] = 503 /\ r[2] = FALSE
        BY ONLY <3>8
      <4>2. Classify(503, FALSE) = "Invalid"
        BY ONLY <3>2, <4>1
      <4>. QED BY ONLY <3>5, <4>2
    <3>. QED BY <3>4, <3>6, <3>7, <3>8
  <2>4. CASE FirstChunk(w)
    <3>1. turn[w].sent # NoCid => turn[w].seen = cid
      BY <2>1, <2>4 DEF FirstChunk, Consistent
    <3>. QED BY <2>1, <2>4, <3>1 DEF FirstChunk, Consistent
  <2>5. CASE StreamCut(w)
    BY <2>5 DEF StreamCut, Retries
  <2>6. CASE BlockingAnswer(w)
    <3>1. turn[w].sent # NoCid => turn[w].seen = cid
      BY <2>1, <2>6 DEF BlockingAnswer, Consistent
    <3>2. turn[w].seen # NoCid
      BY <2>1, <2>6 DEF BlockingAnswer, Consistent
    <3>3. turn[w].mode = "block" /\ turn[w].read = NoCid
      BY <2>1, <2>6, <3>1 DEF BlockingAnswer, Consistent
    <3>. QED BY <2>6, <3>2, <3>3 DEF BlockingAnswer, SecondTry
  <2>7. CASE StoreFinal(w)
    BY <2>1, <2>7 DEF StoreFinal, Consistent
  <2>. QED BY <2>2, <2>3, <2>4, <2>5, <2>6, <2>7
<1>. QED BY ConvInit, ConvStep, <1>1, PTL DEF Spec, ExistingIsKept
=============================================================================
