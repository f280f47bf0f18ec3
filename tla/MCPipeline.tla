----------------------------- MODULE MCPipeline -----------------------------
(* Small instances of Pipeline for TLC. *)
EXTENDS PipelineRefinement, TLC

CONSTANTS c1, c2, e1, e2, e3, s1, s2

\* Two chats on two shards; two of the three events are of the same chat.
ChatOfThree == e1 :> c1 @@ e2 :> c1 @@ e3 :> c2
ShardOfTwo  == c1 :> s1 @@ c2 :> s2

ChatOfTwo == e1 :> c1 @@ e2 :> c2

\* All events of one chat.
ChatOfAll == [e \in Events |-> c1]
ShardOfOne == c1 :> s1
=============================================================================
