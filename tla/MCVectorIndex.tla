---- MODULE MCVectorIndex ----
(* Two documents, one with two chunks, and one link each way; a version of   *)
(* the text is enough to tell a stale vector from a fresh one.               *)
EXTENDS VectorIndex, TLC

MCChunkIds == {1, 2, 3}
MCEdgeIds == {11, 12}
MCFiles == {"a.md", "b.md"}
MCOwner == (1 :> "a.md") @@ (2 :> "a.md") @@ (3 :> "b.md") @@ (11 :> "a.md") @@ (12 :> "b.md")
====
