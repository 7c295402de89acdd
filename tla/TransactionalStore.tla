------------------------ MODULE TransactionalStore ------------------------
(***************************************************************************)
(* What the index promises its callers: a store of documents with one      *)
(* transaction at a time.  A transaction works on a private copy; it either*)
(* replaces the committed documents as a whole or leaves no trace.  Nothing*)
(* here knows of keys, vectors, dirty flags or compaction.                 *)
(***************************************************************************)
CONSTANTS Docs, Contents, Absent

VARIABLES committed, working, open

Init ==
  /\ committed = [d \in Docs |-> Absent]
  /\ working = committed
  /\ open = FALSE

Begin == ~open /\ open' = TRUE /\ UNCHANGED <<committed, working>>

Edit(d, c) ==
  /\ open /\ working' = [working EXCEPT ![d] = c]
  /\ UNCHANGED <<committed, open>>

Clear ==
  /\ open /\ working' = [d \in Docs |-> Absent]
  /\ UNCHANGED <<committed, open>>

Commit == open /\ open' = FALSE /\ committed' = working /\ UNCHANGED working

\* A failed transaction, or a crash.
Abort == open /\ open' = FALSE /\ working' = committed /\ UNCHANGED committed

Next ==
  \/ Begin \/ Clear \/ Commit \/ Abort
  \/ \E d \in Docs, c \in Contents \cup {Absent} : Edit(d, c)

Spec == Init /\ [][Next]_<<committed, working, open>>
=============================================================================
