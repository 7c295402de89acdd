---------------------------- MODULE MCWriteback ----------------------------
EXTENDS Writeback, TLC

CONSTANTS a, b, t1, t2, v1, v2, copy, part

\* Two definitions: one works on every text, one fails on the second.
MCEval ==
  [p \in {copy, part} \X {t1, t2} |->
     CASE p = <<copy, t1>> -> v1 [] p = <<copy, t2>> -> v2
       [] p = <<part, t1>> -> v2 [] p = <<part, t2>> -> None]

Overlay(f, l) == [m \in Mods |-> IF m = "formula" THEN f ELSE l]
MCSchemas == {Overlay(copy, part), Overlay(None, copy), Broken}
MCTarget == [d \in Docs |-> IF a \in Docs THEN a ELSE d]
MCEvents == {Docs, Docs \ {a}}
MCFirst == {Overlay(copy, part)}

\* A bound: the documents start with the text both definitions differ on.
MCInit == Init /\ \A d \in Docs : file[d].src.text = t1
MCSpec == MCInit /\ [][Next]_vars
=============================================================================
