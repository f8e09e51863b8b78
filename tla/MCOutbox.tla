------------------------------ MODULE MCOutbox -------------------------------
(***************************************************************************)
(* Instances of Outbox for TLC.                                            *)
(***************************************************************************)
EXTENDS OutboxRefinement, TLC

CONSTANTS i1, i2, c1, c2

OneChat  == [i \in Integrations |-> c1]
TwoChats == (i1 :> c1) @@ (i2 :> c2)

ShortSchedule == <<1>>

Symmetry == Permutations(Rows) \cup Permutations(Workers)
=============================================================================
