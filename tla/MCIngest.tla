------------------------------- MODULE MCIngest -------------------------------
(***************************************************************************)
(* Instances of Ingest for TLC.                                            *)
(***************************************************************************)
EXTENDS Ingest, TLC

CONSTANTS i1, i2, c1, gh, ann

OneInstallation == [c \in Connections |-> "github"]
AllOfGitHub     == [i \in Integrations |-> gh]
OneChat         == [i \in Integrations |-> c1]

Post(id, via, kind) == [id |-> id, via |-> via, kind |-> kind, actor |-> ann]

OnePush   == {Post(1, gh, "event")}
StarTwice == {Post(1, gh, "star"), Post(2, gh, "star")}
=============================================================================
