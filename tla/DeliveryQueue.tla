---------------------------- MODULE DeliveryQueue ----------------------------
(***************************************************************************)
(* What the outbox promises about one event, without rows, workers,        *)
(* transactions or digests: an accepted event waits, is taken for          *)
(* delivery, and either goes back to waiting, is delivered, or is given up *)
(* on.  Delivered and given up are final until the event is forgotten (its *)
(* record is swept, or its integration is deleted).                        *)
(*                                                                         *)
(* Steps concern a set of events because one message may stand for many: a *)
(* digest carries every event folded into it.                              *)
(***************************************************************************)
CONSTANT Events

VARIABLE fate

Fates == {"unknown", "waiting", "taken", "delivered", "abandoned"}

\* Some events go from one stage to the next, the others stay where they are.
Move(from, to) ==
  LET now   == fate
      after == fate'
  IN  /\ after \in [Events -> Fates]
      /\ \A e \in Events : after[e] = now[e] \/ (now[e] = from /\ after[e] = to)

Accept  == Move("unknown", "waiting")
Take    == Move("waiting", "taken")
Return  == Move("taken", "waiting")
Deliver == Move("taken", "delivered")
Abandon == Move("taken", "abandoned")

\* The only step that may concern events in different stages: the rows of a
\* deleted chat, swept rows, what a worker held of deleted rows.
Forget ==
  LET now   == fate
      after == fate'
  IN  /\ after \in [Events -> Fates]
      /\ \A e \in Events : after[e] \in {now[e], "unknown"}

Init == fate = [e \in Events |-> "unknown"]

Next == Accept \/ Take \/ Return \/ Deliver \/ Abandon \/ Forget

Spec == Init /\ [][Next]_fate

Settled(e) == fate[e] \in {"unknown", "delivered", "abandoned"}
=============================================================================
