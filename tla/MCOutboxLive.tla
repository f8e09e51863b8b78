----------------------------- MODULE MCOutboxLive -----------------------------
(***************************************************************************)
(* An instance of Outbox for liveness.  A behaviour looks at one of        *)
(*   "flood"    events keep coming, one at a time, into a chat over its    *)
(*              budget, while a full digest waits; only digests fail       *)
(*   "retries"  three rows, any failure at any time, deletions             *)
(*   "chats"    two chats with an integration each, no failures.           *)
(*                                                                         *)
(* Rows with the same history are alike, so a new row gets the least free  *)
(* id.  The janitor comes as soon as there is something to sweep: a row it *)
(* may take matters to no step any more.                                   *)
(***************************************************************************)
EXTENDS MCOutbox

VARIABLE scene

Free == Rows \ (Ids \cup Carried \cup Held)

NewIdIsLeast    == \A r \in Ids' \ Ids : \A q \in Free : r <= q
JanitorAtOnce   == Sweepable # {} => Ids' = Ids \ Sweepable
FewRows         == Ids' \subseteq 1..3
OneIntegration  == i2 \in live' /\ \A r \in Ids' : outbox'[r].integ = i1
OneEventAtATime ==
  Ids' \subseteq Ids \/ \A r \in Ids : outbox[r].kind = "event" => outbox[r].status = "sent"
OnlyDigestsFail ==
  \A w \in Workers : result'[w] \in {"none", "ok"} \/ (result'[w] = "retry" /\ cur[w].kind = "digest")
NothingFails    == \A w \in Workers : result'[w] \in {"none", "ok"}

InScene ==
  CASE scene = "flood"   -> OneIntegration /\ OneEventAtATime /\ OnlyDigestsFail /\ UNCHANGED live
    [] scene = "retries" -> OneIntegration /\ FewRows
    [] scene = "chats"   -> NothingFails /\ FewRows

MCInit == Init /\ scene \in {"flood", "retries", "chats"}
MCNext == Next /\ NewIdIsLeast /\ JanitorAtOnce /\ InScene /\ UNCHANGED scene
MCSpec == MCInit /\ [][MCNext]_<<vars, scene>> /\ Fairness
===============================================================================
