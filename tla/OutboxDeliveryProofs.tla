------------------------- MODULE OutboxDeliveryProofs -------------------------
(***************************************************************************)
(* More proofs about the outbox, on top of its inductive invariant: where  *)
(* the events of its rows go; how often Telegram is called for a row and   *)
(* its owner told of it, against what the row's columns say; and how many  *)
(* messages a chat gets within a minute, against the budget its workers    *)
(* counted.                                                                *)
(***************************************************************************)
EXTENDS OutboxProofs, FiniteSetTheorems

USE BoundsAssumption DEF Ids

-----------------------------------------------------------------------------
(***************************************************************************)
(* Where events are.  A row carries its own event, whatever else it does,  *)
(* and the id of a job is an event of no row but the job's.                *)
(***************************************************************************)
OwnEvent ==
  \A r \in Ids : /\ r \in outbox[r].items
                 /\ outbox[r].kind = "event" => outbox[r].items = {r}

JobsOwnTheirEvents ==
  \A w \in Workers : \A j \in InFlight(w) : \A r \in Ids :
    j.id \in outbox[r].items => r = j.id

FoldingEvents ==
  \A w \in Workers : pc[w] \in {"digest", "create", "merge"} => cur[w].kind = "event"

Events == OwnEvent /\ CarriedOnce /\ JobsOwnTheirEvents /\ FoldingEvents

\* Steps that move no event, and give no worker a job.
LEMMA EventsKept ==
  ASSUME Events, Ids' \subseteq Ids, FoldingEvents',
         \A r \in Ids' : /\ outbox'[r].items = outbox[r].items
                        /\ outbox'[r].kind \in {outbox[r].kind, "digest"},
         \A w \in Workers : InFlight(w)' \subseteq InFlight(w)
  PROVE  Events'
<1>1. OwnEvent'
  BY DEF Events, OwnEvent
<1>2. CarriedOnce'
  BY DEF Events, CarriedOnce
<1>3. JobsOwnTheirEvents'
  BY DEF Events, JobsOwnTheirEvents
<1> QED
  BY <1>1, <1>2, <1>3 DEF Events

\* The same where the rest of the program is at work.
LEMMA EnvironmentEvents ==
  ASSUME Events, UNCHANGED memory, Ids' \subseteq Ids,
         \A r \in Ids' : outbox'[r].items = outbox[r].items /\ outbox'[r].kind = outbox[r].kind
  PROVE  Events'
BY EventsKept DEF memory, Events, FoldingEvents, InFlight

\* A new row's event is in no row and no job is about it.
LEMMA EnqueueEvents ==
  ASSUME IInv, Events, NEW r \in Rows, NEW i \in Integrations, Enqueue(r, i)
  PROVE  Events'
<1>1. /\ Ids' = Ids \cup {r} /\ r \notin Ids /\ r \notin Carried /\ r \notin Held
      /\ \A x \in Ids : outbox'[x] = outbox[x]
      /\ outbox'[r].items = {r}
  BY DEF Enqueue, NewRow
<1>2. \A x \in Ids : r \notin outbox[x].items
  BY <1>1 DEF Carried
<1>3. \A w \in Workers : InFlight(w)' = InFlight(w) /\ \A j \in InFlight(w) : j.id # r
  BY <1>1 DEF Held, Enqueue, memory, InFlight
<1>4. OwnEvent'
  BY <1>1 DEF Events, OwnEvent
<1>5. CarriedOnce'
  BY <1>1, <1>2 DEF Events, CarriedOnce
<1>6. JobsOwnTheirEvents'
  BY <1>1, <1>3 DEF Events, JobsOwnTheirEvents
<1>7. FoldingEvents'
  BY DEF Events, FoldingEvents, Enqueue, memory
<1> QED
  BY <1>4, <1>5, <1>6, <1>7 DEF Events

\* A claim hands out rows that carry their own event.
LEMMA ClaimEvents ==
  ASSUME IInv, Events, NEW w \in Workers, NEW S \in SUBSET Rows, ClaimRows(w, S)
  PROVE  Events'
<1>1. S \subseteq Ids /\ Ids' = Ids
  BY DEF ClaimRows, Claimable
<1>2. \A r \in Ids : outbox'[r].items = outbox[r].items /\ outbox'[r].kind = outbox[r].kind
  <2> TAKE r \in Ids
  <2>1. outbox[r] \in Row
    BY DEF IInv, TypeOK
  <2> QED
    BY <2>1 DEF ClaimRows, Row
<1>3. /\ cur' = cur /\ InFlight(w)' \subseteq {JobOf(r) : r \in S} \cup InFlight(w)
      /\ \A v \in Workers \ {w} : InFlight(v)' = InFlight(v)
      /\ \A v \in Workers : pc'[v] \in {pc[v], "loop"}
  BY DEF ClaimRows, Goto, InFlight, IInv, TypeOK
<1>4. OwnEvent' /\ CarriedOnce'
  BY <1>1, <1>2 DEF Events, OwnEvent, CarriedOnce
<1>5. JobsOwnTheirEvents'
  <2> SUFFICES ASSUME NEW v \in Workers, NEW j \in InFlight(v)', NEW r \in Ids,
                      j.id \in outbox[r].items
               PROVE  r = j.id
    BY <1>1, <1>2 DEF JobsOwnTheirEvents
  <2>1. CASE j \in InFlight(v)
    BY <2>1 DEF Events, JobsOwnTheirEvents
  <2>2. CASE j \notin InFlight(v)
    <3>1. j.id \in S
      BY <1>3, <2>2 DEF JobOf
    <3> QED
      BY <1>1, <3>1 DEF Events, OwnEvent, CarriedOnce
  <2> QED
    BY <2>1, <2>2
<1>6. FoldingEvents'
  BY <1>3 DEF Events, FoldingEvents
<1> QED
  BY <1>4, <1>5, <1>6 DEF Events

\* Starting a job: only one about an event goes on to the digest.
LEMMA StartJobEvents ==
  ASSUME IInv, Events, NEW w \in Workers, NEW j \in jobs[w], StartJob(w, j)
  PROVE  Events'
<1>1. j \in Job
  BY DEF IInv, TypeOK
<1>2. /\ outbox' = outbox /\ cur' = [cur EXCEPT ![w] = j] /\ jobs' = [jobs EXCEPT ![w] = @ \ {j}]
      /\ \/ pc' = [pc EXCEPT ![w] = "digest"] /\ j.kind # "digest"
         \/ pc' = [pc EXCEPT ![w] = "deliver"]
  BY DEF StartJob, Goto, table
<1>3. \A v \in Workers : InFlight(v)' \subseteq InFlight(v)
  BY <1>2 DEF InFlight, IInv, TypeOK
<1>4. FoldingEvents'
  BY <1>1, <1>2 DEF Events, FoldingEvents, Job, IInv, TypeOK
<1> QED
  BY <1>2, <1>3, <1>4, EventsKept

\* A step of a worker on its current job that moves no event.
LEMMA JobStepEvents ==
  ASSUME IInv, Events, NEW w \in Workers, Ids' \subseteq Ids, jobs' = jobs,
         cur'[w] \in {cur[w], NoJob},
         \A v \in Workers \ {w} : pc'[v] = pc[v] /\ cur'[v] = cur[v],
         pc'[w] \in {"digest", "create", "merge"} => cur'[w].kind = "event",
         \A r \in Ids' : /\ outbox'[r].items = outbox[r].items
                        /\ outbox'[r].kind \in {outbox[r].kind, "digest"}
  PROVE  Events'
<1>1. \A v \in Workers : InFlight(v)' \subseteq InFlight(v)
  BY DEF InFlight
<1>2. FoldingEvents'
  BY DEF Events, FoldingEvents
<1> QED
  BY <1>1, <1>2, EventsKept

LEMMA BatchDoneEvents ==
  ASSUME IInv, Events, NEW w \in Workers, BatchDone(w)
  PROVE  Events'
BY JobStepEvents DEF BatchDone, Goto, table, IInv, TypeOK

LEMMA LoadDigestEvents ==
  ASSUME IInv, Events, NEW w \in Workers, LoadDigest(w)
  PROVE  Events'
<1>1. cur[w].kind = "event"
  BY DEF LoadDigest, Events, FoldingEvents
<1>2. \A v \in Workers \ {w} : pc'[v] = pc[v]
  BY DEF LoadDigest, Goto, IInv, TypeOK
<1> QED
  BY <1>1, <1>2, JobStepEvents DEF LoadDigest, table

\* The row that becomes the digest carries its own event already, and no other.
LEMMA CreateDigestEvents ==
  ASSUME IInv, Events, NEW w \in Workers, CreateDigest(w)
  PROVE  Events'
<1> DEFINE r == cur[w].id
<1>1. FinishJob(w) /\ jobs' = jobs /\ cur[w].kind = "event" /\ cur[w] # NoJob
  BY DEF CreateDigest, Events, FoldingEvents, IInv, Control
<1>2. /\ Ids' = Ids
      /\ \A x \in Ids : x # r => outbox'[x] = outbox[x]
      /\ r \in Ids => outbox'[r] = [outbox[r] EXCEPT !.kind = "digest", !.items = {r},
                                                     !.status = "pending", !.due = Minute]
  BY WithRowIs DEF CreateDigest
<1>3. r \in Ids => outbox[r].items = {r} /\ outbox[r] \in Row
  <2>1. r \in Ids => JobOf(r) = cur[w]
    BY <1>1, OwnRow DEF CreateDigest
  <2> QED
    BY <1>1, <2>1 DEF JobOf, Events, OwnEvent, IInv, TypeOK
<1>4. r \in Ids => outbox'[r].items = outbox[r].items /\ outbox'[r].kind = "digest"
  BY <1>2, <1>3 DEF Row
<1> QED
  BY <1>1, <1>2, <1>4, FinishJobIs, JobStepEvents DEF IInv

\* A merge moves the job's event, which was in no row but the job's.
LEMMA MergeDigestEvents ==
  ASSUME IInv, Events, NEW w \in Workers, MergeDigest(w)
  PROVE  Events'
<1> DEFINE r == cur[w].id
<1>1. PICK d \in locks[w] :
        outbox' = [x \in Ids \ {r} |-> IF x = d THEN Merged(d, cur[w]) ELSE outbox[x]]
  BY DEF MergeDigest
<1>2. /\ d \in Ids /\ outbox[d] \in Row /\ outbox[d].kind = "digest"
      /\ FinishJob(w) /\ jobs' = jobs /\ cur[w] # NoJob
  BY DEF MergeDigest, IInv, TypeOK, Control, Locking, PendingDigests
<1>3. Merged(d, cur[w]).kind = "digest" /\ outbox[d].items \subseteq Merged(d, cur[w]).items
      /\ Merged(d, cur[w]).items \subseteq outbox[d].items \cup {r}
  BY <1>2 DEF Merged, Row
<1>4. /\ Ids' = Ids \ {r}
      /\ \A x \in Ids' : x # d => outbox'[x] = outbox[x]
      /\ d \in Ids' => /\ outbox'[d].kind = "digest" /\ outbox[d].items \subseteq outbox'[d].items
                       /\ outbox'[d].items \subseteq outbox[d].items \cup {r}
  BY <1>1, <1>3
<1>5. \A x \in Ids' : r \notin outbox[x].items
  BY <1>2, <1>4, OwnRow DEF Events, JobsOwnTheirEvents
<1>6. \A v \in Workers : InFlight(v)' \subseteq InFlight(v) /\ \A k \in InFlight(v)' : k.id # r
  <2>1. \A v \in Workers \ {w} : InFlight(v)' = InFlight(v) /\ \A k \in InFlight(v) : k.id # r
    BY <1>2, FinishJobIs, OwnRow DEF InFlight, IInv
  <2>2. InFlight(w)' = jobs[w] /\ \A k \in jobs[w] : k.id # r
    BY <1>2, FinishJobIs, OwnRow, NoJobAssumption DEF InFlight, IInv, TypeOK
  <2> QED
    BY <2>1, <2>2 DEF InFlight
<1>7. OwnEvent'
  BY <1>2, <1>4 DEF Events, OwnEvent
<1>8. CarriedOnce'
  <2> SUFFICES ASSUME NEW x \in Ids', NEW y \in Ids', x # y,
                      NEW e \in outbox'[x].items, e \in outbox'[y].items
               PROVE  FALSE
    BY DEF CarriedOnce
  <2>1. (e = r /\ (x = d \/ y = d)) \/ (e \in outbox[x].items /\ e \in outbox[y].items)
    BY <1>4
  <2> QED
    BY <1>4, <1>5, <2>1 DEF Events, CarriedOnce
<1>9. JobsOwnTheirEvents'
  BY <1>4, <1>6 DEF Events, JobsOwnTheirEvents
<1>10. FoldingEvents'
  BY <1>2, FinishJobIs DEF Events, FoldingEvents, IInv
<1> QED
  BY <1>7, <1>8, <1>9, <1>10 DEF Events

\* The steps of a delivery leave the row's payload alone.
LEMMA DeliveryEvents ==
  ASSUME IInv, Events, NEW w \in Workers,
         \/ \E res \in Results : Deliver(w, res)
         \/ RecordSent(w) \/ TouchIntegration(w) \/ RecordFailed(w) \/ OnPermanent(w)
         \/ RecordRetry(w)
  PROVE  Events'
<1> DEFINE r == cur[w].id
<1>1. /\ jobs' = jobs /\ cur'[w] \in {cur[w], NoJob}
      /\ pc'[w] \notin {"digest", "create", "merge"}
      /\ \A v \in Workers \ {w} : pc'[v] = pc[v] /\ cur'[v] = cur[v]
  BY DEF Deliver, RecordSent, TouchIntegration, RecordFailed, OnPermanent, RecordRetry,
         FinishJob, Goto, IInv, TypeOK
<1>2. Ids' = Ids /\ \A x \in Ids : /\ outbox'[x].items = outbox[x].items
                                  /\ outbox'[x].kind = outbox[x].kind
  <2>1. r \in Ids => outbox[r] \in Row
    BY DEF IInv, TypeOK
  <2>2. CASE \E res \in Results : Deliver(w, res)
    <3>1. PICK res \in Results : Deliver(w, res)
      BY <2>2
    <3>2. /\ Ids' = Ids
          /\ \A x \in Ids : x # r => outbox'[x] = outbox[x]
          /\ r \in Ids => outbox'[r] = [outbox[r] EXCEPT !.calls = @ + 1,
                                                         !.acked = @ \/ res = "ok"]
      BY <3>1, WithRowIs DEF Deliver
    <3>3. r \in Ids => /\ outbox'[r].items = outbox[r].items
                       /\ outbox'[r].kind = outbox[r].kind
      BY <2>1, <3>2 DEF Row
    <3> QED
      BY <3>2, <3>3
  <2>3. CASE RecordSent(w)
    BY <2>1, <2>3 DEF RecordSent, WithRow, Row
  <2>4. CASE RecordFailed(w)
    BY <2>1, <2>4 DEF RecordFailed, WithRow, Row
  <2>5. CASE RecordRetry(w)
    BY <2>1, <2>5 DEF RecordRetry, WithRow, Row
  <2>6. CASE OnPermanent(w)
    BY <2>1, <2>6 DEF OnPermanent, WithRow, Row
  <2>7. CASE TouchIntegration(w)
    BY <2>7 DEF TouchIntegration, table
  <2> QED
    BY <2>2, <2>3, <2>4, <2>5, <2>6, <2>7
<1> QED
  BY <1>1, <1>2, JobStepEvents

\* Whoever forgets its jobs moves no event.
LEMMA DropEvents ==
  ASSUME IInv, Events, NEW W \in SUBSET Workers, Drop(W)
  PROVE  Events'
<1>1. \A v \in Workers : InFlight(v)' \subseteq InFlight(v)
  BY DEF Drop, InFlight
<1>2. FoldingEvents'
  BY DEF Drop, Events, FoldingEvents
<1> QED
  BY <1>1, <1>2, EventsKept DEF Drop, table

LEMMA EnvironmentKeepsEvents ==
  ASSUME IInv, Events, Environment
  PROVE  Events'
<1>1. CASE \E r \in Rows, i \in Integrations : Enqueue(r, i)
  BY <1>1, EnqueueEvents
<1>2. CASE Tick
  <2>1. Ids' = Ids /\ UNCHANGED memory
    BY <1>2 DEF Tick
  <2>2. ASSUME NEW r \in Ids
        PROVE  outbox'[r].items = outbox[r].items /\ outbox'[r].kind = outbox[r].kind
    <3>1. outbox[r] \in Row
      BY DEF IInv, TypeOK
    <3>2. \/ outbox'[r] = [outbox[r] EXCEPT !.due = @ - 1]
          \/ outbox'[r] = [outbox[r] EXCEPT !.age = @ + 1]
          \/ outbox'[r] = outbox[r]
      BY <1>2 DEF Tick
    <3> QED
      BY <3>1, <3>2 DEF Row
  <2> QED
    BY <2>1, <2>2, EnvironmentEvents
<1>3. CASE Sweep
  BY <1>3, EnvironmentEvents DEF Sweep, Without
<1>4. ASSUME NEW I, DeleteIntegrations(I) PROVE Events'
  BY <1>4, EnvironmentEvents DEF DeleteIntegrations, Without
<1>5. CASE \E c \in Chats : ClearChatIntegrationsBroken(c)
  BY <1>5, EnvironmentEvents DEF ClearChatIntegrationsBroken
<1> QED
  BY <1>1, <1>2, <1>3, <1>4, <1>5 DEF Environment, DeleteIntegration, DeleteChat

\* Every step keeps events where they belong.
LEMMA NextEvents == IInv /\ Events /\ [Next]_vars => Events'
<1> SUFFICES ASSUME IInv, Events, [Next]_vars PROVE Events'
  OBVIOUS
<1>1. CASE Environment
  BY <1>1, EnvironmentKeepsEvents
<1>2. ASSUME NEW w \in Workers, Claim(w) PROVE Events'
  BY <1>2, ClaimEvents DEF Claim
<1>3. ASSUME NEW w \in Workers, Work(w) PROVE Events'
  BY <1>3, BatchDoneEvents, StartJobEvents, LoadDigestEvents, CreateDigestEvents,
     MergeDigestEvents, DeliveryEvents DEF Work, Finish
<1>4. ASSUME NEW w \in Workers, DbError(w) PROVE Events'
  BY <1>4, DropEvents DEF DbError
<1>5. CASE Crash
  BY <1>5, DropEvents DEF Crash
<1>6. CASE UNCHANGED vars
  BY <1>6, EnvironmentEvents DEF vars, table
<1> QED
  BY <1>1, <1>2, <1>3, <1>4, <1>5, <1>6 DEF Next

LEMMA InitEvents == Init => Events
BY DEF Init, Events, OwnEvent, CarriedOnce, JobsOwnTheirEvents, FoldingEvents

\* What is in which row, in every reachable state.
THEOREM EventsKnown == Spec => []Events
<1>1. Init => Events
  BY InitEvents
<1>2. IInv /\ Events /\ [Next]_vars => Events'
  BY NextEvents
<1> QED
  BY <1>1, <1>2, Invariance, PTL DEF Spec

\* No two rows carry one event: merges, retries and crashes never make two
\* messages of it.
THEOREM NoEventTwice == Spec => []CarriedOnce
<1>1. Events => CarriedOnce
  BY DEF Events
<1> QED
  BY <1>1, EventsKnown, PTL

-----------------------------------------------------------------------------
(***************************************************************************)
(* Where an event goes in a step: it stays in its row, or its row, about   *)
(* this event only, is folded into a digest of the same chat.              *)
(***************************************************************************)

\* A row's event lists and its integration.
SameEvents(r) == outbox'[r].items = outbox[r].items /\ outbox'[r].integ = outbox[r].integ

\* What w's merge does to the table.
FoldsInto(w, d) ==
  /\ d \in PendingDigests(ChatOf[cur[w].integ])
  /\ cur[w] # NoJob /\ d # cur[w].id /\ Ids' = Ids \ {cur[w].id}
  /\ cur[w].id \in Ids =>
       /\ outbox[cur[w].id].status = "sending"
       /\ outbox[cur[w].id].integ = cur[w].integ
       /\ outbox[cur[w].id].items = {cur[w].id}
  /\ \A x \in Ids' \ {d} : SameEvents(x)
  /\ outbox'[d].integ = outbox[d].integ
  /\ \A x \in Ids' : outbox'[x].status = outbox[x].status
  /\ \/ /\ Cardinality(outbox[d].items) < MaxItems
        /\ outbox'[d].items = outbox[d].items \cup {cur[w].id}
     \/ Cardinality(outbox[d].items) >= MaxItems /\ outbox'[d].items = outbox[d].items

LEMMA MergeDigestFolds ==
  ASSUME IInv, Events, NEW w \in Workers, MergeDigest(w)
  PROVE  \E d \in Ids : FoldsInto(w, d)
<1> DEFINE r == cur[w].id
<1>1. PICK d \in locks[w] :
        outbox' = [x \in Ids \ {r} |-> IF x = d THEN Merged(d, cur[w]) ELSE outbox[x]]
  BY DEF MergeDigest
<1>2. /\ d \in PendingDigests(ChatOf[cur[w].integ]) /\ d \in Ids /\ outbox[d] \in Row
      /\ cur[w] # NoJob /\ pc[w] = "merge"
  BY DEF MergeDigest, IInv, TypeOK, Control, Locking, PendingDigests
<1>3. d # r
  BY <1>2, OwnRow DEF Locked
<1>4. r \in Ids => /\ outbox[r].status = "sending" /\ outbox[r].integ = cur[w].integ
                   /\ outbox[r].items = {r}
  <2>1. r \in Ids => outbox[r].status = "sending" /\ JobOf(r) = cur[w]
    BY <1>2, OwnRow
  <2>2. cur[w].kind = "event"
    BY <1>2 DEF Events, FoldingEvents
  <2> QED
    BY <2>1, <2>2 DEF JobOf, Events, OwnEvent
<1>5. Cardinality(outbox[d].items) \in Nat
  <2>1. outbox[d].items \in SUBSET Rows
    BY <1>2 DEF Row
  <2> QED
    BY <2>1, RowsAssumption, FS_Subset, FS_CardinalityType
<1>6. /\ Merged(d, cur[w]).integ = outbox[d].integ
      /\ Merged(d, cur[w]).status = outbox[d].status
      /\ \/ /\ Cardinality(outbox[d].items) < MaxItems
            /\ Merged(d, cur[w]).items = outbox[d].items \cup {r}
         \/ /\ Cardinality(outbox[d].items) >= MaxItems
            /\ Merged(d, cur[w]).items = outbox[d].items
  BY <1>2, <1>5 DEF Merged, Row
<1>7. /\ Ids' = Ids \ {r} /\ outbox'[d] = Merged(d, cur[w])
      /\ \A x \in Ids' \ {d} : SameEvents(x) /\ outbox'[x].status = outbox[x].status
  BY <1>1, <1>2, <1>3 DEF SameEvents
<1>8. FoldsInto(w, d)
  BY <1>2, <1>3, <1>4, <1>6, <1>7 DEF FoldsInto
<1> QED
  BY <1>2, <1>8

\* What every other step does to the table: rows that come carry events no row
\* had, rows that go were finished or lost their integration.
LeavesEvents ==
  /\ \A r \in Ids \cap Ids' : SameEvents(r)
  /\ \A r \in Ids' \ Ids : outbox'[r].items \cap Carried = {}
  /\ \A r \in Ids \ Ids' :
       outbox[r].status \in {"sent", "failed"} \/ outbox[r].integ \notin live'

LEMMA EnvironmentLeavesEvents ==
  ASSUME IInv, Environment
  PROVE  LeavesEvents
<1>1. ASSUME NEW r \in Rows, NEW i \in Integrations, Enqueue(r, i) PROVE LeavesEvents
  BY <1>1 DEF Enqueue, NewRow, LeavesEvents, SameEvents
<1>2. CASE Tick
  <2>1. Ids' = Ids
    BY <1>2 DEF Tick
  <2>2. ASSUME NEW r \in Ids PROVE SameEvents(r)
    <3>1. outbox[r] \in Row
      BY DEF IInv, TypeOK
    <3>2. \/ outbox'[r] = [outbox[r] EXCEPT !.due = @ - 1]
          \/ outbox'[r] = [outbox[r] EXCEPT !.age = @ + 1]
          \/ outbox'[r] = outbox[r]
      BY <1>2 DEF Tick
    <3> QED
      BY <3>1, <3>2 DEF Row, SameEvents
  <2> QED
    BY <2>1, <2>2 DEF LeavesEvents
<1>3. CASE Sweep
  BY <1>3 DEF Sweep, Sweepable, Without, LeavesEvents, SameEvents
<1>4. ASSUME NEW I, DeleteIntegrations(I) PROVE LeavesEvents
  BY <1>4 DEF DeleteIntegrations, Without, LeavesEvents, SameEvents
<1>5. CASE \E c \in Chats : ClearChatIntegrationsBroken(c)
  BY <1>5 DEF ClearChatIntegrationsBroken, LeavesEvents, SameEvents
<1> QED
  BY <1>1, <1>2, <1>3, <1>4, <1>5 DEF Environment, DeleteIntegration, DeleteChat

LEMMA WorkerLeavesEvents ==
  ASSUME IInv, Events, NEW w \in Workers, Claim(w) \/ Work(w), ~MergeDigest(w)
  PROVE  LeavesEvents
<1> DEFINE r == cur[w].id
<1>1. CASE outbox' = outbox
  BY <1>1 DEF LeavesEvents, SameEvents
<1>2. CASE Claim(w)
  <2>1. Ids' = Ids
    BY <1>2 DEF Claim, ClaimRows
  <2>2. ASSUME NEW x \in Ids PROVE SameEvents(x)
    <3>1. outbox[x] \in Row
      BY DEF IInv, TypeOK
    <3>2. \/ outbox'[x] = [outbox[x] EXCEPT !.status = "sending", !.due = 0]
          \/ outbox'[x] = outbox[x]
      BY <1>2 DEF Claim, ClaimRows
    <3> QED
      BY <3>1, <3>2 DEF Row, SameEvents
  <2> QED
    BY <2>1, <2>2 DEF LeavesEvents
<1>3. ASSUME NEW row, outbox' = WithRow(r, row),
             r \in Ids => row.items = outbox[r].items /\ row.integ = outbox[r].integ
      PROVE  LeavesEvents
  BY <1>3 DEF WithRow, LeavesEvents, SameEvents
<1>4. r \in Ids => outbox[r] \in Row
  BY DEF IInv, TypeOK
<1>5. CASE CreateDigest(w)
  <2>1. r \in Ids => outbox[r].items = {r}
    <3>1. cur[w].kind = "event" /\ cur[w] # NoJob
      BY <1>5 DEF CreateDigest, Events, FoldingEvents, IInv, Control
    <3>2. r \in Ids => JobOf(r) = cur[w]
      BY <1>5, <3>1, OwnRow DEF CreateDigest
    <3> QED
      BY <3>1, <3>2 DEF JobOf, Events, OwnEvent
  <2> DEFINE row == [outbox[r] EXCEPT !.kind = "digest", !.items = {r},
                                      !.status = "pending", !.due = Minute]
  <2>2. r \in Ids => row.items = outbox[r].items /\ row.integ = outbox[r].integ
    BY <1>4, <2>1 DEF Row
  <2>3. outbox' = WithRow(r, row)
    BY <1>5 DEF CreateDigest
  <2> HIDE DEF row
  <2> QED
    BY <1>3, <2>2, <2>3
<1>6. ASSUME NEW res \in Results, Deliver(w, res) PROVE LeavesEvents
  <2> DEFINE row == [outbox[r] EXCEPT !.calls = @ + 1, !.acked = @ \/ res = "ok"]
  <2>1. outbox' = WithRow(r, row)
    BY <1>6 DEF Deliver
  <2>2. r \in Ids => row.items = outbox[r].items /\ row.integ = outbox[r].integ
    BY <1>4 DEF Row
  <2> HIDE DEF row
  <2> QED
    BY <1>3, <2>1, <2>2
<1>7. CASE RecordSent(w)
  <2> DEFINE row == [outbox[r] EXCEPT !.status = "sent", !.age = 0, !.attempts = @ + 1]
  <2>1. outbox' = WithRow(r, row)
    BY <1>7 DEF RecordSent
  <2>2. r \in Ids => row.items = outbox[r].items /\ row.integ = outbox[r].integ
    BY <1>4 DEF Row
  <2> HIDE DEF row
  <2> QED
    BY <1>3, <2>1, <2>2
<1>8. CASE RecordFailed(w)
  <2> DEFINE row == [outbox[r] EXCEPT !.status = "failed", !.attempts = Attempt(cur[w])]
  <2>1. outbox' = WithRow(r, row)
    BY <1>8 DEF RecordFailed
  <2>2. r \in Ids => row.items = outbox[r].items /\ row.integ = outbox[r].integ
    BY <1>4 DEF Row
  <2> HIDE DEF row
  <2> QED
    BY <1>3, <2>1, <2>2
<1>9. CASE RecordRetry(w)
  <2> DEFINE n == Attempt(cur[w])
             row == [outbox[r] EXCEPT !.status = "pending", !.attempts = n, !.due = Backoff(n)]
  <2>1. outbox' = WithRow(r, row)
    BY <1>9 DEF RecordRetry
  <2>2. r \in Ids => row.items = outbox[r].items /\ row.integ = outbox[r].integ
    BY <1>4 DEF Row
  <2> HIDE DEF row
  <2> QED
    BY <1>3, <2>1, <2>2
<1>10. CASE OnPermanent(w)
  <2> DEFINE row == [outbox[r] EXCEPT !.told = @ + 1]
  <2>1. outbox' = outbox \/ outbox' = WithRow(r, row)
    BY <1>10 DEF OnPermanent
  <2>2. r \in Ids => row.items = outbox[r].items /\ row.integ = outbox[r].integ
    BY <1>4 DEF Row
  <2> HIDE DEF row
  <2> QED
    BY <1>1, <1>3, <2>1, <2>2
<1>11. BatchDone(w) \/ LoadDigest(w) \/ TouchIntegration(w) \/ (\E j \in jobs[w] : StartJob(w, j))
         => LeavesEvents
  BY <1>1 DEF BatchDone, LoadDigest, TouchIntegration, StartJob, table
<1> QED
  BY <1>2, <1>5, <1>6, <1>7, <1>8, <1>9, <1>10, <1>11 DEF Work, Finish

\* Every step leaves events where they are or is a merge.
LEMMA EventsStep ==
  ASSUME IInv, Events, [Next]_vars
  PROVE  LeavesEvents \/ \E w \in Workers : \E d \in Ids : FoldsInto(w, d)
<1>1. CASE Environment
  BY <1>1, EnvironmentLeavesEvents
<1>2. ASSUME NEW w \in Workers, Claim(w) \/ Work(w)
      PROVE  LeavesEvents \/ \E d \in Ids : FoldsInto(w, d)
  BY <1>2, WorkerLeavesEvents, MergeDigestFolds
<1>3. CASE Crash \/ (\E w \in Workers : DbError(w)) \/ UNCHANGED vars
  <2>1. outbox' = outbox
    BY <1>3 DEF Crash, DbError, Drop, table, vars
  <2> QED
    BY <2>1 DEF LeavesEvents, SameEvents
<1> QED
  BY <1>1, <1>2, <1>3 DEF Next

\* However rows are merged, an event never moves to a row of another chat.
THEOREM NoEventChangesChat == Spec => EventsStayInTheirChat
<1> DEFINE Stays == \A r \in Ids, d \in Ids' :
                      outbox[r].items \cap outbox'[d].items # {} =>
                        ChatOf[outbox[r].integ] = ChatOf[outbox'[d].integ]
<1>1. IInv /\ Events /\ [Next]_vars => Stays
  <2> SUFFICES ASSUME IInv, Events, [Next]_vars,
                      NEW r \in Ids, NEW x \in Ids',
                      NEW e \in outbox[r].items, e \in outbox'[x].items
               PROVE  ChatOf[outbox[r].integ] = ChatOf[outbox'[x].integ]
    OBVIOUS
  <2>1. CASE x \in Ids /\ SameEvents(x)
    BY <2>1 DEF SameEvents, Events, CarriedOnce
  <2>2. CASE LeavesEvents
    <3>1. x \in Ids
      BY <2>2 DEF LeavesEvents, Carried
    <3> QED
      BY <2>1, <2>2, <3>1 DEF LeavesEvents
  <2>3. ASSUME NEW w \in Workers, NEW d \in Ids, FoldsInto(w, d)
        PROVE  ChatOf[outbox[r].integ] = ChatOf[outbox'[x].integ]
    <3>1. CASE x # d
      BY <2>1, <2>3, <3>1 DEF FoldsInto
    <3>2. CASE x = d /\ e \in outbox[d].items
      BY <2>3, <3>2 DEF FoldsInto, Events, CarriedOnce
    <3>3. CASE x = d /\ e = cur[w].id
      <4>1. r = cur[w].id
        BY <2>3, <3>3, OwnRow DEF FoldsInto, Events, JobsOwnTheirEvents
      <4> QED
        BY <2>3, <3>3, <4>1 DEF FoldsInto, PendingDigests, ChatOfRow
    <3> QED
      BY <2>3, <3>1, <3>2, <3>3 DEF FoldsInto
  <2> QED
    BY <2>2, <2>3, EventsStep
<1> QED
  BY <1>1, Invariance, EventsKnown, PTL DEF Spec, EventsStayInTheirChat

\* No event leaves the table but with a finished row, a deleted integration or
\* into a full digest.
THEOREM NoEventLost == Spec => EventsLeaveAccountedFor
<1> DEFINE Accounted ==
             \A r \in Ids :
               \/ outbox[r].items \subseteq Carried'
               \/ outbox[r].status \in {"sent", "failed"}
               \/ outbox[r].integ \notin live'
               \/ outbox[r].status = "sending" /\ FullDigest(ChatOfRow(r))
<1>1. IInv /\ Events /\ [Next]_vars => Accounted
  <2> SUFFICES ASSUME IInv, Events, [Next]_vars, NEW r \in Ids
               PROVE  \/ outbox[r].items \subseteq Carried'
                      \/ outbox[r].status \in {"sent", "failed"}
                      \/ outbox[r].integ \notin live'
                      \/ outbox[r].status = "sending" /\ FullDigest(ChatOfRow(r))
    OBVIOUS
  <2>1. \A x \in Ids' : outbox'[x].items \subseteq Carried'
    BY DEF Carried
  <2>2. CASE LeavesEvents
    BY <2>1, <2>2 DEF LeavesEvents, SameEvents
  <2>3. ASSUME NEW w \in Workers, NEW d \in Ids, FoldsInto(w, d)
        PROVE  \/ outbox[r].items \subseteq Carried'
               \/ outbox[r].status = "sending" /\ FullDigest(ChatOfRow(r))
    <3>1. CASE r \in Ids' /\ r # d
      BY <2>1, <2>3, <3>1 DEF FoldsInto, SameEvents
    <3>2. CASE r = d
      BY <2>1, <2>3, <3>2 DEF FoldsInto
    <3>3. CASE r = cur[w].id
      <4>1. CASE Cardinality(outbox[d].items) >= MaxItems
        BY <2>3, <3>3, <4>1 DEF FoldsInto, FullDigest, ChatOfRow
      <4>2. CASE outbox'[d].items = outbox[d].items \cup {cur[w].id}
        BY <2>1, <2>3, <3>3, <4>2 DEF FoldsInto
      <4> QED
        BY <2>3, <4>1, <4>2 DEF FoldsInto
    <3> QED
      BY <2>3, <3>1, <3>2, <3>3 DEF FoldsInto
  <2> QED
    BY <2>2, <2>3, EventsStep
<1> QED
  BY <1>1, Invariance, EventsKnown, PTL DEF Spec, EventsLeaveAccountedFor

-----------------------------------------------------------------------------
(***************************************************************************)
(* The ledger: the calls made for a row are its attempts, but for the one  *)
(* that is yet to be recorded or was lost with its worker; an answer that  *)
(* it arrived and a message to its owner are not forgotten.                *)
(***************************************************************************)
RowLedger(r) ==
  /\ outbox[r].status # "sending" => outbox[r].calls = outbox[r].attempts
  /\ outbox[r].calls <= outbox[r].attempts + 1
  /\ outbox[r].status \in {"pending", "failed"} => ~outbox[r].acked
  /\ outbox[r].told > 0 => outbox[r].told = 1 /\ outbox[r].status = "failed"

\* The rows of jobs a worker has not started.
JobsLedger(w) ==
  \A j \in jobs[w] : j.id \in Ids => outbox[j.id].calls = j.attempts /\ ~outbox[j.id].acked

\* The row of the job it is working on.
CurLedger(w) ==
  cur[w] # NoJob /\ cur[w].id \in Ids =>
    /\ pc[w] \in {"digest", "create", "merge", "deliver"} =>
         outbox[cur[w].id].calls = cur[w].attempts /\ ~outbox[cur[w].id].acked
    /\ pc[w] = "record" =>
         /\ outbox[cur[w].id].calls = cur[w].attempts + 1
         /\ result[w] # "ok" => ~outbox[cur[w].id].acked
    /\ pc[w] = "hook" => outbox[cur[w].id].told = 0

Ledger ==
  /\ \A r \in Ids : RowLedger(r)
  /\ \A w \in Workers : JobsLedger(w) /\ CurLedger(w)

\* What the outside has seen of a row, and what the ledger compares it with.
SameSeen(r) ==
  /\ outbox'[r].calls = outbox[r].calls /\ outbox'[r].acked = outbox[r].acked
  /\ outbox'[r].told = outbox[r].told

SameLedger(r) ==
  SameSeen(r) /\ outbox'[r].status = outbox[r].status /\ outbox'[r].attempts = outbox[r].attempts

\* Steps that change nothing the ledger speaks of, and give no worker a job.
LEMMA LedgerKept ==
  ASSUME Ledger, UNCHANGED memory, Ids' \subseteq Ids, \A r \in Ids' : SameLedger(r)
  PROVE  Ledger'
<1>1. \A r \in Ids' : RowLedger(r)'
  BY DEF Ledger, RowLedger, SameLedger, SameSeen
<1>2. \A w \in Workers : JobsLedger(w)' /\ CurLedger(w)'
  BY DEF Ledger, JobsLedger, CurLedger, SameLedger, SameSeen, memory
<1> QED
  BY <1>1, <1>2 DEF Ledger

\* Steps that leave the table alone.
LEMMA LedgerOfWorkers ==
  ASSUME Ledger, outbox' = outbox, \A w \in Workers : JobsLedger(w)' /\ CurLedger(w)'
  PROVE  Ledger'
BY DEF Ledger, RowLedger

\* A step of a worker on the row of its current job.
LEMMA LedgerJobStep ==
  ASSUME IInv, Ledger, NEW w \in Workers, cur[w] # NoJob, NEW own, own = cur[w].id,
         jobs' = jobs,
         \A v \in Workers \ {w} : pc'[v] = pc[v] /\ cur'[v] = cur[v] /\ result'[v] = result[v],
         Ids' \subseteq Ids,
         \A r \in Ids' \ {own} : SameLedger(r),
         own \in Ids' => RowLedger(own)', CurLedger(w)'
  PROVE  Ledger'
<1>1. \A r \in Ids' : RowLedger(r)'
  <2>1. \A r \in Ids' \ {own} : RowLedger(r)'
    BY DEF Ledger, RowLedger, SameLedger, SameSeen
  <2> QED
    BY <2>1
<1>2. \A v \in Workers : \A j \in jobs[v] : j.id # own
  BY OwnRow DEF InFlight
<1>3. \A v \in Workers \ {w} : cur[v] # NoJob => cur[v].id # own
  BY OwnRow DEF InFlight
<1>4. \A v \in Workers : JobsLedger(v)'
  BY <1>2 DEF Ledger, JobsLedger, SameLedger, SameSeen
<1>5. \A v \in Workers \ {w} : CurLedger(v)'
  BY <1>3 DEF Ledger, CurLedger, SameLedger, SameSeen
<1> QED
  BY <1>1, <1>4, <1>5 DEF Ledger

\* The row of a job that is still to be recorded: what its worker read of it.
LEMMA OwnLedger ==
  ASSUME IInv, Ledger, NEW w \in Workers, cur[w] # NoJob, cur[w].id \in Ids,
         pc[w] \notin {"touch", "hook"}
  PROVE  /\ outbox[cur[w].id] \in Row /\ outbox[cur[w].id].told = 0
         /\ outbox[cur[w].id].attempts = cur[w].attempts
<1>1. outbox[cur[w].id] \in Row
  BY DEF IInv, TypeOK
<1>2. outbox[cur[w].id].status = "sending" /\ JobOf(cur[w].id) = cur[w]
  BY OwnRow
<1> QED
  BY <1>1, <1>2 DEF Ledger, RowLedger, JobOf, Row

LEMMA InitLedger == Init => Ledger
BY DEF Init, Ledger, JobsLedger, CurLedger

LEMMA EnqueueLedger ==
  ASSUME IInv, Ledger, NEW r \in Rows, NEW i \in Integrations, Enqueue(r, i)
  PROVE  Ledger'
<1>1. /\ Ids' = Ids \cup {r} /\ r \notin Ids /\ r \notin Held /\ UNCHANGED memory
      /\ \A x \in Ids : outbox'[x] = outbox[x]
      /\ outbox'[r] = NewRow(r, i)
  BY DEF Enqueue
<1>2. \A w \in Workers : \A j \in InFlight(w) : j.id # r
  BY <1>1 DEF Held
<1>3. \A x \in Ids' : RowLedger(x)'
  BY <1>1 DEF Ledger, RowLedger, NewRow
<1>4. \A w \in Workers : JobsLedger(w)' /\ CurLedger(w)'
  BY <1>1, <1>2 DEF Ledger, JobsLedger, CurLedger, InFlight, memory
<1> QED
  BY <1>3, <1>4 DEF Ledger

LEMMA EnvironmentLedger ==
  ASSUME IInv, Ledger, Environment
  PROVE  Ledger'
<1>1. CASE \E r \in Rows, i \in Integrations : Enqueue(r, i)
  BY <1>1, EnqueueLedger
<1>2. CASE Tick
  <2>1. Ids' = Ids /\ UNCHANGED memory
    BY <1>2 DEF Tick
  <2>2. ASSUME NEW r \in Ids PROVE SameLedger(r)
    <3>1. outbox[r] \in Row
      BY DEF IInv, TypeOK
    <3>2. \/ outbox'[r] = [outbox[r] EXCEPT !.due = @ - 1]
          \/ outbox'[r] = [outbox[r] EXCEPT !.age = @ + 1]
          \/ outbox'[r] = outbox[r]
      BY <1>2 DEF Tick
    <3> QED
      BY <3>1, <3>2 DEF Row, SameLedger, SameSeen
  <2> QED
    BY <2>1, <2>2, LedgerKept
<1>3. CASE Sweep
  BY <1>3, LedgerKept DEF Sweep, Without, SameLedger, SameSeen
<1>4. ASSUME NEW I, DeleteIntegrations(I) PROVE Ledger'
  BY <1>4, LedgerKept DEF DeleteIntegrations, Without, SameLedger, SameSeen
<1>5. CASE \E c \in Chats : ClearChatIntegrationsBroken(c)
  BY <1>5, LedgerKept DEF ClearChatIntegrationsBroken, SameLedger, SameSeen
<1> QED
  BY <1>1, <1>2, <1>3, <1>4, <1>5 DEF Environment, DeleteIntegration, DeleteChat

\* A claimed row has been tried as often as its job says.
LEMMA ClaimLedger ==
  ASSUME IInv, Ledger, NEW w \in Workers, NEW S \in SUBSET Rows, ClaimRows(w, S)
  PROVE  Ledger'
<1>1. /\ S \subseteq Ids /\ Ids' = Ids /\ \A r \in S : outbox[r].status = "pending"
      /\ jobs' = [jobs EXCEPT ![w] = {JobOf(r) : r \in S}]
      /\ pc' = [pc EXCEPT ![w] = "loop"] /\ cur' = cur /\ result' = result
  BY DEF ClaimRows, Claimable, Goto
<1>2. ASSUME NEW r \in Ids
      PROVE  SameSeen(r) /\ outbox'[r].attempts = outbox[r].attempts
             /\ outbox'[r].status = IF r \in S THEN "sending" ELSE outbox[r].status
  <2>1. outbox[r] \in Row
    BY DEF IInv, TypeOK
  <2>2. outbox'[r] = IF r \in S THEN [outbox[r] EXCEPT !.status = "sending", !.due = 0]
                                ELSE outbox[r]
    BY DEF ClaimRows
  <2> QED
    BY <2>1, <2>2 DEF Row, SameSeen
<1>3. ASSUME NEW r \in Ids PROVE RowLedger(r)'
  <2>1. outbox[r].told \in Nat /\ outbox[r].attempts \in Nat
    BY DEF IInv, TypeOK, Row
  <2>2. RowLedger(r)
    BY DEF Ledger
  <2> QED
    BY <1>1, <1>2, <2>1, <2>2 DEF RowLedger, SameSeen
<1>4. JobsLedger(w)'
  <2> SUFFICES ASSUME NEW r \in S
               PROVE  outbox'[r].calls = outbox[r].attempts /\ ~outbox'[r].acked
    BY <1>1 DEF JobsLedger, JobOf, IInv, TypeOK
  <2> QED
    BY <1>1, <1>2 DEF Ledger, RowLedger, SameSeen
<1>5. \A v \in Workers \ {w} : JobsLedger(v)'
  <2>1. \A v \in Workers \ {w} : jobs'[v] = jobs[v]
    BY <1>1 DEF IInv, TypeOK
  <2> QED
    BY <1>1, <1>2, <2>1 DEF Ledger, JobsLedger, SameSeen
<1>6. \A v \in Workers : CurLedger(v)'
  <2>1. cur[w] = NoJob /\ \A v \in Workers \ {w} : pc'[v] = pc[v]
    BY <1>1 DEF ClaimRows, IInv, Control, TypeOK
  <2> QED
    BY <1>1, <1>2, <2>1 DEF Ledger, CurLedger, SameSeen
<1> QED
  BY <1>1, <1>3, <1>4, <1>5, <1>6 DEF Ledger

LEMMA BatchDoneLedger ==
  ASSUME IInv, Ledger, NEW w \in Workers, BatchDone(w)
  PROVE  Ledger'
<1>1. /\ outbox' = outbox /\ jobs' = jobs /\ cur' = cur /\ result' = result
      /\ cur[w] = NoJob /\ \A v \in Workers \ {w} : pc'[v] = pc[v]
  BY DEF BatchDone, Goto, table, IInv, Control, TypeOK
<1>2. \A v \in Workers : JobsLedger(v)' /\ CurLedger(v)'
  BY <1>1 DEF Ledger, JobsLedger, CurLedger
<1> QED
  BY <1>1, <1>2, LedgerOfWorkers

LEMMA StartJobLedger ==
  ASSUME IInv, Ledger, NEW w \in Workers, NEW j \in jobs[w], StartJob(w, j)
  PROVE  Ledger'
<1>1. /\ outbox' = outbox /\ result' = result
      /\ jobs' = [jobs EXCEPT ![w] = jobs[w] \ {j}] /\ cur' = [cur EXCEPT ![w] = j]
      /\ pc'[w] \in {"digest", "deliver"} /\ \A v \in Workers \ {w} : pc'[v] = pc[v]
  BY DEF StartJob, Goto, table, IInv, TypeOK
<1>2. CurLedger(w)' /\ JobsLedger(w)'
  BY <1>1 DEF Ledger, JobsLedger, CurLedger, IInv, TypeOK
<1>3. \A v \in Workers \ {w} : JobsLedger(v)' /\ CurLedger(v)'
  BY <1>1 DEF Ledger, JobsLedger, CurLedger, IInv, TypeOK
<1> QED
  BY <1>1, <1>2, <1>3, LedgerOfWorkers

LEMMA DropLedger ==
  ASSUME IInv, Ledger, NEW W \in SUBSET Workers, Drop(W)
  PROVE  Ledger'
<1>1. \A w \in W : jobs'[w] = {} /\ cur'[w] = NoJob
  BY DEF Drop
<1>2. \A w \in Workers \ W : /\ pc'[w] = pc[w] /\ jobs'[w] = jobs[w] /\ cur'[w] = cur[w]
                             /\ result'[w] = result[w]
  BY DEF Drop
<1>3. outbox' = outbox
  BY DEF Drop, table
<1>4. \A w \in Workers : JobsLedger(w)' /\ CurLedger(w)'
  BY <1>1, <1>2, <1>3 DEF Ledger, JobsLedger, CurLedger
<1> QED
  BY <1>3, <1>4, LedgerOfWorkers

\* The digest of an event nobody was told of yet.
LEMMA LoadDigestLedger ==
  ASSUME IInv, Ledger, NEW w \in Workers, LoadDigest(w)
  PROVE  Ledger'
<1>1. /\ outbox' = outbox /\ jobs' = jobs /\ cur' = cur /\ result' = result
      /\ pc[w] = "digest" /\ pc'[w] \in {"create", "merge"}
      /\ \A v \in Workers \ {w} : pc'[v] = pc[v]
  BY DEF LoadDigest, Goto, table, IInv, TypeOK
<1>2. \A v \in Workers : JobsLedger(v)' /\ CurLedger(v)'
  BY <1>1 DEF Ledger, JobsLedger, CurLedger
<1> QED
  BY <1>1, <1>2, LedgerOfWorkers

LEMMA CreateDigestLedger ==
  ASSUME IInv, Ledger, NEW w \in Workers, CreateDigest(w)
  PROVE  Ledger'
<1>0. PICK r : r = cur[w].id
  OBVIOUS
<1>1. pc[w] = "create" /\ cur[w] # NoJob /\ FinishJob(w) /\ jobs' = jobs
  BY DEF CreateDigest, IInv, Control
<1>2. /\ Ids' = Ids
      /\ \A x \in Ids : x # r => outbox'[x] = outbox[x]
      /\ r \in Ids => outbox'[r] = [outbox[r] EXCEPT !.kind = "digest", !.items = {r},
                                                     !.status = "pending", !.due = Minute]
  <2>1. outbox' = WithRow(r, [outbox[r] EXCEPT !.kind = "digest", !.items = {r},
                                               !.status = "pending", !.due = Minute])
    BY <1>0 DEF CreateDigest
  <2> QED
    BY <2>1, WithRowIs
<1>3. r \in Ids => RowLedger(r)'
  <2> SUFFICES ASSUME r \in Ids PROVE RowLedger(r)'
    OBVIOUS
  <2>1. outbox[r] \in Row /\ outbox[r].told = 0 /\ outbox[r].attempts = cur[w].attempts
    BY <1>0, <1>1, OwnLedger
  <2>2. outbox[r].calls = cur[w].attempts /\ ~outbox[r].acked
    BY <1>0, <1>1 DEF Ledger, CurLedger
  <2>3. SameSeen(r) /\ outbox'[r].status = "pending" /\ outbox'[r].attempts = outbox[r].attempts
    BY <1>2, <2>1 DEF Row, SameSeen
  <2>4. outbox[r].calls \in Nat /\ outbox[r].attempts \in Nat
    BY <2>1 DEF Row
  <2> QED
    BY <2>1, <2>2, <2>3, <2>4 DEF RowLedger, SameSeen
<1>4. CurLedger(w)'
  BY <1>1, FinishJobIs DEF CurLedger, IInv
<1>5. \A x \in Ids' \ {r} : SameLedger(x)
  BY <1>2 DEF SameLedger, SameSeen
<1> QED
  BY <1>0, <1>1, <1>2, <1>3, <1>4, <1>5, FinishJobIs, LedgerJobStep DEF IInv

\* A merge takes the row of the job away; what was seen of the digest stays.
LEMMA MergeDigestLedger ==
  ASSUME IInv, Ledger, NEW w \in Workers, MergeDigest(w)
  PROVE  Ledger'
<1>0. PICK r : r = cur[w].id
  OBVIOUS
<1>1. PICK d \in locks[w] :
        outbox' = [x \in Ids \ {r} |-> IF x = d THEN Merged(d, cur[w]) ELSE outbox[x]]
  BY <1>0 DEF MergeDigest
<1>2. /\ outbox[d] \in Row /\ FinishJob(w) /\ jobs' = jobs /\ cur[w] # NoJob
  BY DEF MergeDigest, IInv, TypeOK, Control, Locking, PendingDigests
<1>3. /\ Merged(d, cur[w]).calls = outbox[d].calls
      /\ Merged(d, cur[w]).acked = outbox[d].acked
      /\ Merged(d, cur[w]).told = outbox[d].told
      /\ Merged(d, cur[w]).status = outbox[d].status
      /\ Merged(d, cur[w]).attempts = outbox[d].attempts
  BY <1>2 DEF Merged, Row
<1>4. Ids' = Ids \ {r} /\ \A x \in Ids' : SameLedger(x)
  BY <1>1, <1>3 DEF SameLedger, SameSeen
<1>5. CurLedger(w)'
  BY <1>2, FinishJobIs DEF CurLedger, IInv
<1> QED
  BY <1>0, <1>2, <1>4, <1>5, FinishJobIs, LedgerJobStep DEF IInv

\* A call is made for a row that was called as often as it says, and that did
\* not arrive.
LEMMA DeliverLedger ==
  ASSUME IInv, Ledger, NEW w \in Workers, NEW res \in Results, Deliver(w, res)
  PROVE  Ledger'
<1>0. PICK r : r = cur[w].id
  OBVIOUS
<1>1. /\ pc[w] = "deliver" /\ cur[w] # NoJob /\ jobs' = jobs /\ cur' = cur
      /\ result'[w] = res /\ pc'[w] = "record"
      /\ \A v \in Workers \ {w} : pc'[v] = pc[v] /\ result'[v] = result[v]
  BY DEF Deliver, Goto, IInv, TypeOK, Control
<1>2. /\ Ids' = Ids
      /\ \A x \in Ids : x # r => outbox'[x] = outbox[x]
      /\ r \in Ids => outbox'[r] = [outbox[r] EXCEPT !.calls = @ + 1, !.acked = @ \/ res = "ok"]
  <2>1. outbox' = WithRow(r, [outbox[r] EXCEPT !.calls = @ + 1, !.acked = @ \/ res = "ok"])
    BY <1>0 DEF Deliver
  <2> QED
    BY <2>1, WithRowIs
<1>3. r \in Ids =>
        /\ outbox[r] \in Row /\ outbox[r].told = 0 /\ outbox[r].attempts = cur[w].attempts
        /\ outbox[r].status = "sending"
        /\ outbox[r].calls = cur[w].attempts /\ outbox[r].acked = FALSE
  <2>1. r \in Ids => outbox[r] \in Row /\ outbox[r].told = 0 /\ outbox[r].attempts = cur[w].attempts
    BY <1>0, <1>1, OwnLedger
  <2>2. r \in Ids => outbox[r].calls = cur[w].attempts /\ ~outbox[r].acked
    BY <1>0, <1>1 DEF Ledger, CurLedger
  <2>3. r \in Ids => outbox[r].status = "sending"
    BY <1>0, <1>1, OwnRow
  <2> QED
    BY <2>1, <2>2, <2>3 DEF Row
<1>4. r \in Ids =>
        /\ outbox'[r].calls = cur[w].attempts + 1 /\ outbox'[r].acked = (res = "ok")
        /\ outbox'[r].told = 0 /\ outbox'[r].status = "sending"
        /\ outbox'[r].attempts = cur[w].attempts
  BY <1>2, <1>3 DEF Row
<1>5. r \in Ids => RowLedger(r)'
  BY <1>3, <1>4 DEF RowLedger, Row
<1>6. CurLedger(w)'
  BY <1>0, <1>1, <1>2, <1>4 DEF CurLedger
<1>7. \A x \in Ids' \ {r} : SameLedger(x)
  BY <1>2 DEF SameLedger, SameSeen
<1> QED
  BY <1>0, <1>1, <1>2, <1>5, <1>6, <1>7, LedgerJobStep

\* What a worker about to record has seen.
LEMMA RecordLedger ==
  ASSUME IInv, Ledger, NEW w \in Workers, pc[w] = "record", cur[w].id \in Ids
  PROVE  /\ cur[w] # NoJob /\ outbox[cur[w].id] \in Row /\ outbox[cur[w].id].told = 0
         /\ cur[w].attempts \in Nat
         /\ outbox[cur[w].id].attempts = cur[w].attempts
         /\ outbox[cur[w].id].calls = cur[w].attempts + 1
         /\ result[w] # "ok" => ~outbox[cur[w].id].acked
<1>1. cur[w] # NoJob
  BY DEF IInv, Control
<1>2. cur[w] \in Job
  BY <1>1, OwnRow
<1> QED
  BY <1>1, <1>2, OwnLedger DEF Ledger, CurLedger, Job

LEMMA RecordSentLedger ==
  ASSUME IInv, Ledger, NEW w \in Workers, RecordSent(w)
  PROVE  Ledger'
<1>0. PICK r : r = cur[w].id
  OBVIOUS
<1>1. /\ pc[w] = "record" /\ cur[w] # NoJob /\ jobs' = jobs /\ cur' = cur
      /\ result' = result /\ pc'[w] = "touch"
      /\ \A v \in Workers \ {w} : pc'[v] = pc[v]
  BY DEF RecordSent, Goto, IInv, TypeOK, Control
<1>2. /\ Ids' = Ids
      /\ \A x \in Ids : x # r => outbox'[x] = outbox[x]
      /\ r \in Ids => outbox'[r] = [outbox[r] EXCEPT !.status = "sent", !.age = 0,
                                                     !.attempts = @ + 1]
  <2>1. outbox' = WithRow(r, [outbox[r] EXCEPT !.status = "sent", !.age = 0, !.attempts = @ + 1])
    BY <1>0 DEF RecordSent
  <2> QED
    BY <2>1, WithRowIs
<1>3. r \in Ids => RowLedger(r)'
  <2> SUFFICES ASSUME r \in Ids PROVE RowLedger(r)'
    OBVIOUS
  <2>1. /\ outbox[r] \in Row /\ outbox[r].told = 0 /\ outbox[r].attempts \in Nat
        /\ outbox[r].calls = outbox[r].attempts + 1
    BY <1>0, <1>1, RecordLedger
  <2>2. SameSeen(r) /\ outbox'[r].status = "sent" /\ outbox'[r].attempts = outbox[r].attempts + 1
    BY <1>2, <2>1 DEF Row, SameSeen
  <2> QED
    BY <2>1, <2>2 DEF RowLedger, SameSeen
<1>4. CurLedger(w)'
  BY <1>1 DEF CurLedger
<1>5. \A x \in Ids' \ {r} : SameLedger(x)
  BY <1>2 DEF SameLedger, SameSeen
<1> QED
  BY <1>0, <1>1, <1>2, <1>3, <1>4, <1>5, LedgerJobStep

LEMMA RecordFailedLedger ==
  ASSUME IInv, Ledger, NEW w \in Workers, RecordFailed(w)
  PROVE  Ledger'
<1>0. PICK r, n : r = cur[w].id /\ n = Attempt(cur[w])
  OBVIOUS
<1>1. /\ pc[w] = "record" /\ result[w] # "ok" /\ cur[w] # NoJob /\ jobs' = jobs /\ cur' = cur
      /\ result' = result /\ pc'[w] = "hook"
      /\ \A v \in Workers \ {w} : pc'[v] = pc[v]
  BY DEF RecordFailed, Goto, IInv, TypeOK, Control
<1>2. /\ Ids' = Ids
      /\ \A x \in Ids : x # r => outbox'[x] = outbox[x]
      /\ r \in Ids => outbox'[r] = [outbox[r] EXCEPT !.status = "failed", !.attempts = n]
  <2>1. outbox' = WithRow(r, [outbox[r] EXCEPT !.status = "failed", !.attempts = n])
    BY <1>0 DEF RecordFailed
  <2> QED
    BY <2>1, WithRowIs
<1>3. r \in Ids => /\ outbox[r].told = 0 /\ ~outbox[r].acked
                   /\ n \in Nat /\ outbox[r].calls = n
                   /\ SameSeen(r) /\ outbox'[r].status = "failed" /\ outbox'[r].attempts = n
  <2> SUFFICES ASSUME r \in Ids
               PROVE  /\ outbox[r].told = 0 /\ ~outbox[r].acked
                      /\ n \in Nat /\ outbox[r].calls = n
                      /\ SameSeen(r) /\ outbox'[r].status = "failed" /\ outbox'[r].attempts = n
    OBVIOUS
  <2>1. /\ outbox[r] \in Row /\ outbox[r].told = 0 /\ n \in Nat
        /\ outbox[r].calls = n /\ ~outbox[r].acked
    BY <1>0, <1>1, RecordLedger DEF Attempt
  <2>2. SameSeen(r) /\ outbox'[r].status = "failed" /\ outbox'[r].attempts = n
    BY <1>2, <2>1 DEF Row, SameSeen
  <2> QED
    BY <2>1, <2>2
<1>4. r \in Ids => RowLedger(r)'
  BY <1>3 DEF RowLedger, SameSeen
<1>5. CurLedger(w)'
  BY <1>0, <1>1, <1>2, <1>3 DEF CurLedger, SameSeen
<1>6. \A x \in Ids' \ {r} : SameLedger(x)
  BY <1>2 DEF SameLedger, SameSeen
<1> QED
  BY <1>0, <1>1, <1>2, <1>4, <1>5, <1>6, LedgerJobStep

LEMMA RecordRetryLedger ==
  ASSUME IInv, Ledger, NEW w \in Workers, RecordRetry(w)
  PROVE  Ledger'
<1>0. PICK r, n, d : r = cur[w].id /\ n = Attempt(cur[w]) /\ d = Backoff(n)
  OBVIOUS
<1>1. /\ pc[w] = "record" /\ result[w] # "ok" /\ cur[w] # NoJob /\ FinishJob(w) /\ jobs' = jobs
  BY DEF RecordRetry, IInv, Control
<1>2. /\ Ids' = Ids
      /\ \A x \in Ids : x # r => outbox'[x] = outbox[x]
      /\ r \in Ids => outbox'[r] = [outbox[r] EXCEPT !.status = "pending", !.attempts = n,
                                                     !.due = d]
  <2>1. outbox' = WithRow(r, [outbox[r] EXCEPT !.status = "pending", !.attempts = n, !.due = d])
    BY <1>0 DEF RecordRetry
  <2> QED
    BY <2>1, WithRowIs
<1>3. r \in Ids => RowLedger(r)'
  <2> SUFFICES ASSUME r \in Ids PROVE RowLedger(r)'
    OBVIOUS
  <2>1. /\ outbox[r] \in Row /\ outbox[r].told = 0 /\ n \in Nat
        /\ outbox[r].calls = n /\ ~outbox[r].acked
    BY <1>0, <1>1, RecordLedger DEF Attempt
  <2>2. SameSeen(r) /\ outbox'[r].status = "pending" /\ outbox'[r].attempts = n
    BY <1>2, <2>1 DEF Row, SameSeen
  <2> QED
    BY <2>1, <2>2 DEF RowLedger, SameSeen
<1>4. CurLedger(w)'
  BY <1>1, FinishJobIs DEF CurLedger, IInv
<1>5. \A x \in Ids' \ {r} : SameLedger(x)
  BY <1>2 DEF SameLedger, SameSeen
<1> QED
  BY <1>0, <1>1, <1>2, <1>3, <1>4, <1>5, FinishJobIs, LedgerJobStep DEF IInv

LEMMA TouchIntegrationLedger ==
  ASSUME IInv, Ledger, NEW w \in Workers, TouchIntegration(w)
  PROVE  Ledger'
<1>1. /\ outbox' = outbox /\ FinishJob(w) /\ jobs' = jobs /\ cur[w] # NoJob
  BY DEF TouchIntegration, table, IInv, Control
<1>2. \A v \in Workers : JobsLedger(v)' /\ CurLedger(v)'
  BY <1>1, FinishJobIs DEF Ledger, JobsLedger, CurLedger, IInv
<1> QED
  BY <1>1, <1>2, LedgerOfWorkers

\* The owner is told of a row nobody was told of, and the job is done.
LEMMA OnPermanentLedger ==
  ASSUME IInv, Ledger, NEW w \in Workers, OnPermanent(w)
  PROVE  Ledger'
<1>0. PICK r : r = cur[w].id
  OBVIOUS
<1>1. pc[w] = "hook" /\ cur[w] # NoJob /\ FinishJob(w) /\ jobs' = jobs
  BY DEF OnPermanent, IInv, Control
<1>2. /\ Ids' = Ids
      /\ \A x \in Ids : x # r => outbox'[x] = outbox[x]
      /\ r \in Ids => outbox'[r] = outbox[r] \/ outbox'[r] = [outbox[r] EXCEPT !.told = @ + 1]
  <2>1. outbox' = outbox \/ outbox' = WithRow(r, [outbox[r] EXCEPT !.told = @ + 1])
    BY <1>0 DEF OnPermanent
  <2> QED
    BY <2>1, WithRowIs
<1>3. r \in Ids => RowLedger(r)'
  <2> SUFFICES ASSUME r \in Ids PROVE RowLedger(r)'
    OBVIOUS
  <2>1. outbox[r] \in Row /\ outbox[r].told = 0 /\ outbox[r].status = "failed" /\ RowLedger(r)
    BY <1>0, <1>1 DEF IInv, TypeOK, Recorded, Ledger, CurLedger
  <2>2. /\ outbox'[r].calls = outbox[r].calls /\ outbox'[r].acked = outbox[r].acked
        /\ outbox'[r].status = outbox[r].status /\ outbox'[r].attempts = outbox[r].attempts
        /\ outbox'[r].told \in {0, 1}
    BY <1>2, <2>1 DEF Row
  <2> QED
    BY <2>1, <2>2 DEF RowLedger
<1>4. CurLedger(w)'
  BY <1>1, FinishJobIs DEF CurLedger, IInv
<1>5. \A x \in Ids' \ {r} : SameLedger(x)
  BY <1>2 DEF SameLedger, SameSeen
<1> QED
  BY <1>0, <1>1, <1>2, <1>3, <1>4, <1>5, FinishJobIs, LedgerJobStep DEF IInv

\* Every step keeps the ledger.
LEMMA NextLedger == IInv /\ Ledger /\ [Next]_vars => Ledger'
<1> SUFFICES ASSUME IInv, Ledger, [Next]_vars PROVE Ledger'
  OBVIOUS
<1>1. CASE Environment
  BY <1>1, EnvironmentLedger
<1>2. ASSUME NEW w \in Workers, Claim(w) PROVE Ledger'
  BY <1>2, ClaimLedger DEF Claim
<1>3. ASSUME NEW w \in Workers, Work(w) PROVE Ledger'
  BY <1>3, BatchDoneLedger, StartJobLedger, LoadDigestLedger, CreateDigestLedger,
     MergeDigestLedger, DeliverLedger, RecordSentLedger, TouchIntegrationLedger,
     RecordFailedLedger, OnPermanentLedger, RecordRetryLedger DEF Work, Finish
<1>4. ASSUME NEW w \in Workers, DbError(w) PROVE Ledger'
  BY <1>4, DropLedger DEF DbError
<1>5. CASE Crash
  BY <1>5, DropLedger DEF Crash
<1>6. CASE UNCHANGED vars
  BY <1>6, LedgerKept DEF vars, table, SameLedger, SameSeen
<1> QED
  BY <1>1, <1>2, <1>3, <1>4, <1>5, <1>6 DEF Next

-----------------------------------------------------------------------------
(***************************************************************************)
(* The theorems.                                                           *)
(***************************************************************************)

\* The ledger is right in every reachable state.
THEOREM LedgerKnown == Spec => []Ledger
<1> QED
  BY InitLedger, NextLedger, Invariance, PTL DEF Spec

\* No message is tried more than MaxAttempts times, its column counts the
\* tries, and none that arrived is given up.
THEOREM AttemptsBounded == Spec => []AttemptBudget
<1>1. IInv /\ Ledger => AttemptBudget
  <2> SUFFICES ASSUME IInv, Ledger, NEW r \in Ids
               PROVE  /\ outbox[r].calls <= MaxAttempts
                      /\ outbox[r].status = "failed" => ~outbox[r].acked
                      /\ outbox[r].status # "sending" => outbox[r].calls = outbox[r].attempts
    BY DEF AttemptBudget
  <2>1. outbox[r].attempts \in 0..MaxAttempts /\ outbox[r].calls \in Nat
    BY DEF IInv, TypeOK, Row
  <2>2. outbox[r].status = "sending" => outbox[r].attempts < MaxAttempts
    BY DEF IInv, AttemptLeft
  <2> QED
    BY <2>1, <2>2 DEF Ledger, RowLedger
<1> QED
  BY <1>1, Invariance, LedgerKnown, PTL

\* The owner is told of a row once, and only of one that will not be tried
\* again.
THEOREM OwnerToldOnce == Spec => []ToldOnceAndOnlyOfFailures
<1>1. Ledger => ToldOnceAndOnlyOfFailures
  BY DEF Ledger, RowLedger, ToldOnceAndOnlyOfFailures
<1> QED
  BY <1>1, LedgerKnown, PTL

\* Only Deliver calls Telegram, for the row of its worker's job.
LEMMA CallsStep ==
  ASSUME IInv, [Next]_vars, NEW r \in Ids, r \in Ids', outbox'[r].calls # outbox[r].calls
  PROVE  \E w \in Workers : \E res \in Results : Deliver(w, res) /\ r = cur[w].id
<1>1. outbox[r] \in Row
  BY DEF IInv, TypeOK
<1>2. ~Environment
  <2>1. ~(\E x \in Rows, i \in Integrations : Enqueue(x, i))
    BY DEF Enqueue
  <2>2. ~Tick
    BY <1>1 DEF Tick, Row
  <2>3. ~Sweep
    BY DEF Sweep, Without
  <2>4. \A I : ~DeleteIntegrations(I)
    BY DEF DeleteIntegrations, Without
  <2>5. ~(\E c \in Chats : ClearChatIntegrationsBroken(c))
    BY DEF ClearChatIntegrationsBroken
  <2> QED
    BY <2>1, <2>2, <2>3, <2>4, <2>5 DEF Environment, DeleteIntegration, DeleteChat
<1>3. ASSUME NEW w \in Workers, Claim(w) PROVE FALSE
  <2>1. \/ outbox'[r] = outbox[r]
        \/ outbox'[r] = [outbox[r] EXCEPT !.status = "sending", !.due = 0]
    BY <1>3 DEF Claim, ClaimRows
  <2> QED
    BY <1>1, <2>1 DEF Row
<1>4. ASSUME NEW w \in Workers, Work(w)
      PROVE  \E res \in Results : Deliver(w, res) /\ r = cur[w].id
  <2>1. ~(BatchDone(w) \/ (\E j \in jobs[w] : StartJob(w, j)) \/ LoadDigest(w)
            \/ TouchIntegration(w))
    BY DEF BatchDone, StartJob, LoadDigest, TouchIntegration, table
  <2>2. ~CreateDigest(w)
    <3> SUFFICES ASSUME CreateDigest(w) PROVE FALSE
      OBVIOUS
    <3>1. \/ outbox'[r] = outbox[r]
          \/ outbox'[r] = [outbox[r] EXCEPT !.kind = "digest", !.items = {r},
                                            !.status = "pending", !.due = Minute]
      BY DEF CreateDigest, WithRow
    <3> QED
      BY <1>1, <3>1 DEF Row
  <2>3. ~MergeDigest(w)
    <3> SUFFICES ASSUME NEW d \in locks[w],
                        outbox' = [x \in Ids \ {cur[w].id} |->
                                     IF x = d THEN Merged(d, cur[w]) ELSE outbox[x]]
                 PROVE  FALSE
      BY DEF MergeDigest
    <3> QED
      BY <1>1 DEF Merged, Row
  <2>4. ~RecordSent(w)
    <3> SUFFICES ASSUME RecordSent(w) PROVE FALSE
      OBVIOUS
    <3>1. \/ outbox'[r] = outbox[r]
          \/ outbox'[r] = [outbox[r] EXCEPT !.status = "sent", !.age = 0, !.attempts = @ + 1]
      BY DEF RecordSent, WithRow
    <3> QED
      BY <1>1, <3>1 DEF Row
  <2>5. ~RecordFailed(w)
    <3> SUFFICES ASSUME RecordFailed(w) PROVE FALSE
      OBVIOUS
    <3>1. \/ outbox'[r] = outbox[r]
          \/ outbox'[r] = [outbox[r] EXCEPT !.status = "failed", !.attempts = Attempt(cur[w])]
      BY DEF RecordFailed, WithRow
    <3> QED
      BY <1>1, <3>1 DEF Row
  <2>6. ~RecordRetry(w)
    <3> SUFFICES ASSUME RecordRetry(w) PROVE FALSE
      OBVIOUS
    <3>1. \/ outbox'[r] = outbox[r]
          \/ outbox'[r] = [outbox[r] EXCEPT !.status = "pending", !.attempts = Attempt(cur[w]),
                                            !.due = Backoff(Attempt(cur[w]))]
      BY DEF RecordRetry, WithRow
    <3> QED
      BY <1>1, <3>1 DEF Row
  <2>7. ~OnPermanent(w)
    BY <1>1 DEF OnPermanent, WithRow, Row
  <2>8. \A res \in Results : Deliver(w, res) => r = cur[w].id
    BY DEF Deliver, WithRow
  <2> QED
    BY <1>4, <2>1, <2>2, <2>3, <2>4, <2>5, <2>6, <2>7, <2>8 DEF Work, Finish
<1>5. ~Crash /\ (\A w \in Workers : ~DbError(w)) /\ ~UNCHANGED vars
  BY DEF Crash, DbError, Drop, table, vars
<1> QED
  BY <1>2, <1>3, <1>4, <1>5 DEF Next

\* What Telegram has accepted is not sent again, whatever fails afterwards.
THEOREM NothingResent == Spec => NoResendAfterAck
<1> DEFINE Once == \A r \in Ids \cap Ids' :
                     outbox[r].acked /\ outbox'[r].acked => outbox'[r].calls = outbox[r].calls
<1>1. IInv /\ Ledger /\ [Next]_vars => Once
  <2> SUFFICES ASSUME IInv, Ledger, [Next]_vars, NEW r \in Ids, r \in Ids',
                      outbox[r].acked, outbox'[r].calls # outbox[r].calls
               PROVE  FALSE
    OBVIOUS
  <2>1. PICK w \in Workers : \E res \in Results : Deliver(w, res) /\ r = cur[w].id
    BY CallsStep
  <2>2. pc[w] = "deliver" /\ cur[w] # NoJob /\ r = cur[w].id
    BY <2>1 DEF Deliver, IInv, Control
  <2> QED
    BY <2>2 DEF Ledger, CurLedger
<1> QED
  BY <1>1, Invariance, LedgerKnown, PTL DEF Spec, NoResendAfterAck

-----------------------------------------------------------------------------
(***************************************************************************)
(* The rate valve.  A worker counts the chat's messages of the last minute *)
(* and sends later: between the two it is past the valve, and what bounds  *)
(* the messages of a minute is their number together with the workers past *)
(* the valve.                                                              *)
(***************************************************************************)
InTheMinute(c) == {r \in SentLastMinute(c) : outbox[r].kind = "event"}

Through(c) ==
  {w \in Workers : /\ pc[w] \in {"deliver", "record"} /\ cur[w] # NoJob
                   /\ cur[w].kind = "event" /\ ChatOf[cur[w].integ] = c}

ValveOf(c) ==
  Cardinality(InTheMinute(c)) + Cardinality(Through(c)) < ChatPerMinute + Cardinality(Workers)

Valve == ChatPerMinute > 0 => \A c \in Chats : ValveOf(c)

\* Both are finite sets.
LEMMA ValveCounts ==
  ASSUME TypeOK, NEW c
  PROVE  /\ IsFiniteSet(InTheMinute(c)) /\ IsFiniteSet(SentLastMinute(c))
         /\ IsFiniteSet(Through(c))
         /\ Cardinality(InTheMinute(c)) \in Nat /\ Cardinality(Through(c)) \in Nat
         /\ Cardinality(InTheMinute(c)) <= Cardinality(SentLastMinute(c))
         /\ Cardinality(SentLastMinute(c)) \in Nat
         /\ Cardinality(Through(c)) <= Cardinality(Workers)
         /\ Cardinality(Workers) \in Nat
<1>1. SentLastMinute(c) \subseteq Rows /\ InTheMinute(c) \subseteq SentLastMinute(c)
  BY DEF TypeOK, SentLastMinute, InTheMinute
<1>2. Through(c) \subseteq Workers
  BY DEF Through
<1>3. IsFiniteSet(SentLastMinute(c))
  BY <1>1, RowsAssumption, FS_Subset
<1>4. IsFiniteSet(InTheMinute(c)) /\ Cardinality(InTheMinute(c)) <= Cardinality(SentLastMinute(c))
  BY <1>1, <1>3, FS_Subset
<1>5. IsFiniteSet(Through(c)) /\ Cardinality(Through(c)) <= Cardinality(Workers)
  BY <1>2, WorkersAssumption, FS_Subset
<1> QED
  BY <1>3, <1>4, <1>5, WorkersAssumption, FS_CardinalityType

\* ... and so they are after a step.
LEMMA ValveCountsNext ==
  ASSUME TypeOK', NEW c
  PROVE  /\ Cardinality(InTheMinute(c)') \in Nat /\ Cardinality(Through(c)') \in Nat
         /\ Cardinality(Through(c)') <= Cardinality(Workers)
<1>1. InTheMinute(c)' \subseteq Rows
  BY DEF TypeOK, SentLastMinute, InTheMinute
<1>2. Through(c)' \subseteq Workers
  BY DEF Through
<1> QED
  BY <1>1, <1>2, RowsAssumption, WorkersAssumption, FS_Subset, FS_CardinalityType

\* A worker is past the valve of a chat that was within its budget when the
\* worker counted.
LEMMA ThroughStep ==
  ASSUME IInv, [Next]_vars, NEW c, NEW w \in Through(c)', w \notin Through(c)
  PROVE  \E j \in jobs[w] : StartJob(w, j) /\ pc'[w] = "deliver" /\ j.kind = "event"
                            /\ ChatOf[j.integ] = c
<1> USE DEF Through
<1>1. /\ w \in Workers /\ pc'[w] \in {"deliver", "record"} /\ cur'[w] # NoJob
      /\ cur'[w].kind = "event" /\ ChatOf[cur'[w].integ] = c
  OBVIOUS
<1>2. ~(pc'[w] = pc[w] /\ cur'[w] = cur[w])
  OBVIOUS
<1>3. ~Environment
  BY <1>2 DEF Environment, Enqueue, Tick, Sweep, DeleteIntegration, DeleteChat,
              DeleteIntegrations, ClearChatIntegrationsBroken, memory
<1>4. ASSUME NEW v \in Workers, Claim(v) PROVE FALSE
  <2>0. PICK S \in SUBSET Rows : ClaimRows(v, S)
    BY <1>4 DEF Claim
  <2>1. pc' = [pc EXCEPT ![v] = "loop"] /\ cur' = cur
    BY <2>0 DEF ClaimRows, Goto
  <2> QED
    BY <1>1, <1>2, <2>1 DEF IInv, TypeOK
<1>5. ~Crash /\ ~(\E v \in Workers : DbError(v))
  BY <1>1, <1>2 DEF Crash, DbError, Drop
<1>6. ~UNCHANGED vars
  BY <1>2 DEF vars, memory
<1>7. PICK v \in Workers : Work(v)
  BY <1>3, <1>4, <1>5, <1>6 DEF Next
<1>8. pc \in [Workers -> {"idle", "loop", "digest", "create", "merge", "deliver",
                          "record", "touch", "hook"}]
      /\ cur \in [Workers -> Job \cup {NoJob}]
  BY DEF IInv, TypeOK
<1>9. ~BatchDone(v) /\ ~LoadDigest(v)
  BY <1>1, <1>2, <1>8 DEF BatchDone, LoadDigest, Goto
<1>10. ASSUME FinishJob(v) PROVE FALSE
  BY <1>1, <1>2, <1>8, <1>10 DEF FinishJob, Goto
<1>11. ~CreateDigest(v) /\ ~MergeDigest(v) /\ ~TouchIntegration(v) /\ ~OnPermanent(v)
         /\ ~RecordRetry(v)
  BY <1>10 DEF CreateDigest, MergeDigest, TouchIntegration, OnPermanent, RecordRetry
<1>12. ~RecordSent(v) /\ ~RecordFailed(v)
  BY <1>1, <1>2, <1>8 DEF RecordSent, RecordFailed, Goto
<1>13. ASSUME NEW res \in Results, Deliver(v, res) PROVE FALSE
  <2>1. cur' = cur /\ pc[v] = "deliver" /\ pc' = [pc EXCEPT ![v] = "record"]
    BY <1>13 DEF Deliver, Goto
  <2> QED
    BY <1>1, <1>8, <2>1
<1>14. PICK j \in jobs[v] : StartJob(v, j)
  BY <1>7, <1>9, <1>11, <1>12, <1>13 DEF Work, Finish
<1>15. cur' = [cur EXCEPT ![v] = j]
       /\ \E label \in {"digest", "deliver"} : pc' = [pc EXCEPT ![v] = label]
  BY <1>14 DEF StartJob, Goto
<1>16. v = w
  BY <1>2, <1>8, <1>15
<1> QED
  BY <1>1, <1>8, <1>14, <1>15, <1>16

\* Recording that an event was sent is the only way for a message to count as
\* one of its chat's last minute.
LEMMA MinuteStep ==
  ASSUME IInv, [Next]_vars, NEW c, NEW r \in InTheMinute(c)', r \notin InTheMinute(c)
  PROVE  \E w \in Workers : RecordSent(w) /\ r = cur[w].id /\ r \in Ids
<1> USE DEF InTheMinute, SentLastMinute, ChatOfRow
<1>1. /\ r \in Ids' /\ outbox'[r].status = "sent" /\ outbox'[r].kind = "event"
      /\ outbox'[r].age < Minute /\ ChatOf[outbox'[r].integ] = c
  OBVIOUS
<1>2. r \in Ids => outbox[r] \in Row
  BY DEF IInv, TypeOK
<1>3. r \in Ids =>
        ~(/\ outbox[r].status = "sent" /\ outbox[r].kind = "event"
          /\ outbox[r].age < Minute /\ outbox[r].integ = outbox'[r].integ)
  BY <1>1
<1>4. r \in Ids => outbox'[r] # outbox[r]
  BY <1>1, <1>3
<1>5. ~Environment
  <2>1. ASSUME NEW x \in Rows, NEW i \in Integrations, Enqueue(x, i) PROVE FALSE
    BY <1>1, <1>4, <2>1 DEF Enqueue, NewRow
  <2>2. ~Tick
    <3> SUFFICES ASSUME Tick PROVE FALSE
      OBVIOUS
    <3>1. r \in Ids
      BY <1>1 DEF Tick
    <3>2. \/ outbox[r].status = "pending" /\ outbox'[r] = [outbox[r] EXCEPT !.due = @ - 1]
          \/ outbox[r].status = "sent" /\ outbox'[r] = [outbox[r] EXCEPT !.age = @ + 1]
          \/ outbox'[r] = outbox[r]
      BY <3>1 DEF Tick
    <3>3. outbox[r].age \in Int /\ Minute \in Int
      BY <1>2, <3>1 DEF Row
    <3> QED
      BY <1>1, <1>2, <1>3, <1>4, <3>1, <3>2, <3>3 DEF Row
  <2>3. ~Sweep
    BY <1>1, <1>4 DEF Sweep, Without
  <2>4. ASSUME NEW I, DeleteIntegrations(I) PROVE FALSE
    BY <1>1, <1>4, <2>4 DEF DeleteIntegrations, Without
  <2>5. ASSUME NEW d, ClearChatIntegrationsBroken(d) PROVE FALSE
    BY <1>1, <1>4, <2>5 DEF ClearChatIntegrationsBroken
  <2> QED
    BY <2>1, <2>2, <2>3, <2>4, <2>5 DEF Environment, DeleteIntegration, DeleteChat
<1>6. ASSUME NEW w \in Workers, Claim(w) PROVE FALSE
  <2>0. PICK S \in SUBSET Rows : ClaimRows(w, S)
    BY <1>6 DEF Claim
  <2>1. r \in Ids
    BY <1>1, <2>0 DEF ClaimRows
  <2>2. \/ outbox'[r] = [outbox[r] EXCEPT !.status = "sending", !.due = 0]
        \/ outbox'[r] = outbox[r]
    BY <2>0, <2>1 DEF ClaimRows
  <2> QED
    BY <1>1, <1>2, <1>4, <2>1, <2>2 DEF Row
<1>7. ~Crash /\ ~(\E w \in Workers : DbError(w)) /\ ~UNCHANGED vars
  BY <1>1, <1>4 DEF Crash, DbError, Drop, table, vars
<1>8. PICK w \in Workers : Work(w)
  BY <1>5, <1>6, <1>7 DEF Next
<1>9. outbox' # outbox
  BY <1>1, <1>4
<1>10. ~BatchDone(w) /\ (\A j \in jobs[w] : ~StartJob(w, j)) /\ ~LoadDigest(w)
         /\ ~TouchIntegration(w)
  BY <1>9 DEF BatchDone, StartJob, LoadDigest, TouchIntegration, table
<1>11. ASSUME NEW d \in Ids, NEW row, outbox' = WithRow(d, row), outbox[d] \in Row,
              \/ row.status # "sent"
              \/ row.status = outbox[d].status /\ row.kind = outbox[d].kind
                   /\ row.age = outbox[d].age /\ row.integ = outbox[d].integ
       PROVE  FALSE
  BY <1>1, <1>3, <1>4, <1>11, WithRowIs
<1>12. \A d, row : outbox' = WithRow(d, row) => Ids' = Ids /\ r \in Ids /\ (d # r => FALSE)
  BY <1>1, <1>4, WithRowIs
<1>13. ~CreateDigest(w)
  <2> SUFFICES ASSUME CreateDigest(w) PROVE FALSE
    OBVIOUS
  <2>1. outbox' = WithRow(cur[w].id, [outbox[cur[w].id] EXCEPT !.kind = "digest",
                                                              !.items = {cur[w].id},
                                                              !.status = "pending", !.due = Minute])
    BY DEF CreateDigest
  <2>2. r \in Ids /\ r = cur[w].id
    BY <1>12, <2>1
  <2> QED
    BY <1>2, <1>11, <2>1, <2>2 DEF Row
<1>14. ~MergeDigest(w)
  <2> SUFFICES ASSUME NEW d \in locks[w],
                      outbox' = [x \in Ids \ {cur[w].id} |->
                                   IF x = d THEN Merged(d, cur[w]) ELSE outbox[x]]
               PROVE  FALSE
    BY DEF MergeDigest
  <2>1. r \in Ids /\ r = d
    BY <1>1, <1>4
  <2>2. outbox'[r] = Merged(d, cur[w])
    BY <1>1, <2>1
  <2>3. outbox[d].status = "pending"
    BY DEF IInv, Locking, PendingDigests
  <2>4. Merged(d, cur[w]).status = "pending"
    BY <1>2, <2>1, <2>3 DEF Merged, Row
  <2> QED
    BY <1>1, <2>2, <2>4
<1>15. ASSUME NEW res \in Results, Deliver(w, res) PROVE FALSE
  <2>1. outbox' = WithRow(cur[w].id, [outbox[cur[w].id] EXCEPT !.calls = @ + 1,
                                                              !.acked = @ \/ res = "ok"])
    BY <1>15 DEF Deliver
  <2>2. r \in Ids /\ r = cur[w].id
    BY <1>12, <2>1
  <2> QED
    BY <1>2, <1>11, <2>1, <2>2 DEF Row
<1>16. ~RecordFailed(w)
  <2> SUFFICES ASSUME RecordFailed(w) PROVE FALSE
    OBVIOUS
  <2>1. outbox' = WithRow(cur[w].id, [outbox[cur[w].id] EXCEPT !.status = "failed",
                                                              !.attempts = Attempt(cur[w])])
    BY DEF RecordFailed
  <2>2. r \in Ids /\ r = cur[w].id
    BY <1>12, <2>1
  <2> QED
    BY <1>2, <1>11, <2>1, <2>2 DEF Row
<1>17. ~RecordRetry(w)
  <2> SUFFICES ASSUME RecordRetry(w) PROVE FALSE
    OBVIOUS
  <2>1. outbox' = WithRow(cur[w].id, [outbox[cur[w].id] EXCEPT !.status = "pending",
                                                              !.attempts = Attempt(cur[w]),
                                                              !.due = Backoff(Attempt(cur[w]))])
    BY DEF RecordRetry
  <2>2. r \in Ids /\ r = cur[w].id
    BY <1>12, <2>1
  <2> QED
    BY <1>2, <1>11, <2>1, <2>2 DEF Row
<1>18. ~OnPermanent(w)
  <2> SUFFICES ASSUME outbox' = WithRow(cur[w].id, [outbox[cur[w].id] EXCEPT !.told = @ + 1])
               PROVE  FALSE
    BY <1>9 DEF OnPermanent
  <2>1. r \in Ids /\ r = cur[w].id
    BY <1>12
  <2> QED
    BY <1>2, <1>11, <2>1 DEF Row
<1>19. RecordSent(w)
  BY <1>8, <1>10, <1>13, <1>14, <1>15, <1>16, <1>17, <1>18 DEF Work, Finish
<1>20. r \in Ids /\ r = cur[w].id
  BY <1>12, <1>19 DEF RecordSent
<1> QED
  BY <1>19, <1>20

\* No step breaks the bound.
LEMMA ValveStep ==
  ASSUME IInv, IInv', [Next]_vars, NEW c, ChatPerMinute > 0, ValveOf(c)
  PROVE  ValveOf(c)'
<1> DEFINE n  == Cardinality(InTheMinute(c))   m  == Cardinality(Through(c))
           n2 == Cardinality(InTheMinute(c)')  m2 == Cardinality(Through(c)')
           k  == Cardinality(Workers)
<1>0. /\ n \in Nat /\ m \in Nat /\ n2 \in Nat /\ m2 \in Nat /\ k \in Nat /\ m2 <= k
      /\ ChatPerMinute \in Nat /\ n + m < ChatPerMinute + k
      /\ IsFiniteSet(InTheMinute(c)) /\ IsFiniteSet(Through(c))
  <2>1. TypeOK /\ TypeOK'
    BY DEF IInv
  <2>2. /\ n \in Nat /\ m \in Nat /\ k \in Nat
        /\ IsFiniteSet(InTheMinute(c)) /\ IsFiniteSet(Through(c))
    BY <2>1, ValveCounts
  <2>3. n2 \in Nat /\ m2 \in Nat /\ m2 <= k
    BY <2>1, ValveCountsNext
  <2> QED
    BY <2>2, <2>3 DEF ValveOf
<1>1. SUFFICES n2 + m2 < ChatPerMinute + k
  BY DEF ValveOf
<1>2. CASE \E w \in Through(c)' : w \notin Through(c)
  <2>1. PICK w \in Through(c)' : w \notin Through(c)
    BY <1>2
  <2>2. PICK j \in jobs[w] : StartJob(w, j) /\ pc'[w] = "deliver" /\ j.kind = "event"
                             /\ ChatOf[j.integ] = c
    BY <2>1, ThroughStep
  <2>3. w \in Workers /\ pc \in [Workers -> {"idle", "loop", "digest", "create", "merge",
                                             "deliver", "record", "touch", "hook"}]
    BY <2>1 DEF Through, IInv, TypeOK
  <2>4. ~chatOverBudget(c)
    BY <2>2, <2>3 DEF StartJob, Goto
  <2>5. InTheMinute(c)' = InTheMinute(c)
    BY <2>2 DEF StartJob, table, InTheMinute, SentLastMinute, ChatOfRow
  <2>6. n < ChatPerMinute
    <3>1. /\ Cardinality(SentLastMinute(c)) \in Nat /\ n <= Cardinality(SentLastMinute(c))
      BY ValveCounts DEF IInv
    <3> HIDE DEF n
    <3> QED
      BY <1>0, <2>4, <3>1 DEF chatOverBudget
  <2>7. n2 = n
    BY <2>5
  <2> HIDE DEF n, n2, m2, k
  <2> QED
    BY <1>0, <2>6, <2>7
<1>3. CASE Through(c)' \subseteq Through(c) /\ \E r \in InTheMinute(c)' : r \notin InTheMinute(c)
  <2>1. PICK r \in InTheMinute(c)' : r \notin InTheMinute(c)
    BY <1>3
  <2>2. PICK w \in Workers : RecordSent(w) /\ r = cur[w].id /\ r \in Ids
    BY <2>1, MinuteStep
  <2>3. /\ pc[w] = "record" /\ cur[w] # NoJob /\ pc'[w] = "touch"
    BY <2>2 DEF RecordSent, Goto, IInv, Control, TypeOK
  <2>4. outbox[r].status = "sending" /\ JobOf(r) = cur[w]
    BY <2>2, <2>3, OwnRow
  <2>5. /\ Ids' = Ids
        /\ \A x \in Ids : x # r => outbox'[x] = outbox[x]
        /\ r \in Ids => outbox'[r] = [outbox[r] EXCEPT !.status = "sent", !.age = 0,
                                                       !.attempts = @ + 1]
    <3>1. outbox' = WithRow(r, [outbox[r] EXCEPT !.status = "sent", !.age = 0, !.attempts = @ + 1])
      BY <2>2 DEF RecordSent
    <3> QED
      BY <3>1, WithRowIs
  <2>6. InTheMinute(c)' = InTheMinute(c) \cup {r}
    <3>1. \A x \in InTheMinute(c)' : x = r \/ x \in InTheMinute(c)
      BY <2>5 DEF InTheMinute, SentLastMinute, ChatOfRow
    <3>2. \A x \in InTheMinute(c) : x \in InTheMinute(c)'
      BY <2>1, <2>5 DEF InTheMinute, SentLastMinute, ChatOfRow
    <3> QED
      BY <2>1, <3>1, <3>2
  <2>7. outbox'[r].kind = "event" /\ ChatOf[outbox'[r].integ] = c
    BY <2>1 DEF InTheMinute, SentLastMinute, ChatOfRow
  <2>8. outbox[r] \in Row
    BY <2>2 DEF IInv, TypeOK
  <2>9. w \in Through(c)
    <3>1. outbox'[r].kind = outbox[r].kind /\ outbox'[r].integ = outbox[r].integ
      BY <2>2, <2>5, <2>8 DEF Row
    <3>2. cur[w].kind = outbox[r].kind /\ cur[w].integ = outbox[r].integ
      BY <2>4 DEF JobOf
    <3> QED
      BY <2>3, <2>7, <3>1, <3>2 DEF Through
  <2>10. Through(c)' \subseteq Through(c) \ {w}
    BY <1>3, <2>3 DEF Through
  <2>11. n2 = n + 1
    <3>1. Cardinality(InTheMinute(c) \cup {r}) = n + 1
      BY <1>0, <2>1, FS_AddElement
    <3> QED
      BY <2>6, <3>1
  <2>12. m2 <= m - 1
    <3>1. /\ IsFiniteSet(Through(c) \ {w})
          /\ Cardinality(Through(c) \ {w}) =
               IF w \in Through(c) THEN Cardinality(Through(c)) - 1 ELSE Cardinality(Through(c))
      BY <1>0, FS_RemoveElement
    <3>2. m2 <= Cardinality(Through(c) \ {w})
      BY <2>10, <3>1, FS_Subset
    <3> QED
      BY <2>9, <3>1, <3>2
  <2> HIDE DEF n, n2, m, m2, k
  <2> QED
    BY <1>0, <2>11, <2>12
<1>4. CASE Through(c)' \subseteq Through(c) /\ InTheMinute(c)' \subseteq InTheMinute(c)
  <2>1. n2 <= n /\ m2 <= m
    BY <1>0, <1>4, FS_Subset
  <2> HIDE DEF n, n2, m, m2, k
  <2> QED
    BY <1>0, <2>1
<1> QED
  BY <1>2, <1>3, <1>4

\* Nothing was sent and nobody is past the valve to begin with.
LEMMA InitValve == Init => Valve
<1> SUFFICES ASSUME Init, ChatPerMinute > 0, NEW c \in Chats PROVE ValveOf(c)
  BY DEF Valve
<1>1. InTheMinute(c) = {} /\ Through(c) = {}
  BY DEF Init, InTheMinute, SentLastMinute, Through
<1>2. Cardinality(Workers) \in Nat /\ Cardinality({}) = 0
  BY WorkersAssumption, FS_CardinalityType, FS_EmptySet
<1> QED
  BY <1>1, <1>2 DEF ValveOf

\* The messages of a chat's last minute and the workers about to add to them
\* are never more than its budget and one for each worker but the first.
THEOREM ValveKnown == Spec => []Valve
<1>1. IInv /\ IInv' /\ Valve /\ [Next]_vars => Valve'
  BY ValveStep DEF Valve
<1> QED
  BY <1>1, InitValve, Invariance, PTL DEF Spec

\* However many workers count the same minute at once, no chat gets more event
\* messages within it than its budget and one for each worker but the first.
THEOREM ValveHolds == Spec => []RateValve
<1>1. IInv /\ Valve => RateValve
  <2> SUFFICES ASSUME IInv, Valve, ChatPerMinute > 0, NEW c \in Chats
               PROVE  Cardinality(InTheMinute(c)) < ChatPerMinute + Cardinality(Workers)
    BY DEF RateValve, InTheMinute
  <2> DEFINE n == Cardinality(InTheMinute(c))  m == Cardinality(Through(c))
             k == Cardinality(Workers)
  <2>1. n \in Nat /\ m \in Nat /\ k \in Nat
    BY ValveCounts DEF IInv
  <2>2. n + m < ChatPerMinute + k
    BY DEF Valve, ValveOf
  <2> HIDE DEF n, m, k
  <2>3. n < ChatPerMinute + k
    BY <2>1, <2>2
  <2> QED
    BY <2>3 DEF n, k
<1> QED
  BY <1>1, Invariance, ValveKnown, PTL
=============================================================================
