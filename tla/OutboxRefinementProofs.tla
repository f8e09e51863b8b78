------------------------ MODULE OutboxRefinementProofs ------------------------
(***************************************************************************)
(* The proof that the outbox implements DeliveryQueue, for any number of   *)
(* rows, workers, integrations and chats and with every failure.           *)
(***************************************************************************)
EXTENDS OutboxRefinement, OutboxDeliveryProofs

USE BoundsAssumption DEF Ids

-----------------------------------------------------------------------------
(***************************************************************************)
(* What workers hold.  A job carries its own event; an event of a job that *)
(* is still to be recorded is in no row but the job's, if that still       *)
(* exists, and no other job is about it.                                   *)
(***************************************************************************)
OnlyIn(j) ==
  /\ \A e \in j.items : \A r \in Ids : e \in outbox[r].items => r = j.id
  /\ \A v \in Workers : \A k \in InFlight(v) : k.id \in j.items => k.id = j.id

Pursuit ==
  \A w \in Workers : \A j \in InFlight(w) :
    /\ j.id \in j.items
    /\ j.kind = "event" => j.items = {j.id}
    /\ j \in Unhandled(w) => OnlyIn(j)

\* Steps that move no event and give no worker a job.
LEMMA PursuitKept ==
  ASSUME Pursuit, Ids' \subseteq Ids, \A r \in Ids' : outbox'[r].items = outbox[r].items,
         \A w \in Workers : InFlight(w)' \subseteq InFlight(w),
         \A w \in Workers : Unhandled(w)' \subseteq Unhandled(w)
  PROVE  Pursuit'
<1> SUFFICES ASSUME NEW w \in Workers, NEW j \in InFlight(w)'
             PROVE  /\ j.id \in j.items
                    /\ j.kind = "event" => j.items = {j.id}
                    /\ j \in Unhandled(w)' => OnlyIn(j)'
  BY DEF Pursuit
<1>1. j \in InFlight(w)
  OBVIOUS
<1>2. ASSUME j \in Unhandled(w)' PROVE OnlyIn(j)'
  <2>1. OnlyIn(j)
    BY <1>1, <1>2 DEF Pursuit
  <2> QED
    BY <2>1 DEF OnlyIn
<1> QED
  BY <1>1, <1>2 DEF Pursuit

LEMMA EnqueuePursuit ==
  ASSUME IInv, Pursuit, NEW r \in Rows, NEW i \in Integrations, Enqueue(r, i)
  PROVE  Pursuit'
<1>1. /\ Ids' = Ids \cup {r} /\ r \notin Ids /\ r \notin Held
      /\ \A x \in Ids : outbox'[x] = outbox[x]
      /\ outbox'[r].items = {r}
  BY DEF Enqueue, NewRow
<1>2. \A w \in Workers : InFlight(w)' = InFlight(w) /\ Unhandled(w)' = Unhandled(w)
  BY DEF Enqueue, memory, InFlight, Unhandled
<1>3. \A w \in Workers : \A j \in InFlight(w) : r \notin j.items
  BY <1>1 DEF Held
<1>4. \A w \in Workers : \A j \in InFlight(w) : OnlyIn(j) => OnlyIn(j)'
  BY <1>1, <1>2, <1>3 DEF OnlyIn
<1> QED
  BY <1>2, <1>4 DEF Pursuit

\* The events of a claimed row are its own.
LEMMA ClaimPursuit ==
  ASSUME IInv, Events, Pursuit, NEW w \in Workers, NEW S \in SUBSET Rows, ClaimRows(w, S)
  PROVE  Pursuit'
<1>1. S \subseteq Ids /\ Ids' = Ids
  BY DEF ClaimRows, Claimable
<1>2. \A r \in Ids : outbox'[r].items = outbox[r].items
  <2> TAKE r \in Ids
  <2>1. outbox[r] \in Row
    BY DEF IInv, TypeOK
  <2>2. \/ outbox'[r] = [outbox[r] EXCEPT !.status = "sending", !.due = 0]
        \/ outbox'[r] = outbox[r]
    BY DEF ClaimRows
  <2> QED
    BY <2>1, <2>2 DEF Row
<1>3. /\ InFlight(w)' = {JobOf(r) : r \in S} /\ InFlight(w) = {}
      /\ \A v \in Workers \ {w} : InFlight(v)' = InFlight(v) /\ Unhandled(v)' = Unhandled(v)
  BY DEF ClaimRows, Goto, InFlight, Unhandled, IInv, TypeOK, Control
<1>4. \A r \in S : JobOf(r).id = r /\ JobOf(r).items = outbox[r].items
                   /\ JobOf(r).kind = outbox[r].kind /\ r \in outbox[r].items
  BY <1>1 DEF JobOf, Events, OwnEvent
<1>5. ASSUME NEW r \in S PROVE OnlyIn(JobOf(r))'
  <2>1. \A e \in outbox[r].items : \A x \in Ids : e \in outbox[x].items => x = r
    BY <1>1 DEF Events, CarriedOnce
  <2>2. ASSUME NEW v \in Workers, NEW k \in InFlight(v)', k.id \in outbox[r].items
        PROVE  k.id = r
    <3>1. CASE v = w
      BY <1>1, <1>3, <1>4, <2>1, <2>2, <3>1
    <3>2. CASE v # w
      BY <1>1, <1>3, <2>2, <3>2 DEF Events, JobsOwnTheirEvents
    <3> QED
      BY <3>1, <3>2
  <2>3. JobOf(r)' = JobOf(r)
    <3>1. outbox[r] \in Row
      BY <1>1 DEF IInv, TypeOK
    <3>2. outbox'[r] = [outbox[r] EXCEPT !.status = "sending", !.due = 0]
      BY <1>1 DEF ClaimRows
    <3> QED
      BY <3>1, <3>2 DEF JobOf, Row
  <2> QED
    BY <1>1, <1>2, <1>4, <2>1, <2>2, <2>3 DEF OnlyIn
<1>6. ASSUME NEW v \in Workers \ {w}, NEW j \in Unhandled(v) PROVE OnlyIn(j)'
  <2>1. OnlyIn(j)
    BY <1>6, InFlightType DEF Pursuit, IInv
  <2>2. ASSUME NEW r \in S, r \in j.items PROVE r = j.id
    BY <1>1, <1>4, <2>1, <2>2 DEF OnlyIn
  <2>3. ASSUME NEW u \in Workers, NEW k \in InFlight(u)', k.id \in j.items PROVE k.id = j.id
    BY <1>3, <1>4, <2>1, <2>2, <2>3 DEF OnlyIn
  <2> QED
    BY <1>1, <1>2, <2>1, <2>3 DEF OnlyIn
<1>7. ASSUME NEW j \in InFlight(w)'
      PROVE  j.id \in j.items /\ (j.kind = "event" => j.items = {j.id}) /\ OnlyIn(j)'
  <2>1. PICK r \in S : j = JobOf(r)
    BY <1>3
  <2>2. JobOf(r)' = JobOf(r)
    <3>1. outbox[r] \in Row
      BY <1>1 DEF IInv, TypeOK
    <3>2. outbox'[r] = [outbox[r] EXCEPT !.status = "sending", !.due = 0]
      BY <1>1 DEF ClaimRows
    <3> QED
      BY <3>1, <3>2 DEF JobOf, Row
  <2>3. OnlyIn(j)'
    BY <1>5, <2>1, <2>2 DEF OnlyIn
  <2> QED
    BY <1>1, <1>4, <2>1, <2>3 DEF Events, OwnEvent
<1> QED
  BY <1>3, <1>6, <1>7 DEF Pursuit

\* A merge moves an event no other job is about.
LEMMA MergePursuit ==
  ASSUME IInv, Events, Pursuit, NEW w \in Workers, MergeDigest(w)
  PROVE  Pursuit'
<1> DEFINE r == cur[w].id
<1>1. PICK d \in Ids : FoldsInto(w, d)
  BY MergeDigestFolds
<1>2. /\ Ids' = Ids \ {r} /\ cur[w] # NoJob
      /\ \A x \in Ids' : outbox'[x].items \subseteq outbox[x].items \cup {r}
  BY <1>1 DEF FoldsInto, SameEvents
<1>3. FinishJob(w) /\ jobs' = jobs /\ pc[w] = "merge"
  BY DEF MergeDigest
<1>4. /\ InFlight(w)' = jobs[w] /\ Unhandled(w) = InFlight(w) /\ jobs[w] \subseteq InFlight(w)
      /\ Unhandled(w)' = jobs[w]
      /\ \A v \in Workers \ {w} : InFlight(v)' = InFlight(v) /\ Unhandled(v)' = Unhandled(v)
  BY <1>3, FinishJobIs DEF InFlight, Unhandled, IInv
<1>5. ASSUME NEW v \in Workers, NEW j \in InFlight(v)' PROVE j \in InFlight(v) /\ j.id # r
  BY <1>2, <1>4, <1>5, OwnRow
<1>6. ASSUME NEW v \in Workers, NEW j \in Unhandled(v)' PROVE OnlyIn(j)'
  <2>1. j \in Unhandled(v) /\ j \in InFlight(v)' /\ j \in InFlight(v)
    BY <1>4, <1>6, InFlightType DEF IInv
  <2>2. OnlyIn(j) /\ j.id # r
    BY <1>5, <2>1 DEF Pursuit
  <2>3. r \notin j.items
    BY <1>2, <2>2, OwnRow DEF OnlyIn
  <2> QED
    BY <1>2, <1>5, <2>2, <2>3 DEF OnlyIn
<1> QED
  BY <1>5, <1>6 DEF Pursuit

-----------------------------------------------------------------------------
(***************************************************************************)
(* The other steps: those that change no status and no event, and those    *)
(* by which a worker records what became of its job.                       *)
(***************************************************************************)
Quiet ==
  /\ Ids' \subseteq Ids
  /\ \A r \in Ids' : outbox'[r].items = outbox[r].items /\ outbox'[r].status = outbox[r].status
  /\ \A w \in Workers : InFlight(w)' \subseteq InFlight(w) /\ Unhandled(w)' \subseteq Unhandled(w)

Records(w, s) ==
  /\ cur[w] # NoJob /\ pc[w] \notin {"touch", "hook"}
  /\ Ids' = Ids
  /\ \A r \in Ids : /\ outbox'[r].items = outbox[r].items
                    /\ r # cur[w].id => outbox'[r].status = outbox[r].status
  /\ cur[w].id \in Ids => outbox'[cur[w].id].status = s
  /\ Unhandled(w)' = jobs[w]
  /\ \A v \in Workers \ {w} : Unhandled(v)' = Unhandled(v)
  /\ \A v \in Workers : InFlight(v)' \subseteq InFlight(v)

LEMMA EnvironmentQuiet ==
  ASSUME IInv, Environment
  PROVE  Quiet \/ \E r \in Rows, i \in Integrations : Enqueue(r, i)
<1>1. UNCHANGED memory
        => \A w \in Workers : InFlight(w)' = InFlight(w) /\ Unhandled(w)' = Unhandled(w)
  BY DEF memory, InFlight, Unhandled
<1>2. CASE Tick
  <2>1. Ids' = Ids /\ UNCHANGED memory
    BY <1>2 DEF Tick
  <2>2. ASSUME NEW r \in Ids
        PROVE  outbox'[r].items = outbox[r].items /\ outbox'[r].status = outbox[r].status
    <3>1. outbox[r] \in Row
      BY DEF IInv, TypeOK
    <3>2. \/ outbox'[r] = [outbox[r] EXCEPT !.due = @ - 1]
          \/ outbox'[r] = [outbox[r] EXCEPT !.age = @ + 1]
          \/ outbox'[r] = outbox[r]
      BY <1>2 DEF Tick
    <3> QED
      BY <3>1, <3>2 DEF Row
  <2> QED
    BY <1>1, <2>1, <2>2 DEF Quiet
<1>3. CASE Sweep
  BY <1>1, <1>3 DEF Sweep, Without, Quiet
<1>4. ASSUME NEW I, DeleteIntegrations(I) PROVE Quiet
  BY <1>1, <1>4 DEF DeleteIntegrations, Without, Quiet
<1>5. CASE \E c \in Chats : ClearChatIntegrationsBroken(c)
  BY <1>1, <1>5 DEF ClearChatIntegrationsBroken, Quiet
<1> QED
  BY <1>2, <1>3, <1>4, <1>5 DEF Environment, DeleteIntegration, DeleteChat

\* A row keeps its events and its status.
Unmoved(r) == outbox'[r].items = outbox[r].items /\ outbox'[r].status = outbox[r].status

\* A worker between a claim and a record, or past a record.
LEMMA WorkerQuiet ==
  ASSUME IInv, NEW w \in Workers,
         \/ BatchDone(w) \/ LoadDigest(w) \/ TouchIntegration(w) \/ OnPermanent(w)
         \/ (\E j \in jobs[w] : StartJob(w, j)) \/ (\E res \in Results : Deliver(w, res))
  PROVE  Quiet
<1> DEFINE r == cur[w].id
<1>1. r \in Ids => outbox[r] \in Row
  BY DEF IInv, TypeOK
<1>2. ASSUME NEW row, outbox' = WithRow(r, row),
             r \in Ids => row.items = outbox[r].items /\ row.status = outbox[r].status
      PROVE  Ids' = Ids /\ \A x \in Ids : Unmoved(x)
  BY <1>2 DEF WithRow, Unmoved
<1>3. ASSUME outbox' = outbox PROVE Ids' = Ids /\ \A x \in Ids : Unmoved(x)
  BY <1>3 DEF Unmoved
<1>4. ASSUME NEW res \in Results, Deliver(w, res)
      PROVE  Ids' = Ids /\ \A x \in Ids : Unmoved(x)
  <2> DEFINE row == [outbox[r] EXCEPT !.calls = @ + 1, !.acked = @ \/ res = "ok"]
  <2>1. outbox' = WithRow(r, row)
    BY <1>4 DEF Deliver
  <2>2. r \in Ids => row.items = outbox[r].items /\ row.status = outbox[r].status
    BY <1>1 DEF Row
  <2> HIDE DEF row
  <2> QED
    BY <1>2, <2>1, <2>2
<1>5. CASE OnPermanent(w)
  <2> DEFINE row == [outbox[r] EXCEPT !.told = @ + 1]
  <2>1. outbox' = outbox \/ outbox' = WithRow(r, row)
    BY <1>5 DEF OnPermanent
  <2>2. r \in Ids => row.items = outbox[r].items /\ row.status = outbox[r].status
    BY <1>1 DEF Row
  <2> HIDE DEF row
  <2>3. Ids' = Ids /\ \A x \in Ids : Unmoved(x)
    BY <1>2, <1>3, <2>1, <2>2
  <2>4. pc[w] = "hook" /\ FinishJob(w) /\ jobs' = jobs
    BY <1>5 DEF OnPermanent
  <2>5. ASSUME NEW v \in Workers
        PROVE  InFlight(v)' \subseteq InFlight(v) /\ Unhandled(v)' \subseteq Unhandled(v)
    BY <2>4, FinishJobIs DEF InFlight, Unhandled, IInv
  <2> QED
    BY <2>3, <2>5 DEF Quiet, Unmoved
<1>6. CASE TouchIntegration(w)
  <2>1. pc[w] = "touch" /\ FinishJob(w) /\ jobs' = jobs /\ outbox' = outbox
    BY <1>6 DEF TouchIntegration, table
  <2>2. ASSUME NEW v \in Workers
        PROVE  InFlight(v)' \subseteq InFlight(v) /\ Unhandled(v)' \subseteq Unhandled(v)
    BY <2>1, FinishJobIs DEF InFlight, Unhandled, IInv
  <2> QED
    BY <2>1, <2>2 DEF Quiet
<1>7. ASSUME Ids' = Ids, \A x \in Ids : Unmoved(x), InFlight(w)' \subseteq InFlight(w),
             pc[w] \notin {"touch", "hook"}, jobs'[w] \subseteq InFlight(w),
             \A v \in Workers \ {w} : pc'[v] = pc[v] /\ cur'[v] = cur[v] /\ jobs'[v] = jobs[v]
      PROVE  Quiet
  <2>1. ASSUME NEW v \in Workers
        PROVE  InFlight(v)' \subseteq InFlight(v) /\ Unhandled(v)' \subseteq Unhandled(v)
    BY <1>7 DEF InFlight, Unhandled
  <2> QED
    BY <1>7, <2>1 DEF Quiet, Unmoved
<1>8. ASSUME NEW res \in Results, Deliver(w, res) PROVE Quiet
  <2>1. /\ InFlight(w)' \subseteq InFlight(w) /\ jobs'[w] \subseteq InFlight(w)
        /\ pc[w] \notin {"touch", "hook"}
        /\ \A v \in Workers \ {w} : pc'[v] = pc[v] /\ cur'[v] = cur[v] /\ jobs'[v] = jobs[v]
    BY <1>8 DEF Deliver, Goto, InFlight, IInv, TypeOK
  <2> QED
    BY <1>4, <1>7, <1>8, <2>1
<1>9. CASE BatchDone(w) \/ LoadDigest(w) \/ (\E j \in jobs[w] : StartJob(w, j))
  <2>1. outbox' = outbox
    BY <1>9 DEF BatchDone, LoadDigest, StartJob, table
  <2>2. /\ InFlight(w)' \subseteq InFlight(w) /\ jobs'[w] \subseteq InFlight(w)
        /\ pc[w] \notin {"touch", "hook"}
        /\ \A v \in Workers \ {w} : pc'[v] = pc[v] /\ cur'[v] = cur[v] /\ jobs'[v] = jobs[v]
    BY <1>9 DEF BatchDone, LoadDigest, StartJob, Goto, InFlight, IInv, TypeOK
  <2> QED
    BY <1>3, <1>7, <2>1, <2>2
<1> QED
  BY <1>5, <1>6, <1>8, <1>9

\* What Fate makes of the status a record leaves.
LEMMA WorkerRecords ==
  ASSUME IInv, Events, NEW w \in Workers,
         CreateDigest(w) \/ RecordSent(w) \/ RecordFailed(w) \/ RecordRetry(w)
  PROVE  \E s \in {"pending", "sent", "failed"} : Records(w, s)
<1> DEFINE r == cur[w].id
<1>1. r \in Ids => outbox[r] \in Row
  BY DEF IInv, TypeOK
<1>2. cur[w] # NoJob /\ pc[w] \notin {"touch", "hook"} /\ jobs' = jobs
  BY DEF CreateDigest, RecordSent, RecordFailed, RecordRetry, IInv, Control
<1>3. /\ Unhandled(w)' = jobs[w] /\ InFlight(w)' \subseteq InFlight(w)
      /\ \A v \in Workers \ {w} : Unhandled(v)' = Unhandled(v) /\ InFlight(v)' = InFlight(v)
  <2>1. CASE CreateDigest(w) \/ RecordRetry(w)
    BY <1>2, <2>1, FinishJobIs
       DEF CreateDigest, RecordRetry, InFlight, Unhandled, IInv
  <2>2. CASE RecordSent(w) \/ RecordFailed(w)
    <3>1. /\ pc'[w] \in {"touch", "hook"} /\ cur' = cur
          /\ \A v \in Workers \ {w} : pc'[v] = pc[v]
      BY <2>2 DEF RecordSent, RecordFailed, Goto, IInv, TypeOK
    <3> QED
      BY <1>2, <3>1 DEF InFlight, Unhandled
  <2> QED
    BY <2>1, <2>2
<1>4. ASSUME NEW row, NEW s \in {"pending", "sent", "failed"}, outbox' = WithRow(r, row),
             r \in Ids => row.items = outbox[r].items /\ row.status = s
      PROVE  Records(w, s)
  <2>1. /\ Ids' = Ids
        /\ \A x \in Ids : /\ outbox'[x].items = outbox[x].items
                          /\ x # r => outbox'[x].status = outbox[x].status
        /\ r \in Ids => outbox'[r].status = s
    BY <1>4 DEF WithRow
  <2> QED
    BY <1>2, <1>3, <2>1 DEF Records
<1>5. CASE CreateDigest(w)
  <2>1. r \in Ids => outbox[r].items = {r}
    <3>1. cur[w].kind = "event"
      BY <1>5 DEF CreateDigest, Events, FoldingEvents
    <3>2. r \in Ids => JobOf(r) = cur[w]
      BY <1>2, OwnRow
    <3> QED
      BY <3>1, <3>2 DEF JobOf, Events, OwnEvent
  <2> DEFINE row == [outbox[r] EXCEPT !.kind = "digest", !.items = {r},
                                      !.status = "pending", !.due = Minute]
  <2>2. r \in Ids => row.items = outbox[r].items /\ row.status = "pending"
    BY <1>1, <2>1 DEF Row
  <2>3. outbox' = WithRow(r, row)
    BY <1>5 DEF CreateDigest
  <2> HIDE DEF row
  <2> QED
    BY <1>4, <2>2, <2>3
<1>6. CASE RecordSent(w)
  <2> DEFINE row == [outbox[r] EXCEPT !.status = "sent", !.age = 0, !.attempts = @ + 1]
  <2>1. outbox' = WithRow(r, row)
    BY <1>6 DEF RecordSent
  <2>2. r \in Ids => row.items = outbox[r].items /\ row.status = "sent"
    BY <1>1 DEF Row
  <2> HIDE DEF row
  <2> QED
    BY <1>4, <2>1, <2>2
<1>7. CASE RecordFailed(w)
  <2> DEFINE row == [outbox[r] EXCEPT !.status = "failed", !.attempts = Attempt(cur[w])]
  <2>1. outbox' = WithRow(r, row)
    BY <1>7 DEF RecordFailed
  <2>2. r \in Ids => row.items = outbox[r].items /\ row.status = "failed"
    BY <1>1 DEF Row
  <2> HIDE DEF row
  <2> QED
    BY <1>4, <2>1, <2>2
<1>8. CASE RecordRetry(w)
  <2> DEFINE n == Attempt(cur[w])
             row == [outbox[r] EXCEPT !.status = "pending", !.attempts = n, !.due = Backoff(n)]
  <2>1. outbox' = WithRow(r, row)
    BY <1>8 DEF RecordRetry
  <2>2. r \in Ids => row.items = outbox[r].items /\ row.status = "pending"
    BY <1>1 DEF Row
  <2> HIDE DEF row
  <2> QED
    BY <1>4, <2>1, <2>2
<1> QED
  BY <1>5, <1>6, <1>7, <1>8

LEMMA DropQuiet ==
  ASSUME NEW W \in SUBSET Workers, Drop(W)
  PROVE  Quiet
BY DEF Drop, table, InFlight, Unhandled, Quiet

\* Every step is one of five.
LEMMA StepKinds ==
  ASSUME IInv, Events, [Next]_vars
  PROVE  \/ Quiet
         \/ \E r \in Rows, i \in Integrations : Enqueue(r, i)
         \/ \E w \in Workers, S \in SUBSET Rows : ClaimRows(w, S)
         \/ \E w \in Workers : MergeDigest(w)
         \/ \E w \in Workers, s \in {"pending", "sent", "failed"} : Records(w, s)
<1>1. CASE Environment
  BY <1>1, EnvironmentQuiet
<1>2. ASSUME NEW w \in Workers, Claim(w) PROVE \E S \in SUBSET Rows : ClaimRows(w, S)
  BY <1>2 DEF Claim
<1>3. ASSUME NEW w \in Workers, Work(w)
      PROVE  Quiet \/ MergeDigest(w) \/ \E s \in {"pending", "sent", "failed"} : Records(w, s)
  BY <1>3, WorkerQuiet, WorkerRecords DEF Work, Finish
<1>4. CASE Crash \/ \E w \in Workers : DbError(w)
  BY <1>4, DropQuiet DEF Crash, DbError
<1>5. CASE UNCHANGED vars
  BY <1>5 DEF vars, table, memory, InFlight, Unhandled, Quiet
<1> QED
  BY <1>1, <1>2, <1>3, <1>4, <1>5 DEF Next

LEMMA NextPursuit == IInv /\ Events /\ Pursuit /\ [Next]_vars => Pursuit'
<1> SUFFICES ASSUME IInv, Events, Pursuit, [Next]_vars PROVE Pursuit'
  OBVIOUS
<1>1. CASE Quiet
  BY <1>1, PursuitKept DEF Quiet
<1>2. ASSUME NEW w \in Workers, NEW s \in {"pending", "sent", "failed"}, Records(w, s)
      PROVE  Pursuit'
  <2>1. jobs[w] \subseteq Unhandled(w)
    BY DEF InFlight, Unhandled
  <2> QED
    BY <1>2, <2>1, PursuitKept DEF Records
<1> QED
  BY <1>1, <1>2, StepKinds, EnqueuePursuit, ClaimPursuit, MergePursuit

\* Workers hold what they are to record, in every reachable state.
THEOREM PursuitKnown == Spec => []Pursuit
<1>1. Init => Pursuit
  BY DEF Init, Pursuit, InFlight
<1> QED
  BY <1>1, NextPursuit, EventsKnown, Invariance, PTL DEF Spec

-----------------------------------------------------------------------------
(***************************************************************************)
(* The fate of an event: no event is in two rows, so its fate is the       *)
(* status of the one that has it.                                          *)
(***************************************************************************)
Fates == {"unknown", "waiting", "taken", "delivered", "abandoned"}

FateIs ==
  /\ Fate \in [Rows -> Fates]
  /\ \A r \in Ids : \A e \in outbox[r].items : Fate[e] = FateOfStatus[outbox[r].status]
  /\ \A e \in Rows \ Carried : Fate[e] = IF e \in Pursued THEN "taken" ELSE "unknown"

LEMMA FateKnown == TypeOK /\ CarriedOnce => FateIs
<1> SUFFICES ASSUME TypeOK, CarriedOnce PROVE FateIs
  OBVIOUS
<1>1. \A r \in Ids : outbox[r].items \subseteq Rows
                     /\ FateOfStatus[outbox[r].status] \in Fates
  BY DEF TypeOK, Row, FateOfStatus, Fates
<1>2. ASSUME NEW r \in Ids, NEW e \in outbox[r].items
      PROVE  e \in Carried /\ (CHOOSE x \in Ids : e \in outbox[x].items) = r
  BY <1>2 DEF Carried, CarriedOnce
<1>3. \A r \in Ids : \A e \in outbox[r].items : Fate[e] = FateOfStatus[outbox[r].status]
  BY <1>1, <1>2 DEF Fate
<1>4. \A e \in Rows \ Carried : Fate[e] = IF e \in Pursued THEN "taken" ELSE "unknown"
  BY DEF Fate
<1>5. ASSUME NEW e \in Rows PROVE Fate[e] \in Fates
  <2>1. CASE e \in Carried
    BY <1>1, <1>3, <2>1 DEF Carried
  <2>2. CASE e \notin Carried
    BY <1>4, <2>2 DEF Fates
  <2> QED
    BY <2>1, <2>2
<1>6. Fate \in [Rows -> Fates]
  BY <1>5 DEF Fate
<1> QED
  BY <1>3, <1>4, <1>6 DEF FateIs

\* An event a worker pursues is in no row but one that is being sent.
LEMMA PursuedTaken ==
  ASSUME IInv, Pursuit, FateIs, NEW e \in Rows, e \in Pursued
  PROVE  Fate[e] = "taken"
<1>1. PICK w \in Workers : \E j \in Unhandled(w) : e \in j.items
  BY DEF Pursued
<1>2. PICK j \in Unhandled(w) : e \in j.items
  BY <1>1
<1>3. OnlyIn(j)
  BY <1>2, InFlightType DEF Pursuit, IInv
<1>4. j.id \in Ids => outbox[j.id].status = "sending"
  <2>1. j \in InFlight(w)
    BY <1>2, InFlightType DEF IInv
  <2> QED
    BY <1>2, <2>1 DEF IInv, ClaimedOnce
<1>5. CASE e \in Carried
  <2>1. PICK r \in Ids : e \in outbox[r].items
    BY <1>5 DEF Carried
  <2>2. outbox[r].status = "sending"
    BY <1>2, <1>3, <1>4, <2>1 DEF OnlyIn
  <2> QED
    BY <2>1, <2>2 DEF FateIs, FateOfStatus
<1>6. CASE e \notin Carried
  BY <1>6 DEF FateIs
<1> QED
  BY <1>5, <1>6

\* Steps that only take rows or jobs away are forgotten or not seen.
LEMMA QuietForgets ==
  ASSUME IInv, Pursuit, FateIs, FateIs', Quiet
  PROVE  Queue!Forget
<1>1. ASSUME NEW e \in Rows PROVE Fate'[e] \in {Fate[e], "unknown"}
  <2>1. CASE e \in Carried'
    <3>1. PICK r \in Ids' : e \in outbox'[r].items
      BY <2>1 DEF Carried
    <3> QED
      BY <3>1 DEF Quiet, FateIs
  <2>2. CASE e \notin Carried' /\ e \in Pursued'
    <3>1. e \in Pursued
      BY <2>2 DEF Pursued, Quiet
    <3> QED
      BY <2>2, <3>1, PursuedTaken DEF FateIs
  <2>3. CASE e \notin Carried' /\ e \notin Pursued'
    BY <2>3 DEF FateIs
  <2> QED
    BY <2>1, <2>2, <2>3
<1> QED
  BY <1>1 DEF FateIs, Queue!Forget, Queue!Fates, Fates

LEMMA EnqueueAccepts ==
  ASSUME FateIs, FateIs', NEW r \in Rows, NEW i \in Integrations, Enqueue(r, i)
  PROVE  Queue!Accept
<1>1. /\ Ids' = Ids \cup {r} /\ r \notin Ids /\ r \notin Carried /\ r \notin Held
      /\ \A x \in Ids : outbox'[x] = outbox[x]
      /\ outbox'[r].items = {r} /\ outbox'[r].status = "pending"
  BY DEF Enqueue, NewRow
<1>2. \A w \in Workers : Unhandled(w)' = Unhandled(w) /\ Unhandled(w) \subseteq InFlight(w)
  BY DEF Enqueue, memory, InFlight, Unhandled
<1>3. Pursued' = Pursued /\ r \notin Pursued
  BY <1>1, <1>2 DEF Pursued, Held
<1>4. Carried' = Carried \cup {r}
  BY <1>1 DEF Carried
<1>5. Fate[r] = "unknown" /\ Fate'[r] = "waiting"
  BY <1>1, <1>3 DEF FateIs, FateOfStatus
<1>6. ASSUME NEW e \in Rows, e # r PROVE Fate'[e] = Fate[e]
  <2>1. CASE e \in Carried
    <3>1. PICK x \in Ids : e \in outbox[x].items
      BY <2>1 DEF Carried
    <3> QED
      BY <1>1, <3>1 DEF FateIs
  <2>2. CASE e \notin Carried
    BY <1>3, <1>4, <1>6, <2>2 DEF FateIs
  <2> QED
    BY <2>1, <2>2
<1> QED
  BY <1>5, <1>6 DEF FateIs, Queue!Accept, Queue!Move, Queue!Fates, Fates

LEMMA ClaimTakes ==
  ASSUME IInv, FateIs, FateIs', NEW w \in Workers, NEW S \in SUBSET Rows, ClaimRows(w, S)
  PROVE  Queue!Take
<1>1. S \subseteq Ids /\ Ids' = Ids /\ \A r \in S : outbox[r].status = "pending"
  BY DEF ClaimRows, Claimable
<1>2. ASSUME NEW r \in Ids
      PROVE  /\ outbox'[r].items = outbox[r].items
             /\ r \in S => outbox'[r].status = "sending"
             /\ r \notin S => outbox'[r].status = outbox[r].status
  <2>1. outbox[r] \in Row
    BY DEF IInv, TypeOK
  <2>2. /\ r \in S => outbox'[r] = [outbox[r] EXCEPT !.status = "sending", !.due = 0]
        /\ r \notin S => outbox'[r] = outbox[r]
    BY DEF ClaimRows
  <2> QED
    BY <2>1, <2>2 DEF Row
<1>3. /\ Unhandled(w)' = {JobOf(r) : r \in S} /\ Unhandled(w) = {}
      /\ \A v \in Workers \ {w} : Unhandled(v)' = Unhandled(v)
  BY DEF ClaimRows, Goto, InFlight, Unhandled, IInv, TypeOK, Control
<1>4. Carried' = Carried
  BY <1>1, <1>2 DEF Carried
<1>5. ASSUME NEW e \in Rows \ Carried PROVE e \in Pursued' <=> e \in Pursued
  <2>1. \A r \in S : e \notin JobOf(r).items
    BY <1>1, <1>5 DEF JobOf, Carried
  <2> QED
    BY <1>3, <2>1 DEF Pursued
<1>6. ASSUME NEW e \in Rows
      PROVE  Fate'[e] = Fate[e] \/ (Fate[e] = "waiting" /\ Fate'[e] = "taken")
  <2>1. CASE e \in Carried
    <3>1. PICK r \in Ids : e \in outbox[r].items
      BY <2>1 DEF Carried
    <3> QED
      BY <1>1, <1>2, <3>1 DEF FateIs, FateOfStatus
  <2>2. CASE e \notin Carried
    BY <1>4, <1>5, <2>2 DEF FateIs
  <2> QED
    BY <2>1, <2>2
<1> QED
  BY <1>6 DEF FateIs, Queue!Take, Queue!Move, Queue!Fates, Fates

\* A merge puts the event back, or a full digest stands for it.
LEMMA MergeReturns ==
  ASSUME IInv, Events, Pursuit, FateIs, FateIs', NEW w \in Workers, MergeDigest(w)
  PROVE  Queue!Return \/ Queue!Forget
<1> DEFINE r == cur[w].id
<1>1. PICK d \in Ids : FoldsInto(w, d)
  BY MergeDigestFolds
<1>2. /\ cur[w] # NoJob /\ d # r /\ Ids' = Ids \ {r} /\ r \in Rows
      /\ \A x \in Ids' \ {d} : outbox'[x].items = outbox[x].items
      /\ \A x \in Ids' : outbox'[x].status = outbox[x].status
      /\ outbox[d].status = "pending"
      /\ outbox'[d].items = outbox[d].items \cup {r} \/ outbox'[d].items = outbox[d].items
  BY <1>1, OwnRow DEF FoldsInto, SameEvents, PendingDigests, Job
<1>3. pc[w] = "merge" /\ FinishJob(w) /\ jobs' = jobs /\ cur[w].items = {r}
  BY <1>2, OwnRow DEF MergeDigest, Pursuit, Events, FoldingEvents
<1>4. /\ Unhandled(w) = jobs[w] \cup {cur[w]} /\ Unhandled(w)' = jobs[w]
      /\ \A v \in Workers \ {w} : Unhandled(v)' = Unhandled(v)
  <2>1. /\ pc'[w] = "loop" /\ cur'[w] = NoJob
        /\ \A v \in Workers \ {w} : pc'[v] = pc[v] /\ cur'[v] = cur[v]
    BY <1>3, FinishJobIs DEF IInv
  <2>2. Unhandled(w) = jobs[w] \cup {cur[w]}
    BY <1>2, <1>3 DEF InFlight, Unhandled
  <2> QED
    BY <1>3, <2>1, <2>2 DEF InFlight, Unhandled
<1>5. r \in Pursued /\ \A e \in Rows : e # r => (e \in Pursued' <=> e \in Pursued)
  BY <1>3, <1>4 DEF Pursued
<1>6. Fate[r] = "taken"
  BY <1>2, <1>5, PursuedTaken
<1>7. r \in Ids => outbox[r].items = {r}
  BY <1>1 DEF FoldsInto
<1>8. ASSUME NEW e \in Rows, e # r PROVE Fate'[e] = Fate[e]
  <2>1. CASE e \in Carried
    <3>1. PICK x \in Ids : e \in outbox[x].items
      BY <2>1 DEF Carried
    <3>2. x \in Ids' /\ e \in outbox'[x].items
      BY <1>2, <1>7, <1>8, <3>1
    <3> QED
      BY <1>2, <3>1, <3>2 DEF FateIs
  <2>2. CASE e \notin Carried
    <3>1. e \notin Carried'
      BY <1>2, <1>8, <2>2 DEF Carried
    <3> QED
      BY <1>5, <1>8, <2>2, <3>1 DEF FateIs
  <2> QED
    BY <2>1, <2>2
<1>9. Fate'[r] \in {"waiting", "taken", "unknown"}
  <2>1. CASE r \in Carried'
    <3>1. PICK x \in Ids' : r \in outbox'[x].items
      BY <2>1 DEF Carried
    <3>2. x = d
      BY <1>2, <3>1, OwnRow DEF Events, JobsOwnTheirEvents
    <3> QED
      BY <1>2, <3>1, <3>2 DEF FateIs, FateOfStatus
  <2>2. CASE r \notin Carried'
    BY <1>2, <2>2 DEF FateIs
  <2> QED
    BY <2>1, <2>2
<1>10. CASE Fate'[r] = "waiting"
  <2>1. \A e \in Rows : Fate'[e] = Fate[e] \/ (Fate[e] = "taken" /\ Fate'[e] = "waiting")
    BY <1>6, <1>8, <1>10
  <2> QED
    BY <2>1 DEF FateIs, Queue!Return, Queue!Move, Queue!Fates, Fates
<1>11. CASE Fate'[r] \in {"taken", "unknown"}
  <2>1. \A e \in Rows : Fate'[e] \in {Fate[e], "unknown"}
    BY <1>6, <1>8, <1>11
  <2> QED
    BY <2>1 DEF FateIs, Queue!Forget, Queue!Fates, Fates
<1> QED
  BY <1>9, <1>10, <1>11

\* A record settles the job's events if the row is still there; if it is gone,
\* they are forgotten with it.
LEMMA RecordSettles ==
  ASSUME IInv, Pursuit, FateIs, FateIs', NEW w \in Workers,
         NEW s \in {"pending", "sent", "failed"}, Records(w, s)
  PROVE  Queue!Return \/ Queue!Deliver \/ Queue!Abandon \/ Queue!Forget
<1> DEFINE r == cur[w].id
<1>1. /\ cur[w] # NoJob /\ Ids' = Ids
      /\ \A x \in Ids : /\ outbox'[x].items = outbox[x].items
                        /\ x # r => outbox'[x].status = outbox[x].status
      /\ r \in Ids => outbox'[r].status = s
      /\ Carried' = Carried
  BY DEF Records, Carried
<1>2. /\ Unhandled(w) = jobs[w] \cup {cur[w]} /\ Unhandled(w)' = jobs[w]
      /\ \A v \in Workers \ {w} : Unhandled(v)' = Unhandled(v)
  BY DEF Records, InFlight, Unhandled
<1>3. /\ Pursued' \subseteq Pursued
      /\ \A e \in Rows : e \notin cur[w].items => (e \in Pursued' <=> e \in Pursued)
  BY <1>2 DEF Pursued
<1>4. r \in Ids => outbox[r].status = "sending" /\ cur[w].items = outbox[r].items
  <2>1. r \in Ids => outbox[r].status = "sending" /\ JobOf(r) = cur[w]
    BY OwnRow DEF Records
  <2>2. JobOf(r).items = outbox[r].items
    BY DEF JobOf
  <2> QED
    BY <2>1, <2>2
<1>5. CASE r \in Ids
  <2>1. FateOfStatus[s] \in {"waiting", "delivered", "abandoned"}
    BY DEF FateOfStatus
  <2>2. ASSUME NEW e \in Rows
        PROVE  Fate'[e] = Fate[e] \/ (Fate[e] = "taken" /\ Fate'[e] = FateOfStatus[s])
    <3>1. CASE e \in Carried
      <4>1. PICK x \in Ids : e \in outbox[x].items
        BY <3>1 DEF Carried
      <4>2. CASE x = r
        BY <1>1, <1>4, <1>5, <4>1, <4>2 DEF FateIs, FateOfStatus
      <4>3. CASE x # r
        BY <1>1, <4>1, <4>3 DEF FateIs
      <4> QED
        BY <4>2, <4>3
    <3>2. CASE e \notin Carried
      <4>1. e \notin cur[w].items
        BY <1>4, <1>5, <3>2 DEF Carried
      <4> QED
        BY <1>1, <1>3, <3>2, <4>1 DEF FateIs
    <3> QED
      BY <3>1, <3>2
  <2>3. CASE FateOfStatus[s] = "waiting"
    BY <2>2, <2>3 DEF FateIs, Queue!Return, Queue!Move, Queue!Fates, Fates
  <2>4. CASE FateOfStatus[s] = "delivered"
    BY <2>2, <2>4 DEF FateIs, Queue!Deliver, Queue!Move, Queue!Fates, Fates
  <2>5. CASE FateOfStatus[s] = "abandoned"
    BY <2>2, <2>5 DEF FateIs, Queue!Abandon, Queue!Move, Queue!Fates, Fates
  <2> QED
    BY <2>1, <2>3, <2>4, <2>5
<1>6. CASE r \notin Ids
  <2>1. Quiet
    <3>1. \A v \in Workers : Unhandled(v)' \subseteq Unhandled(v)
      BY <1>2
    <3> QED
      BY <1>1, <1>6, <3>1 DEF Quiet, Records
  <2> QED
    BY <2>1, QuietForgets
<1> QED
  BY <1>5, <1>6

\* The outbox implements the queue it promises to be: no event is delivered that
\* was not taken for delivery, none is taken again once it was delivered or given
\* up, and folding it into a digest only puts it back, for any number of workers,
\* with statements that fail and a process that dies anywhere.
THEOREM OutboxImplementsQueue == Spec => ImplementsDeliveryQueue
<1>1. Init => Queue!Init
  <2> SUFFICES ASSUME Init PROVE Fate = [e \in Rows |-> "unknown"]
    BY DEF Queue!Init
  <2>1. Ids = {} /\ \A w \in Workers : Unhandled(w) = {}
    BY DEF Init, InFlight, Unhandled
  <2> QED
    BY <2>1 DEF Fate, Carried, Pursued
<1>2. ASSUME IInv, Events, Pursuit, FateIs, FateIs', [Next]_vars PROVE Queue!Next
  BY <1>2, StepKinds, QuietForgets, EnqueueAccepts, ClaimTakes, MergeReturns, RecordSettles
     DEF Queue!Next
<1>3. IInv /\ Events => FateIs
  BY FateKnown DEF IInv, Events
<1> QED
  BY <1>1, <1>2, <1>3, Invariance, EventsKnown, PursuitKnown, PTL
     DEF Spec, ImplementsDeliveryQueue, Queue!Spec
=============================================================================
