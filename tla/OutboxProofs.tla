----------------------------- MODULE OutboxProofs -----------------------------
(***************************************************************************)
(* Proofs about the outbox, for any number of rows, workers, integrations  *)
(* and chats, any limits, and with every failure of Faults.                *)
(***************************************************************************)
EXTENDS Outbox, TLAPS

(***************************************************************************)
(* The inductive invariant.  A claim takes pending rows only, and a row in *)
(* the hands of a worker is "sending" until that worker records what       *)
(* became of it; the rest says which of its variables a worker uses where. *)
(***************************************************************************)
Control ==
  \A w \in Workers :
    /\ pc[w] \in {"idle", "loop"} <=> cur[w] = NoJob
    /\ pc[w] = "idle" => jobs[w] = {}
    /\ cur[w] \notin jobs[w]
    /\ pc[w] \in {"record", "touch", "hook"} <=> result[w] # "none"
    /\ pc[w] = "touch" => result[w] = "ok"
    /\ pc[w] = "hook" => result[w] # "ok"

Locking ==
  \A w \in Workers :
    /\ locks[w] # {} => pc[w] = "merge"
    /\ \A d \in locks[w] : d \in PendingDigests(ChatOf[cur[w].integ])
    /\ \A v \in Workers \ {w} : locks[v] \cap locks[w] = {}

\* An attempt is left for every row that can still be delivered.
AttemptLeft ==
  /\ \A r \in Ids : outbox[r].status \in {"pending", "sending"} =>
                      outbox[r].attempts < MaxAttempts
  /\ \A w \in Workers : \A j \in InFlight(w) : j.attempts < MaxAttempts

Recorded ==
  \A w \in Workers : cur[w] # NoJob /\ cur[w].id \in Ids =>
    /\ pc[w] = "touch" => outbox[cur[w].id].status = "sent"
    /\ pc[w] = "hook" => outbox[cur[w].id].status = "failed"

IInv == TypeOK /\ Control /\ Locking /\ AttemptLeft /\ Recorded /\ ClaimedOnce

USE BoundsAssumption DEF Ids

-----------------------------------------------------------------------------
(***************************************************************************)
(* Lemmas about the definitions.                                           *)
(***************************************************************************)

\* What a claim hands to a worker is a job.
LEMMA JobOfType ==
  ASSUME NEW r \in Ids, TypeOK
  PROVE  JobOf(r) \in Job
BY DEF TypeOK, JobOf, Job, Row

\* The wait before the next attempt is always defined.
LEMMA BackoffType ==
  ASSUME NEW n \in Nat
  PROVE  Backoff(n) \in Nat
<1>1. Len(Schedule) \in Nat /\ Len(Schedule) >= 1
  BY ScheduleAssumption
<1>2. \A k \in 1..Len(Schedule) : Schedule[k] \in Nat
  BY ScheduleAssumption
<1> QED
  BY <1>1, <1>2 DEF Backoff

\* What each UPDATE makes of a row is a row.
LEMMA OneColumn ==
  ASSUME NEW row \in Row
  PROVE  /\ \A s \in {"pending", "sending", "sent", "failed"} : [row EXCEPT !.status = s] \in Row
         /\ \A k \in {"event", "digest"} : [row EXCEPT !.kind = k] \in Row
         /\ \A I \in SUBSET Rows : [row EXCEPT !.items = I] \in Row
         /\ \A d \in Int : [row EXCEPT !.due = d] \in Row
         /\ \A n \in 0..MaxAttempts : [row EXCEPT !.attempts = n] \in Row
         /\ \A a \in 0..Minute : [row EXCEPT !.age = a] \in Row
         /\ [row EXCEPT !.calls = @ + 1] \in Row
         /\ \A b \in BOOLEAN : [row EXCEPT !.acked = b] \in Row
         /\ [row EXCEPT !.told = @ + 1] \in Row
BY DEF Row

\* What the claim makes of a row is a row.
LEMMA ClaimedRow ==
  ASSUME NEW row \in Row
  PROVE  [row EXCEPT !.status = "sending", !.due = 0] \in Row
<1> DEFINE x == [row EXCEPT !.status = "sending"]
<1>1. x \in Row
  BY OneColumn
<1> HIDE DEF x
<1>2. [x EXCEPT !.due = 0] \in Row
  BY <1>1 DEF Row
<1> QED
  BY <1>2 DEF x

\* What the first job over the budget turns its row into is a row.
LEMMA DigestRow ==
  ASSUME NEW row \in Row, NEW r \in Rows
  PROVE  [row EXCEPT !.kind = "digest", !.items = {r},
                     !.status = "pending", !.due = Minute] \in Row
<1> DEFINE x == [row EXCEPT !.kind = "digest"]
           y == [x EXCEPT !.items = {r}]
           z == [y EXCEPT !.status = "pending"]
<1>1. x \in Row
  BY OneColumn
<1> HIDE DEF x
<1>2. y \in Row
  BY <1>1, OneColumn
<1> HIDE DEF y
<1>3. z \in Row
  BY <1>2, OneColumn
<1> HIDE DEF z
<1>4. [z EXCEPT !.due = Minute] \in Row
  BY <1>3 DEF Row
<1> QED
  BY <1>4 DEF x, y, z

\* What merging makes of a digest is a row.
LEMMA MergedRow ==
  ASSUME NEW row \in Row, NEW I \in SUBSET Rows
  PROVE  [row EXCEPT !.items = I, !.due = Minute] \in Row
<1> DEFINE x == [row EXCEPT !.items = I]
<1>1. x \in Row
  BY OneColumn
<1> HIDE DEF x
<1>2. [x EXCEPT !.due = Minute] \in Row
  BY <1>1 DEF Row
<1> QED
  BY <1>2 DEF x

\* A Deliver call, which only the observer's fields show, leaves a row a row.
LEMMA DeliveredRow ==
  ASSUME NEW row \in Row, NEW b \in BOOLEAN
  PROVE  [row EXCEPT !.calls = @ + 1, !.acked = b] \in Row
<1> DEFINE x == [row EXCEPT !.calls = @ + 1]
<1>1. x \in Row
  BY OneColumn
<1> HIDE DEF x
<1>2. [x EXCEPT !.acked = b] \in Row
  BY <1>1, OneColumn
<1> QED
  BY <1>2 DEF x

\* What record makes of a delivered row is a row.
LEMMA SentRow ==
  ASSUME NEW row \in Row, row.attempts < MaxAttempts
  PROVE  [row EXCEPT !.status = "sent", !.age = 0, !.attempts = @ + 1] \in Row
<1> DEFINE x == [row EXCEPT !.status = "sent"]
           y == [x EXCEPT !.age = 0]
<1>1. x \in Row /\ x.attempts = row.attempts
  BY OneColumn DEF Row
<1> HIDE DEF x
<1>2. y \in Row /\ y.attempts = row.attempts
  BY <1>1 DEF Row
<1> HIDE DEF y
<1>3. row.attempts + 1 \in 0..MaxAttempts
  BY DEF Row
<1>4. [y EXCEPT !.attempts = row.attempts + 1] \in Row
  BY <1>2, <1>3, OneColumn
<1>5. [row EXCEPT !.status = "sent", !.age = 0, !.attempts = @ + 1]
        = [y EXCEPT !.attempts = row.attempts + 1]
  BY DEF x, y
<1> QED
  BY <1>4, <1>5

\* What record makes of a row it gives up is a row.
LEMMA FailedRow ==
  ASSUME NEW row \in Row, NEW n \in 0..MaxAttempts
  PROVE  [row EXCEPT !.status = "failed", !.attempts = n] \in Row
<1> DEFINE x == [row EXCEPT !.status = "failed"]
<1>1. x \in Row
  BY OneColumn
<1> HIDE DEF x
<1>2. [x EXCEPT !.attempts = n] \in Row
  BY <1>1, OneColumn
<1> QED
  BY <1>2 DEF x

\* What record makes of a row it reschedules is a row.
LEMMA RetriedRow ==
  ASSUME NEW row \in Row, NEW n \in 0..MaxAttempts, NEW d \in Int
  PROVE  [row EXCEPT !.status = "pending", !.attempts = n, !.due = d] \in Row
<1> DEFINE x == [row EXCEPT !.status = "pending"]
           y == [x EXCEPT !.attempts = n]
<1>1. x \in Row
  BY OneColumn
<1> HIDE DEF x
<1>2. y \in Row
  BY <1>1, OneColumn
<1> HIDE DEF y
<1>3. [y EXCEPT !.due = d] \in Row
  BY <1>2, OneColumn
<1> QED
  BY <1>3 DEF x, y

\* Whoever holds jobs: they are jobs.
LEMMA InFlightType ==
  ASSUME TypeOK, NEW w \in Workers
  PROVE  InFlight(w) \subseteq Job /\ Unhandled(w) \subseteq InFlight(w)
BY DEF TypeOK, InFlight, Unhandled

\* Every step but a claim keeps ClaimedOnce, if no worker gets jobs it did not
\* have and the rows still to be handled stay as they are.
LEMMA ClaimKept ==
  ASSUME ClaimedOnce,
         \A w \in Workers : InFlight(w)' \subseteq InFlight(w),
         \A w \in Workers : \A j \in Unhandled(w)' : j.id \in Ids' =>
           /\ j.id \in Ids /\ j \in Unhandled(w)
           /\ outbox'[j.id].status = outbox[j.id].status
           /\ JobOf(j.id)' = JobOf(j.id)
  PROVE  ClaimedOnce'
BY DEF ClaimedOnce

-----------------------------------------------------------------------------
(***************************************************************************)
(* The rest of the program.                                                *)
(***************************************************************************)
\* The empty table and idle workers of a fresh start satisfy the invariant.
LEMMA InitIInv == Init => IInv
<1> SUFFICES ASSUME Init PROVE IInv
  OBVIOUS
<1>1. Ids = {}
  BY DEF Init
<1>2. \A w \in Workers : InFlight(w) = {}
  BY DEF Init, InFlight
<1>3. TypeOK
  BY <1>1 DEF Init, TypeOK, Results
<1>4. Control /\ Locking /\ Recorded
  BY DEF Init, Control, Locking, Recorded
<1>5. AttemptLeft /\ ClaimedOnce
  BY <1>1, <1>2 DEF AttemptLeft, ClaimedOnce
<1> QED
  BY <1>3, <1>4, <1>5 DEF IInv

\* A new row has an id nobody holds, so it disturbs no worker.
LEMMA EnqueueIInv ==
  ASSUME IInv, NEW r \in Rows, NEW i \in Integrations, Enqueue(r, i)
  PROVE  IInv'
<1>1. Ids' = Ids \cup {r} /\ r \notin Ids /\ r \notin Held
  BY DEF Enqueue
<1>2. /\ \A x \in Ids : outbox'[x] = outbox[x]
      /\ outbox'[r] = NewRow(r, i)
  BY <1>1 DEF Enqueue
<1>3. NewRow(r, i) \in Row
  BY DEF NewRow, Row
<1>4. TypeOK'
  BY <1>1, <1>2, <1>3 DEF IInv, TypeOK, Enqueue, memory
<1>5. Control'
  BY DEF IInv, Control, Enqueue, memory
<1>6. \A w \in Workers : InFlight(w)' = InFlight(w) /\ Unhandled(w)' = Unhandled(w)
  BY DEF Enqueue, memory, InFlight, Unhandled
<1>7. \A w \in Workers : \A j \in InFlight(w) : j.id # r
  BY <1>1 DEF Held
<1>8. Locking'
  BY <1>1, <1>2 DEF IInv, Locking, Enqueue, memory, PendingDigests, ChatOfRow
<1>9. AttemptLeft'
  BY <1>1, <1>2, <1>6 DEF IInv, AttemptLeft, NewRow
<1>10. Recorded'
  BY <1>1, <1>2, <1>7 DEF IInv, Recorded, Enqueue, memory, InFlight
<1>11. ClaimedOnce'
  BY <1>1, <1>2, <1>6, <1>7, InFlightType, ClaimKept DEF IInv, JobOf
<1> QED
  BY <1>4, <1>5, <1>8, <1>9, <1>10, <1>11 DEF IInv

\* What the rest of the program does to the table keeps the invariant as long
\* as it leaves the workers' memory and the locked rows alone, and changes in
\* the rows that remain no column a claim hands out.
LEMMA EnvironmentKept ==
  ASSUME IInv, TypeOK', UNCHANGED memory,
         Ids' \subseteq Ids, Locked \subseteq Ids',
         \A r \in Ids' : /\ outbox'[r].status = outbox[r].status
                        /\ JobOf(r)' = JobOf(r)
  PROVE  IInv'
<1>1. \A w \in Workers : InFlight(w)' = InFlight(w) /\ Unhandled(w)' = Unhandled(w)
  BY DEF memory, InFlight, Unhandled
<1>2. \A r \in Ids' : /\ outbox'[r].integ = outbox[r].integ
                      /\ outbox'[r].kind = outbox[r].kind
                      /\ outbox'[r].attempts = outbox[r].attempts
  BY DEF JobOf
<1>3. Control'
  BY DEF IInv, Control, memory
<1>4. Locking'
  <2>1. \A w \in Workers : locks[w] \subseteq Ids'
    BY DEF Locked
  <2> QED
    BY <1>2, <2>1 DEF IInv, Locking, memory, PendingDigests, ChatOfRow
<1>5. AttemptLeft'
  BY <1>1, <1>2 DEF IInv, AttemptLeft
<1>6. Recorded'
  BY DEF IInv, Recorded, memory
<1>7. ClaimedOnce'
  BY <1>1, ClaimKept DEF IInv
<1> QED
  BY <1>3, <1>4, <1>5, <1>6, <1>7 DEF IInv

\* The clock changes no column a worker has read.
LEMMA TickIInv == IInv /\ Tick => IInv'
<1> SUFFICES ASSUME IInv, Tick PROVE IInv'
  OBVIOUS
<1>1. Ids' = Ids
  BY DEF Tick
<1>2. ASSUME NEW r \in Ids
      PROVE  /\ outbox'[r] \in Row
             /\ outbox'[r].status = outbox[r].status /\ JobOf(r)' = JobOf(r)
  <2> DEFINE row == outbox[r]
  <2>1. row \in Row
    BY DEF IInv, TypeOK
  <2>2. \/ outbox'[r] = [row EXCEPT !.due = @ - 1]
        \/ outbox'[r] = [row EXCEPT !.age = @ + 1] /\ row.age < Minute
        \/ outbox'[r] = row
    BY <1>1 DEF Tick
  <2>3. outbox'[r] \in Row
    <3>1. [row EXCEPT !.due = @ - 1] \in Row
      BY <2>1 DEF Row
    <3>2. row.age < Minute => [row EXCEPT !.age = @ + 1] \in Row
      BY <2>1 DEF Row
    <3> QED
      BY <2>1, <2>2, <3>1, <3>2
  <2>4. /\ outbox'[r].status = row.status /\ outbox'[r].integ = row.integ
        /\ outbox'[r].kind = row.kind /\ outbox'[r].items = row.items
        /\ outbox'[r].attempts = row.attempts
    BY <2>1, <2>2 DEF Row
  <2> QED
    BY <2>3, <2>4 DEF JobOf
<1>3. TypeOK'
  BY <1>1, <1>2 DEF IInv, TypeOK, Tick, memory
<1>4. Locked \subseteq Ids'
  BY <1>1 DEF IInv, Locking, Locked, PendingDigests
<1> QED
  BY <1>1, <1>2, <1>3, <1>4, EnvironmentKept DEF Tick

\* The janitor takes finished rows, and those are in no batch and not locked.
LEMMA SweepIInv == IInv /\ Sweep => IInv'
<1> SUFFICES ASSUME IInv, NEW S \in SUBSET Sweepable, outbox' = Without(S),
                    UNCHANGED <<live, broken, memory>>
             PROVE  IInv'
  BY DEF Sweep
<1>1. Ids' = Ids \ S /\ \A r \in Ids' : outbox'[r] = outbox[r]
  BY DEF Without
<1>2. TypeOK'
  BY <1>1 DEF IInv, TypeOK, memory
<1>3. Locked \subseteq Ids'
  BY <1>1 DEF IInv, Locking, Locked, PendingDigests, Sweepable
<1> QED
  BY <1>1, <1>2, <1>3, EnvironmentKept DEF JobOf

\* A cascade may take rows out of a worker's hands, but none it has locked.
LEMMA DeleteIntegrationsIInv ==
  ASSUME NEW I, IInv, DeleteIntegrations(I)
  PROVE  IInv'
<1> DEFINE S == {r \in Ids : outbox[r].integ \in I}
<1>1. Ids' = Ids \ S /\ \A r \in Ids' : outbox'[r] = outbox[r]
  BY DEF DeleteIntegrations, Without
<1>2. TypeOK'
  BY <1>1 DEF IInv, TypeOK, DeleteIntegrations, memory
<1>3. Locked \subseteq Ids'
  <2>1. Locked \subseteq Ids
    BY DEF IInv, Locking, Locked, PendingDigests
  <2>2. S \cap Locked = {}
    BY DEF DeleteIntegrations
  <2> QED
    BY <1>1, <2>1, <2>2
<1> QED
  BY <1>1, <1>2, <1>3, EnvironmentKept DEF JobOf, DeleteIntegrations

\* Clearing broken_reason touches neither the table nor the workers.
LEMMA ClearBrokenIInv ==
  ASSUME NEW c, IInv, ClearChatIntegrationsBroken(c)
  PROVE  IInv'
<1>1. TypeOK'
  BY DEF IInv, TypeOK, ClearChatIntegrationsBroken, memory
<1>2. Locked \subseteq Ids
  BY DEF IInv, Locking, Locked, PendingDigests
<1> QED
  BY <1>1, <1>2, EnvironmentKept DEF JobOf, ClearChatIntegrationsBroken

-----------------------------------------------------------------------------
(***************************************************************************)
(* The worker.                                                             *)
(***************************************************************************)
\* A claim takes rows that are pending, so nobody else's, and makes them "sending".
LEMMA ClaimIInv ==
  ASSUME NEW w \in Workers, NEW S \in SUBSET Rows, IInv, ClaimRows(w, S)
  PROVE  IInv'
<1> DEFINE batch == {JobOf(r) : r \in S}
<1>1. /\ S \subseteq Ids /\ S \cap Locked = {}
      /\ \A r \in S : outbox[r].status = "pending"
  BY DEF ClaimRows, Claimable
<1>2. /\ Ids' = Ids
      /\ \A r \in Ids \ S : outbox'[r] = outbox[r]
      /\ \A r \in S : outbox'[r] = [outbox[r] EXCEPT !.status = "sending", !.due = 0]
  BY <1>1 DEF ClaimRows
<1>3. \A r \in S : /\ outbox'[r] \in Row /\ outbox'[r].status = "sending"
                   /\ JobOf(r)' = JobOf(r) /\ JobOf(r).id = r /\ JobOf(r) \in Job
  <2> TAKE r \in S
  <2>1. outbox[r] \in Row /\ r \in Ids
    BY <1>1 DEF IInv, TypeOK
  <2>2. outbox'[r] \in Row
    BY <1>2, <2>1, ClaimedRow
  <2>3. /\ outbox'[r].status = "sending" /\ outbox'[r].integ = outbox[r].integ
        /\ outbox'[r].kind = outbox[r].kind /\ outbox'[r].items = outbox[r].items
        /\ outbox'[r].attempts = outbox[r].attempts
    BY <1>2, <2>1 DEF Row
  <2>4. JobOf(r) \in Job
    BY <2>1, JobOfType DEF IInv
  <2> QED
    BY <2>2, <2>3, <2>4 DEF JobOf
<1>4. /\ pc[w] = "idle" /\ cur[w] = NoJob /\ jobs[w] = {} /\ result[w] = "none"
      /\ pc' = [pc EXCEPT ![w] = "loop"] /\ jobs' = [jobs EXCEPT ![w] = batch]
      /\ UNCHANGED <<live, broken, cur, result, locks>>
  BY DEF ClaimRows, Goto, IInv, Control
<1>5. TypeOK'
  <2>1. Ids' \subseteq Rows /\ \A r \in Ids' : outbox'[r] \in Row
    BY <1>1, <1>2, <1>3 DEF IInv, TypeOK
  <2>2. batch \subseteq Job
    BY <1>3
  <2> HIDE DEF batch
  <2> QED
    BY <1>4, <2>1, <2>2 DEF IInv, TypeOK
<1>6. Control'
  <2>1. NoJob \notin batch
    BY <1>3, NoJobAssumption
  <2> HIDE DEF batch
  <2> QED
    BY <1>4, <2>1 DEF IInv, Control, TypeOK
<1>7. Locking'
  <2>1. ASSUME NEW v \in Workers, NEW d \in locks[v]
        PROVE  outbox'[d] = outbox[d] /\ d \in Ids
    <3>1. d \in Ids /\ d \in Locked
      BY DEF IInv, Locking, Locked, PendingDigests
    <3> QED
      BY <1>1, <1>2, <3>1
  <2>2. locks[w] = {}
    BY <1>4 DEF IInv, Locking
  <2> QED
    <3>1. \A v \in Workers : \A d \in locks[v], c \in Chats :
            d \in PendingDigests(c) => d \in PendingDigests(c)'
      BY <1>2, <2>1 DEF PendingDigests, ChatOfRow
    <3>2. \A v \in Workers : locks[v] # {} => pc[v] = "merge" /\ pc'[v] = "merge"
      BY <1>4, <2>2 DEF IInv, Locking, TypeOK
    <3>3. \A v \in Workers : cur[v] # NoJob => ChatOf[cur[v].integ] \in Chats
      BY ChatAssumption DEF IInv, TypeOK, Job
    <3>4. \A v \in Workers : locks[v] # {} => cur[v] # NoJob
      BY <3>2 DEF IInv, Control
    <3> QED
      BY <1>4, <3>1, <3>2, <3>3, <3>4 DEF IInv, Locking
<1>8. /\ InFlight(w)' = batch /\ Unhandled(w)' = batch
      /\ \A v \in Workers \ {w} : InFlight(v)' = InFlight(v) /\ Unhandled(v)' = Unhandled(v)
  BY <1>4 DEF InFlight, Unhandled, IInv, TypeOK
<1>9. AttemptLeft'
  <2>1. \A r \in Ids : outbox'[r].attempts = outbox[r].attempts
    BY <1>2, <1>3 DEF JobOf
  <2>2. \A j \in batch : j.attempts < MaxAttempts
    BY <1>1 DEF IInv, AttemptLeft, JobOf
  <2> QED
    BY <1>1, <1>2, <1>8, <2>1, <2>2 DEF IInv, AttemptLeft
<1>10. Recorded'
  <2>1. ASSUME NEW v \in Workers, cur[v] # NoJob, cur[v].id \in Ids,
               pc[v] \in {"touch", "hook"}
        PROVE  outbox'[cur[v].id] = outbox[cur[v].id]
    BY <1>1, <1>2, <2>1 DEF IInv, Recorded
  <2> QED
    BY <1>2, <1>4, <2>1 DEF IInv, Recorded, TypeOK
<1>11. ClaimedOnce'
  <2>1. ASSUME NEW v \in Workers \ {w}, NEW k \in InFlight(v)
        PROVE  k.id \notin S
    <3>1. CASE k \in Unhandled(v)
      BY <1>1, <3>1, <2>1 DEF IInv, ClaimedOnce
    <3>2. CASE k \notin Unhandled(v)
      BY <1>1, <3>2, <2>1 DEF Unhandled, InFlight, IInv, Recorded
    <3> QED
      BY <3>1, <3>2
  <2>2. \A v \in Workers \ {w} : \A k \in InFlight(v), j \in batch : k.id # j.id
    BY <2>1, <1>3
  <2>3. \A v \in Workers \ {w} : \A k \in Unhandled(v) : k.id \in Ids =>
          outbox'[k.id].status = outbox[k.id].status /\ JobOf(k.id)' = JobOf(k.id)
    BY <1>2, <2>1, InFlightType DEF JobOf, IInv
  <2>4. \A j, k \in batch : j.id = k.id => j = k
    BY <1>3
  <2>5. \A j \in batch : outbox'[j.id].status = "sending" /\ JobOf(j.id)' = j
    BY <1>3
  <2> SUFFICES ASSUME NEW v \in Workers, NEW j \in InFlight(v)'
               PROVE  /\ \A u \in Workers \ {v} : \A k \in InFlight(u)' : j.id # k.id
                      /\ \A k \in InFlight(v)' : j.id = k.id => j = k
                      /\ j \in Unhandled(v)' /\ j.id \in Ids' =>
                           outbox'[j.id].status = "sending" /\ JobOf(j.id)' = j
    BY DEF ClaimedOnce
  <2> HIDE DEF batch
  <2>6. CASE v = w
    BY <1>8, <2>2, <2>4, <2>5, <2>6
  <2>7. CASE v # w
    <3>1. j \in InFlight(v) /\ (j \in Unhandled(v)' => j \in Unhandled(v))
      BY <1>8, <2>7
    <3>2. \A u \in Workers \ {v} : \A k \in InFlight(u)' : j.id # k.id
      <4>1. \A k \in InFlight(w)' : j.id # k.id
        BY <1>8, <2>2, <2>7, <3>1
      <4>2. \A u \in Workers \ {v, w} : \A k \in InFlight(u)' : j.id # k.id
        BY <1>8, <3>1 DEF IInv, ClaimedOnce
      <4> QED
        BY <4>1, <4>2
    <3>3. \A k \in InFlight(v)' : j.id = k.id => j = k
      BY <1>8, <2>7, <3>1 DEF IInv, ClaimedOnce
    <3>4. j \in Unhandled(v)' /\ j.id \in Ids' =>
            outbox'[j.id].status = "sending" /\ JobOf(j.id)' = j
      BY <1>2, <2>3, <2>7, <3>1 DEF IInv, ClaimedOnce
    <3> QED
      BY <3>2, <3>3, <3>4
  <2> QED
    BY <2>6, <2>7
<1> QED
  BY <1>5, <1>6, <1>7, <1>9, <1>10, <1>11 DEF IInv

\* A worker's current job is its own: no other worker has the row, in its batch
\* or as a locked digest, and until the outcome is recorded the row, if it still
\* exists, is "sending" and as the worker read it.
LEMMA OwnRow ==
  ASSUME IInv, NEW w \in Workers, cur[w] # NoJob
  PROVE  /\ cur[w] \in Job /\ cur[w] \in InFlight(w) /\ cur[w].attempts < MaxAttempts
         /\ \A v \in Workers \ {w} : \A k \in InFlight(v) : k.id # cur[w].id
         /\ \A k \in jobs[w] : k.id # cur[w].id
         /\ cur[w].id \notin Locked
         /\ pc[w] \notin {"touch", "hook"} /\ cur[w].id \in Ids =>
              outbox[cur[w].id].status = "sending" /\ JobOf(cur[w].id) = cur[w]
<1>1. cur[w] \in Job /\ cur[w] \in InFlight(w)
  BY DEF IInv, TypeOK, InFlight
<1>2. cur[w].attempts < MaxAttempts
  BY <1>1 DEF IInv, AttemptLeft
<1>3. \A v \in Workers \ {w} : \A k \in InFlight(v) : k.id # cur[w].id
  BY <1>1 DEF IInv, ClaimedOnce
<1>4. \A k \in jobs[w] : k.id # cur[w].id
  BY <1>1 DEF IInv, ClaimedOnce, Control, InFlight
<1>5. pc[w] \notin {"touch", "hook"} /\ cur[w].id \in Ids =>
        outbox[cur[w].id].status = "sending" /\ JobOf(cur[w].id) = cur[w]
  BY <1>1 DEF IInv, ClaimedOnce, Unhandled
<1>6. \A d \in Locked : d \in Ids /\ outbox[d].status = "pending"
  BY DEF IInv, Locking, Locked, PendingDigests
<1>7. pc[w] \in {"touch", "hook"} /\ cur[w].id \in Ids => outbox[cur[w].id].status # "pending"
  BY DEF IInv, Recorded
<1> QED
  BY <1>1, <1>2, <1>3, <1>4, <1>5, <1>6, <1>7

\* A step of one worker on its current job keeps the invariant as long as it
\* changes no other row but a digest it has locked, and of that only the list.
LEMMA JobStepKept ==
  ASSUME IInv, NEW w \in Workers, cur[w] # NoJob, TypeOK', Control',
         jobs' = jobs, cur'[w] \in {cur[w], NoJob}, locks'[w] = {},
         \A v \in Workers \ {w} : pc'[v] = pc[v] /\ cur'[v] = cur[v] /\ locks'[v] = locks[v],
         Ids' \subseteq Ids, Ids \subseteq Ids' \cup {cur[w].id},
         \A r \in Ids' \ {cur[w].id} :
           /\ outbox'[r].status = outbox[r].status /\ outbox'[r].integ = outbox[r].integ
           /\ outbox'[r].kind = outbox[r].kind /\ outbox'[r].attempts = outbox[r].attempts
           /\ outbox[r].status = "sending" => outbox'[r].items = outbox[r].items,
         cur[w].id \in Ids' =>
           /\ outbox'[cur[w].id].status \in {"pending", "sending"} =>
                outbox'[cur[w].id].attempts < MaxAttempts
           /\ cur'[w] # NoJob =>
                /\ pc'[w] = "touch" => outbox'[cur[w].id].status = "sent"
                /\ pc'[w] = "hook" => outbox'[cur[w].id].status = "failed"
                /\ pc'[w] \notin {"touch", "hook"} =>
                     /\ pc[w] \notin {"touch", "hook"}
                     /\ outbox'[cur[w].id].status = outbox[cur[w].id].status
                     /\ JobOf(cur[w].id)' = JobOf(cur[w].id)
  PROVE  IInv'
<1> DEFINE own == cur[w].id
<1>1. /\ \A v \in Workers \ {w} : \A k \in InFlight(v) : k.id # own
      /\ \A k \in jobs[w] : k.id # own
      /\ own \notin Locked
  BY OwnRow
<1>2. /\ \A v \in Workers \ {w} : InFlight(v)' = InFlight(v) /\ Unhandled(v)' = Unhandled(v)
      /\ InFlight(w)' \subseteq InFlight(w)
      /\ cur'[w] = NoJob \/ pc'[w] \in {"touch", "hook"} => Unhandled(w)' \subseteq jobs[w]
      /\ jobs[w] \subseteq Unhandled(w)
  <2>1. \A v \in Workers \ {w} : InFlight(v)' = InFlight(v) /\ Unhandled(v)' = Unhandled(v)
    BY DEF InFlight, Unhandled
  <2>2. InFlight(w)' \subseteq InFlight(w)
    BY DEF InFlight
  <2>3. cur'[w] = NoJob \/ pc'[w] \in {"touch", "hook"} => Unhandled(w)' \subseteq jobs[w]
    BY DEF InFlight, Unhandled
  <2>4. jobs[w] \subseteq Unhandled(w)
    BY DEF InFlight, Unhandled
  <2> QED
    BY <2>1, <2>2, <2>3, <2>4
<1>3. Locking'
  <2>1. ASSUME NEW v \in Workers \ {w}, NEW d \in locks[v]
        PROVE  d \in PendingDigests(ChatOf[cur[v].integ])'
    <3>1. d \in Ids /\ d # own /\ d \in PendingDigests(ChatOf[cur[v].integ])
      BY <1>1 DEF IInv, Locking, Locked, PendingDigests
    <3> QED
      BY <3>1 DEF PendingDigests, ChatOfRow
  <2> QED
    BY <2>1 DEF IInv, Locking
<1>4. AttemptLeft'
  BY <1>2 DEF IInv, AttemptLeft
<1>5. Recorded'
  <2>1. ASSUME NEW v \in Workers \ {w}, cur[v] # NoJob, cur[v].id \in Ids'
        PROVE  outbox'[cur[v].id].status = outbox[cur[v].id].status
    BY <1>1, <2>1 DEF InFlight
  <2> QED
    BY <2>1 DEF IInv, Recorded
<1>6. ClaimedOnce'
  <2>1. ASSUME NEW r \in Ids', r # own, outbox[r].status = "sending"
        PROVE  r \in Ids /\ outbox'[r].status = outbox[r].status /\ JobOf(r)' = JobOf(r)
    BY <2>1 DEF JobOf
  <2>2. ASSUME NEW v \in Workers, NEW j \in Unhandled(v)
        PROVE  j.id \in Ids => outbox[j.id].status = "sending"
    BY InFlightType DEF IInv, ClaimedOnce
  <2>3. ASSUME NEW v \in Workers \ {w}, NEW j \in Unhandled(v)', j.id \in Ids'
        PROVE  /\ j.id \in Ids /\ j \in Unhandled(v)
               /\ outbox'[j.id].status = outbox[j.id].status /\ JobOf(j.id)' = JobOf(j.id)
    BY <1>1, <1>2, <2>1, <2>2, <2>3, InFlightType DEF IInv
  <2>4. ASSUME NEW j \in Unhandled(w)', j.id \in Ids'
        PROVE  /\ j.id \in Ids /\ j \in Unhandled(w)
               /\ outbox'[j.id].status = outbox[j.id].status /\ JobOf(j.id)' = JobOf(j.id)
    <3>1. CASE j \in jobs[w]
      BY <1>1, <1>2, <2>1, <2>2, <2>4, <3>1
    <3>2. CASE j \notin jobs[w]
      <4>1. j = cur[w] /\ cur'[w] # NoJob /\ pc'[w] \notin {"touch", "hook"}
        BY <1>2, <2>4, <3>2 DEF Unhandled, InFlight
      <4> QED
        BY <2>4, <4>1 DEF Unhandled, InFlight
    <3> QED
      BY <3>1, <3>2
  <2> QED
    <3>1. \A v \in Workers : InFlight(v)' \subseteq InFlight(v)
      BY <1>2
    <3>2. \A v \in Workers : \A j \in Unhandled(v)' : j.id \in Ids' =>
            /\ j.id \in Ids /\ j \in Unhandled(v)
            /\ outbox'[j.id].status = outbox[j.id].status /\ JobOf(j.id)' = JobOf(j.id)
      BY <2>3, <2>4
    <3> QED
      BY <3>1, <3>2, ClaimKept DEF IInv
<1> QED
  BY <1>3, <1>4, <1>5, <1>6 DEF IInv

\* What WithRow does to the table.
LEMMA WithRowIs ==
  ASSUME NEW r, NEW row, outbox' = WithRow(r, row)
  PROVE  /\ Ids' = Ids
         /\ \A x \in Ids : x # r => outbox'[x] = outbox[x]
         /\ r \in Ids => outbox'[r] = row
BY DEF WithRow

\* Steps that end a job leave the worker at the head of its loop.
LEMMA FinishJobIs ==
  ASSUME TypeOK, NEW w \in Workers, FinishJob(w)
  PROVE  /\ pc'[w] = "loop" /\ cur'[w] = NoJob /\ result'[w] = "none"
         /\ \A v \in Workers \ {w} :
              pc'[v] = pc[v] /\ cur'[v] = cur[v] /\ result'[v] = result[v]
         /\ pc' \in [Workers -> {"idle", "loop", "digest", "create", "merge",
                                 "deliver", "record", "touch", "hook"}]
         /\ cur' \in [Workers -> Job \cup {NoJob}]
         /\ result' \in [Workers -> Results \cup {"none"}]
BY DEF FinishJob, Goto, TypeOK

\* ... and obey Control if they leave its batch alone.
LEMMA FinishJobControl ==
  ASSUME TypeOK, Control, NEW w \in Workers, FinishJob(w), jobs' = jobs
  PROVE  Control'
<1>1. /\ pc'[w] = "loop" /\ cur'[w] = NoJob /\ result'[w] = "none"
      /\ \A v \in Workers \ {w} :
           pc'[v] = pc[v] /\ cur'[v] = cur[v] /\ result'[v] = result[v]
  BY FinishJobIs
<1>2. NoJob \notin jobs[w]
  BY NoJobAssumption DEF TypeOK
<1> QED
  BY <1>1, <1>2 DEF Control

\* The end of a batch.
LEMMA BatchDoneIInv ==
  ASSUME NEW w \in Workers, IInv, BatchDone(w)
  PROVE  IInv'
<1>1. /\ pc[w] = "loop" /\ pc'[w] = "idle" /\ jobs[w] = {} /\ cur[w] = NoJob
      /\ \A v \in Workers \ {w} : pc'[v] = pc[v]
      /\ outbox' = outbox /\ live' = live /\ broken' = broken
      /\ jobs' = jobs /\ cur' = cur /\ result' = result /\ locks' = locks
  BY DEF BatchDone, Goto, table, IInv, Control, TypeOK
<1>2. TypeOK'
  BY <1>1 DEF BatchDone, Goto, IInv, TypeOK
<1>3. \A v \in Workers : InFlight(v)' = InFlight(v) /\ Unhandled(v)' = Unhandled(v)
  BY <1>1 DEF InFlight, Unhandled
<1>4. Control' /\ Recorded'
  BY <1>1 DEF IInv, Control, Recorded
<1>5. Locking'
  BY <1>1 DEF IInv, Locking, PendingDigests, ChatOfRow
<1>6. AttemptLeft'
  BY <1>1, <1>3 DEF IInv, AttemptLeft
<1>7. ClaimedOnce'
  BY <1>1, <1>3, ClaimKept DEF IInv, JobOf
<1> QED
  BY <1>2, <1>4, <1>5, <1>6, <1>7 DEF IInv

\* Taking the next job of the batch, with or without the valve's count.
LEMMA StartJobIInv ==
  ASSUME NEW w \in Workers, NEW j \in jobs[w], IInv, StartJob(w, j)
  PROVE  IInv'
<1>1. /\ pc[w] = "loop" /\ pc'[w] \in {"digest", "deliver"} /\ cur[w] = NoJob
      /\ jobs' = [jobs EXCEPT ![w] = jobs[w] \ {j}] /\ cur' = [cur EXCEPT ![w] = j]
      /\ \A v \in Workers \ {w} : pc'[v] = pc[v]
      /\ outbox' = outbox /\ live' = live /\ broken' = broken
      /\ result' = result /\ locks' = locks
  BY DEF StartJob, Goto, table, IInv, Control, TypeOK
<1>2. j \in Job /\ j # NoJob
  BY NoJobAssumption DEF IInv, TypeOK
<1>3. TypeOK'
  <2>1. pc' \in [Workers -> {"idle", "loop", "digest", "create", "merge", "deliver",
                             "record", "touch", "hook"}]
    BY DEF StartJob, Goto, IInv, TypeOK
  <2> QED
    BY <1>1, <1>2, <2>1 DEF IInv, TypeOK
<1>4. \A v \in Workers : InFlight(v)' = InFlight(v) /\ Unhandled(v)' = Unhandled(v)
  <2>1. jobs'[w] = jobs[w] \ {j} /\ cur'[w] = j
    BY <1>1 DEF IInv, TypeOK
  <2>2. \A v \in Workers \ {w} : jobs'[v] = jobs[v] /\ cur'[v] = cur[v]
    BY <1>1 DEF IInv, TypeOK
  <2> QED
    BY <1>1, <1>2, <2>1, <2>2 DEF InFlight, Unhandled
<1>5. Control'
  BY <1>1, <1>2 DEF IInv, Control, TypeOK
<1>6. Locking'
  <2>1. locks[w] = {}
    BY <1>1 DEF IInv, Locking
  <2> QED
    BY <1>1, <2>1 DEF IInv, Locking, TypeOK, PendingDigests, ChatOfRow
<1>7. AttemptLeft'
  BY <1>1, <1>4 DEF IInv, AttemptLeft
<1>8. Recorded'
  BY <1>1 DEF IInv, Recorded, TypeOK
<1>9. ClaimedOnce'
  BY <1>1, <1>4, ClaimKept DEF IInv, JobOf
<1> QED
  BY <1>3, <1>5, <1>6, <1>7, <1>8, <1>9 DEF IInv

\* The digest that LoadDigest locks is pending and locked by nobody else.
LEMMA LoadDigestIInv ==
  ASSUME NEW w \in Workers, IInv, LoadDigest(w)
  PROVE  IInv'
<1> DEFINE found == PendingDigests(ChatOf[cur[w].integ])
<1>1. /\ pc[w] = "digest" /\ pc'[w] \in {"create", "merge"}
      /\ found # {} => pc'[w] = "merge"
      /\ \A v \in Workers \ {w} : pc'[v] = pc[v]
      /\ locks' = [locks EXCEPT ![w] = found] /\ found \cap Locked = {}
      /\ outbox' = outbox /\ live' = live /\ broken' = broken
      /\ jobs' = jobs /\ cur' = cur /\ result' = result
  BY DEF LoadDigest, Goto, table, IInv, TypeOK
<1>2. TypeOK'
  <2>1. pc' \in [Workers -> {"idle", "loop", "digest", "create", "merge", "deliver",
                             "record", "touch", "hook"}]
    BY DEF LoadDigest, Goto, IInv, TypeOK
  <2>2. found \subseteq Rows
    BY DEF PendingDigests, IInv, TypeOK
  <2> HIDE DEF found
  <2> QED
    BY <1>1, <2>1, <2>2 DEF IInv, TypeOK
<1>3. \A v \in Workers : InFlight(v)' = InFlight(v) /\ Unhandled(v)' = Unhandled(v)
  BY <1>1 DEF InFlight, Unhandled
<1>4. Control' /\ Recorded'
  BY <1>1 DEF IInv, Control, Recorded
<1>5. Locking'
  <2>1. \A v \in Workers \ {w} : locks'[v] = locks[v]
    BY <1>1 DEF IInv, TypeOK
  <2>2. locks'[w] = found
    BY <1>1 DEF IInv, TypeOK
  <2>3. \A v \in Workers \ {w} : locks[v] \cap found = {}
    BY <1>1 DEF Locked
  <2>4. \A v \in Workers : \A d \in locks'[v] : d \in PendingDigests(ChatOf[cur[v].integ])'
    <3>1. outbox' = outbox /\ cur' = cur
      BY <1>1
    <3>2. ASSUME NEW v \in Workers
          PROVE  PendingDigests(ChatOf[cur[v].integ])' = PendingDigests(ChatOf[cur[v].integ])
      BY <3>1 DEF PendingDigests, ChatOfRow
    <3>3. \A v \in Workers \ {w} : \A d \in locks[v] : d \in PendingDigests(ChatOf[cur[v].integ])
      BY DEF IInv, Locking
    <3> HIDE DEF found
    <3>4. \A v \in Workers \ {w} : \A d \in locks'[v] : d \in PendingDigests(ChatOf[cur[v].integ])'
      BY <2>1, <3>2, <3>3
    <3>5. \A d \in locks'[w] : d \in PendingDigests(ChatOf[cur[w].integ])'
      BY <2>2, <3>2 DEF found
    <3> QED
      BY <3>4, <3>5
  <2> HIDE DEF found
  <2>5. \A v \in Workers : locks'[v] # {} => pc'[v] = "merge"
    BY <1>1, <2>1, <2>2 DEF IInv, Locking
  <2>6. \A v, u \in Workers : u # v => locks'[u] \cap locks'[v] = {}
    BY <2>1, <2>2, <2>3 DEF IInv, Locking
  <2> QED
    BY <2>4, <2>5, <2>6 DEF Locking
<1>6. AttemptLeft'
  BY <1>1, <1>3 DEF IInv, AttemptLeft
<1>7. ClaimedOnce'
  BY <1>1, <1>3, ClaimKept DEF IInv, JobOf
<1> QED
  BY <1>2, <1>4, <1>5, <1>6, <1>7 DEF IInv

\* The job's own row becomes the digest: it is pending again, and nobody's.
LEMMA CreateDigestIInv ==
  ASSUME NEW w \in Workers, IInv, CreateDigest(w)
  PROVE  IInv'
<1> DEFINE r == cur[w].id
<1>1. pc[w] = "create" /\ cur[w] # NoJob /\ FinishJob(w) /\ live' = live /\ broken' = broken
      /\ jobs' = jobs /\ locks' = locks /\ locks[w] = {}
  BY DEF CreateDigest, IInv, Control, Locking
<1>2. /\ Ids' = Ids
      /\ \A x \in Ids : x # r => outbox'[x] = outbox[x]
      /\ r \in Ids => outbox'[r] = [outbox[r] EXCEPT !.kind = "digest", !.items = {r},
                                                     !.status = "pending", !.due = Minute]
  BY WithRowIs DEF CreateDigest
<1>3. r \in Ids => /\ outbox[r] \in Row /\ outbox[r].attempts < MaxAttempts
                   /\ outbox'[r] \in Row /\ outbox'[r].attempts = outbox[r].attempts
  <2> SUFFICES ASSUME r \in Ids
               PROVE  /\ outbox[r] \in Row /\ outbox[r].attempts < MaxAttempts
                      /\ outbox'[r] \in Row /\ outbox'[r].attempts = outbox[r].attempts
    OBVIOUS
  <2>1. outbox[r] \in Row /\ r \in Rows
    BY DEF IInv, TypeOK
  <2>2. outbox[r].attempts < MaxAttempts
    BY <1>1, OwnRow DEF IInv, AttemptLeft
  <2>3. outbox'[r] \in Row
    <3> HIDE DEF r
    <3>1. [outbox[r] EXCEPT !.kind = "digest", !.items = {r},
                            !.status = "pending", !.due = Minute] \in Row
      BY <2>1, DigestRow
    <3> QED
      BY <1>2, <3>1
  <2>4. outbox'[r].attempts = outbox[r].attempts
    BY <1>2, <2>1 DEF Row
  <2> QED
    BY <2>1, <2>2, <2>3, <2>4
<1>4. TypeOK'
  BY <1>1, <1>2, <1>3, FinishJobIs DEF IInv, TypeOK
<1>5. Control'
  BY <1>1, FinishJobControl DEF IInv
<1> QED
  BY <1>1, <1>2, <1>3, <1>4, <1>5, FinishJobIs, JobStepKept DEF IInv

\* Merging changes a locked digest and deletes the job's own row.
LEMMA MergeDigestIInv ==
  ASSUME NEW w \in Workers, IInv, MergeDigest(w)
  PROVE  IInv'
<1> DEFINE r == cur[w].id
<1>1. PICK d \in locks[w] :
        outbox' = [x \in Ids \ {r} |-> IF x = d THEN Merged(d, cur[w]) ELSE outbox[x]]
  BY DEF MergeDigest
<1>2. /\ pc[w] = "merge" /\ cur[w] # NoJob /\ FinishJob(w) /\ live' = live /\ broken' = broken
      /\ jobs' = jobs /\ locks' = [locks EXCEPT ![w] = {}]
  BY DEF MergeDigest, IInv, Control
<1>3. /\ Ids' = Ids \ {r}
      /\ \A x \in Ids' : x # d => outbox'[x] = outbox[x]
      /\ d \in Ids' => outbox'[d] = Merged(d, cur[w])
  BY <1>1
<1>4. d \in Ids /\ outbox[d] \in Row /\ outbox[d].status = "pending"
  BY DEF IInv, TypeOK, Locking, PendingDigests
<1>5. cur[w] \in Job /\ r \in Rows
  BY <1>2, OwnRow DEF Job
<1>6. /\ Merged(d, cur[w]) \in Row
      /\ Merged(d, cur[w]).status = outbox[d].status
      /\ Merged(d, cur[w]).integ = outbox[d].integ
      /\ Merged(d, cur[w]).kind = outbox[d].kind
      /\ Merged(d, cur[w]).attempts = outbox[d].attempts
  <2> DEFINE I == outbox[d].items \cup {r}
             full == [outbox[d] EXCEPT !.items = I, !.due = Minute]
  <2>1. I \in SUBSET Rows
    BY <1>4, <1>5 DEF Row
  <2>2. full \in Row
    BY <1>4, <2>1, MergedRow
  <2>3. /\ full.status = outbox[d].status /\ full.integ = outbox[d].integ
        /\ full.kind = outbox[d].kind /\ full.attempts = outbox[d].attempts
    BY <1>4 DEF Row
  <2>4. Merged(d, cur[w]) = full \/ Merged(d, cur[w]) = outbox[d]
    BY DEF Merged
  <2> HIDE DEF full
  <2> QED
    BY <1>4, <2>2, <2>3, <2>4
<1>7. TypeOK'
  <2>1. Ids' \subseteq Rows /\ \A x \in Ids' : outbox'[x] \in Row
    BY <1>3, <1>6 DEF IInv, TypeOK
  <2>2. locks' \in [Workers -> SUBSET Rows]
    BY <1>2 DEF IInv, TypeOK
  <2> QED
    BY <1>2, <2>1, <2>2, FinishJobIs DEF IInv, TypeOK
<1>8. Control'
  BY <1>2, FinishJobControl DEF IInv
<1>9. locks'[w] = {} /\ \A v \in Workers \ {w} : locks'[v] = locks[v]
  BY <1>2 DEF IInv, TypeOK
<1>10. \A x \in Ids' \ {r} :
         /\ outbox'[x].status = outbox[x].status /\ outbox'[x].integ = outbox[x].integ
         /\ outbox'[x].kind = outbox[x].kind /\ outbox'[x].attempts = outbox[x].attempts
         /\ outbox[x].status = "sending" => outbox'[x].items = outbox[x].items
  BY <1>3, <1>4, <1>6
<1> QED
  BY <1>2, <1>3, <1>7, <1>8, <1>9, <1>10, FinishJobIs, JobStepKept DEF IInv

\* The Telegram calls change no column, only what the worker knows.
LEMMA DeliverIInv ==
  ASSUME NEW w \in Workers, NEW res \in Results, IInv, Deliver(w, res)
  PROVE  IInv'
<1> DEFINE r == cur[w].id
<1>1. /\ pc[w] = "deliver" /\ cur[w] # NoJob /\ live' = live /\ broken' = broken
      /\ jobs' = jobs /\ cur' = cur /\ locks' = locks /\ locks[w] = {}
      /\ pc' = [pc EXCEPT ![w] = "record"] /\ result' = [result EXCEPT ![w] = res]
  BY DEF Deliver, Goto, IInv, Control, Locking
<1>2. /\ Ids' = Ids
      /\ \A x \in Ids : x # r => outbox'[x] = outbox[x]
      /\ r \in Ids => outbox'[r] = [outbox[r] EXCEPT !.calls = @ + 1, !.acked = @ \/ res = "ok"]
  BY WithRowIs DEF Deliver
<1>3. r \in Ids => /\ outbox[r] \in Row /\ outbox'[r] \in Row
                   /\ outbox'[r].status = outbox[r].status
                   /\ outbox'[r].attempts = outbox[r].attempts /\ JobOf(r)' = JobOf(r)
  <2> SUFFICES ASSUME r \in Ids
               PROVE  /\ outbox[r] \in Row /\ outbox'[r] \in Row
                      /\ outbox'[r].status = outbox[r].status
                      /\ outbox'[r].attempts = outbox[r].attempts /\ JobOf(r)' = JobOf(r)
    OBVIOUS
  <2>1. outbox[r] \in Row
    BY DEF IInv, TypeOK
  <2>2. outbox'[r] \in Row
    BY <1>2, <2>1, DeliveredRow
  <2>3. /\ outbox'[r].status = outbox[r].status /\ outbox'[r].integ = outbox[r].integ
        /\ outbox'[r].kind = outbox[r].kind /\ outbox'[r].items = outbox[r].items
        /\ outbox'[r].attempts = outbox[r].attempts
    BY <1>2, <2>1 DEF Row
  <2>4. JobOf(r)' = JobOf(r)
    BY <1>1, <2>3 DEF JobOf
  <2> QED
    BY <2>1, <2>2, <2>3, <2>4
<1>4. res # "none"
  BY DEF Results
<1>5. TypeOK'
  BY <1>1, <1>2, <1>3 DEF IInv, TypeOK
<1>6. Control'
  BY <1>1, <1>4 DEF IInv, Control, TypeOK
<1>7. r \in Ids => outbox[r].attempts < MaxAttempts
  BY <1>1, OwnRow DEF IInv, AttemptLeft
<1>8. pc'[w] = "record" /\ \A v \in Workers \ {w} : pc'[v] = pc[v]
  BY <1>1 DEF IInv, TypeOK
<1> QED
  BY <1>1, <1>2, <1>3, <1>5, <1>6, <1>7, <1>8, JobStepKept

\* Recording a delivery.
LEMMA RecordSentIInv ==
  ASSUME NEW w \in Workers, IInv, RecordSent(w)
  PROVE  IInv'
<1> DEFINE r == cur[w].id
<1>1. /\ pc[w] = "record" /\ result[w] = "ok" /\ cur[w] # NoJob
      /\ live' = live /\ broken' = broken /\ jobs' = jobs /\ cur' = cur
      /\ result' = result /\ locks' = locks /\ locks[w] = {}
      /\ pc' = [pc EXCEPT ![w] = "touch"]
  BY DEF RecordSent, Goto, IInv, Control, Locking
<1>2. /\ Ids' = Ids
      /\ \A x \in Ids : x # r => outbox'[x] = outbox[x]
      /\ r \in Ids => outbox'[r] = [outbox[r] EXCEPT !.status = "sent", !.age = 0,
                                                     !.attempts = @ + 1]
  BY WithRowIs DEF RecordSent
<1>3. r \in Ids => outbox'[r] \in Row /\ outbox'[r].status = "sent"
  <2> SUFFICES ASSUME r \in Ids PROVE outbox'[r] \in Row /\ outbox'[r].status = "sent"
    OBVIOUS
  <2>1. outbox[r] \in Row
    BY DEF IInv, TypeOK
  <2>2. outbox[r].attempts < MaxAttempts
    BY <1>1, OwnRow DEF IInv, AttemptLeft
  <2> HIDE DEF r
  <2>3. outbox'[r] \in Row
    BY <1>2, <2>1, <2>2, SentRow
  <2> QED
    BY <1>2, <2>1, <2>3 DEF Row
<1>4. TypeOK'
  BY <1>1, <1>2, <1>3 DEF IInv, TypeOK
<1>5. Control'
  BY <1>1 DEF IInv, Control, TypeOK
<1>6. pc'[w] = "touch" /\ \A v \in Workers \ {w} : pc'[v] = pc[v]
  BY <1>1 DEF IInv, TypeOK
<1> QED
  BY <1>1, <1>2, <1>3, <1>4, <1>5, <1>6, JobStepKept

\* Recording the integration's last event, the end of a delivered job.
LEMMA TouchIntegrationIInv ==
  ASSUME NEW w \in Workers, IInv, TouchIntegration(w)
  PROVE  IInv'
<1>1. /\ pc[w] = "touch" /\ cur[w] # NoJob /\ FinishJob(w) /\ locks[w] = {}
      /\ outbox' = outbox /\ live' = live /\ broken' = broken /\ jobs' = jobs /\ locks' = locks
  BY DEF TouchIntegration, table, IInv, Control, Locking
<1>2. TypeOK'
  BY <1>1, FinishJobIs DEF IInv, TypeOK
<1>3. Control'
  BY <1>1, FinishJobControl DEF IInv
<1>4. cur[w].id \in Ids => outbox[cur[w].id].status = "sent"
  BY <1>1 DEF IInv, Recorded
<1> QED
  BY <1>1, <1>2, <1>3, <1>4, FinishJobIs, JobStepKept DEF IInv

\* Recording that a row is given up.
LEMMA RecordFailedIInv ==
  ASSUME NEW w \in Workers, IInv, RecordFailed(w)
  PROVE  IInv'
<1> DEFINE r == cur[w].id
           n == Attempt(cur[w])
<1>1. /\ pc[w] = "record" /\ result[w] # "ok" /\ cur[w] # NoJob
      /\ live' = live /\ broken' = broken /\ jobs' = jobs /\ cur' = cur
      /\ result' = result /\ locks' = locks /\ locks[w] = {}
      /\ pc' = [pc EXCEPT ![w] = "hook"]
  BY DEF RecordFailed, Goto, IInv, Control, Locking
<1>2. /\ Ids' = Ids
      /\ \A x \in Ids : x # r => outbox'[x] = outbox[x]
      /\ r \in Ids => outbox'[r] = [outbox[r] EXCEPT !.status = "failed", !.attempts = n]
  BY WithRowIs DEF RecordFailed
<1>3. n \in 0..MaxAttempts
  BY <1>1, OwnRow DEF Attempt, Job
<1>4. r \in Ids => outbox'[r] \in Row /\ outbox'[r].status = "failed"
  <2> SUFFICES ASSUME r \in Ids PROVE outbox'[r] \in Row /\ outbox'[r].status = "failed"
    OBVIOUS
  <2>1. outbox[r] \in Row
    BY DEF IInv, TypeOK
  <2> HIDE DEF r, n
  <2>2. outbox'[r] \in Row
    BY <1>2, <1>3, <2>1, FailedRow
  <2> QED
    BY <1>2, <2>1, <2>2 DEF Row
<1>5. TypeOK'
  BY <1>1, <1>2, <1>4 DEF IInv, TypeOK
<1>6. Control'
  BY <1>1 DEF IInv, Control, TypeOK
<1>7. pc'[w] = "hook" /\ \A v \in Workers \ {w} : pc'[v] = pc[v]
  BY <1>1 DEF IInv, TypeOK
<1> QED
  BY <1>1, <1>2, <1>4, <1>5, <1>6, <1>7, JobStepKept

\* Telling the owner, and marking the integration broken.
LEMMA OnPermanentIInv ==
  ASSUME NEW w \in Workers, IInv, OnPermanent(w)
  PROVE  IInv'
<1> DEFINE r == cur[w].id
<1>1. /\ pc[w] = "hook" /\ cur[w] # NoJob /\ FinishJob(w) /\ locks[w] = {}
      /\ live' = live /\ jobs' = jobs /\ locks' = locks
  BY DEF OnPermanent, IInv, Control, Locking
<1>2. broken' \subseteq live'
  BY DEF OnPermanent, IInv, TypeOK
<1>3. \/ outbox' = outbox
      \/ outbox' = WithRow(r, [outbox[r] EXCEPT !.told = @ + 1])
  BY DEF OnPermanent
<1>4. /\ Ids' = Ids
      /\ \A x \in Ids : x # r => outbox'[x] = outbox[x]
      /\ r \in Ids => outbox'[r] = outbox[r] \/ outbox'[r] = [outbox[r] EXCEPT !.told = @ + 1]
  BY <1>3, WithRowIs
<1>5. r \in Ids => outbox'[r] \in Row /\ outbox'[r].status = "failed"
  <2> SUFFICES ASSUME r \in Ids PROVE outbox'[r] \in Row /\ outbox'[r].status = "failed"
    OBVIOUS
  <2>1. outbox[r] \in Row /\ outbox[r].status = "failed"
    BY <1>1 DEF IInv, TypeOK, Recorded
  <2> HIDE DEF r
  <2>2. [outbox[r] EXCEPT !.told = @ + 1] \in Row
    BY <2>1, OneColumn
  <2> QED
    BY <1>4, <2>1, <2>2 DEF Row
<1>6. TypeOK'
  BY <1>1, <1>2, <1>4, <1>5, FinishJobIs DEF IInv, TypeOK
<1>7. Control'
  BY <1>1, FinishJobControl DEF IInv
<1> QED
  BY <1>1, <1>4, <1>5, <1>6, <1>7, FinishJobIs, JobStepKept DEF IInv

\* Rescheduling a row, which has an attempt left or would be given up.
LEMMA RecordRetryIInv ==
  ASSUME NEW w \in Workers, IInv, RecordRetry(w)
  PROVE  IInv'
<1> DEFINE r == cur[w].id
           n == Attempt(cur[w])
           d == Backoff(n)
<1>1. /\ pc[w] = "record" /\ cur[w] # NoJob /\ FinishJob(w) /\ locks[w] = {}
      /\ live' = live /\ broken' = broken /\ jobs' = jobs /\ locks' = locks
  BY DEF RecordRetry, IInv, Control, Locking
<1>2. /\ Ids' = Ids
      /\ \A x \in Ids : x # r => outbox'[x] = outbox[x]
      /\ r \in Ids => outbox'[r] = [outbox[r] EXCEPT !.status = "pending", !.attempts = n,
                                                     !.due = d]
  BY WithRowIs DEF RecordRetry
<1>3. n \in 0..MaxAttempts /\ n < MaxAttempts /\ d \in Int
  <2>1. n \in Nat /\ n <= MaxAttempts
    BY <1>1, OwnRow DEF Attempt, Job
  <2>2. n < MaxAttempts
    BY <2>1 DEF RecordRetry, GivesUp
  <2>3. d \in Nat
    BY <2>1, BackoffType
  <2> QED
    BY <2>1, <2>2, <2>3
<1>4. r \in Ids => outbox'[r] \in Row /\ outbox'[r].attempts = n
  <2> SUFFICES ASSUME r \in Ids PROVE outbox'[r] \in Row /\ outbox'[r].attempts = n
    OBVIOUS
  <2>1. outbox[r] \in Row
    BY DEF IInv, TypeOK
  <2> HIDE DEF r, n, d
  <2>2. outbox'[r] \in Row
    <3>1. [outbox[r] EXCEPT !.status = "pending", !.attempts = n, !.due = d] \in Row
      BY <1>3, <2>1, RetriedRow
    <3> QED
      BY <1>2, <3>1
  <2> QED
    BY <1>2, <2>1, <2>2 DEF Row
<1>5. TypeOK'
  BY <1>1, <1>2, <1>4, FinishJobIs DEF IInv, TypeOK
<1>6. Control'
  BY <1>1, FinishJobControl DEF IInv
<1> QED
  BY <1>1, <1>2, <1>3, <1>4, <1>5, <1>6, FinishJobIs, JobStepKept DEF IInv

\* A failed statement, a stop or a crash: the workers concerned forget what they
\* had, and the rows they had claimed stay "sending".
LEMMA DropIInv ==
  ASSUME NEW W \in SUBSET Workers, IInv, Drop(W)
  PROVE  IInv'
<1>1. \A w \in W : /\ pc'[w] = "idle" /\ jobs'[w] = {} /\ cur'[w] = NoJob
                   /\ result'[w] = "none" /\ locks'[w] = {}
  BY DEF Drop
<1>2. \A w \in Workers \ W : /\ pc'[w] = pc[w] /\ jobs'[w] = jobs[w] /\ cur'[w] = cur[w]
                             /\ result'[w] = result[w] /\ locks'[w] = locks[w]
  BY DEF Drop
<1>3. outbox' = outbox /\ live' = live /\ broken' = broken
  BY DEF Drop, table
<1>4. TypeOK'
  BY <1>3 DEF IInv, TypeOK, Drop
<1>5. \A w \in Workers : InFlight(w)' \subseteq InFlight(w) /\ Unhandled(w)' \subseteq Unhandled(w)
  BY <1>1, <1>2 DEF InFlight, Unhandled
<1>6. Control' /\ Recorded'
  BY <1>1, <1>2, <1>3 DEF IInv, Control, Recorded
<1>7. Locking'
  BY <1>1, <1>2, <1>3 DEF IInv, Locking, PendingDigests, ChatOfRow
<1>8. AttemptLeft'
  BY <1>3, <1>5 DEF IInv, AttemptLeft
<1>9. ClaimedOnce'
  BY <1>3, <1>5, ClaimKept DEF IInv, JobOf
<1> QED
  BY <1>4, <1>6, <1>7, <1>8, <1>9 DEF IInv

-----------------------------------------------------------------------------
(***************************************************************************)
(* The theorems.                                                           *)
(***************************************************************************)
\* Every step keeps the invariant.
LEMMA NextIInv == IInv /\ [Next]_vars => IInv'
<1> SUFFICES ASSUME IInv, [Next]_vars PROVE IInv'
  OBVIOUS
<1>1. CASE Environment
  <2>1. CASE \E r \in Rows, i \in Integrations : Enqueue(r, i)
    BY <2>1, EnqueueIInv
  <2>2. CASE Tick
    BY <2>2, TickIInv
  <2>3. CASE Sweep
    BY <2>3, SweepIInv
  <2>4. CASE \E i \in Integrations : DeleteIntegration(i)
    BY <2>4, DeleteIntegrationsIInv DEF DeleteIntegration
  <2>5. CASE \E c \in Chats : DeleteChat(c)
    BY <2>5, DeleteIntegrationsIInv DEF DeleteChat
  <2>6. CASE \E c \in Chats : ClearChatIntegrationsBroken(c)
    BY <2>6, ClearBrokenIInv
  <2> QED
    BY <1>1, <2>1, <2>2, <2>3, <2>4, <2>5, <2>6 DEF Environment
<1>2. ASSUME NEW w \in Workers, Claim(w) PROVE IInv'
  BY <1>2, ClaimIInv DEF Claim
<1>3. ASSUME NEW w \in Workers, Finish(w) PROVE IInv'
  BY <1>3, LoadDigestIInv, CreateDigestIInv, MergeDigestIInv, DeliverIInv, RecordSentIInv,
     TouchIntegrationIInv, RecordFailedIInv, OnPermanentIInv, RecordRetryIInv DEF Finish
<1>4. ASSUME NEW w \in Workers, Work(w) PROVE IInv'
  BY <1>3, <1>4, BatchDoneIInv, StartJobIInv DEF Work
<1>5. ASSUME NEW w \in Workers, DbError(w) PROVE IInv'
  BY <1>5, DropIInv DEF DbError
<1>6. CASE Crash
  BY <1>6, DropIInv DEF Crash
<1>7. CASE UNCHANGED vars
  BY <1>7 DEF vars, table, memory, IInv, TypeOK, Control, Locking, AttemptLeft, Recorded,
     ClaimedOnce, InFlight, Unhandled, JobOf, PendingDigests, ChatOfRow
<1> QED
  BY <1>1, <1>2, <1>4, <1>5, <1>6, <1>7 DEF Next

\* The inductive invariant holds in every reachable state.
THEOREM Invariance == Spec => []IInv
<1> QED
  BY InitIInv, NextIInv, PTL DEF Spec

\* Every variable always has its type: the table's counters stay in their ranges
\* (attempts never passes MaxAttempts, whatever the schedule and the order of
\* retries, merges and crashes), and every reference is to what may exist.
THEOREM TypeCorrect == Spec => []TypeOK
<1>1. IInv => TypeOK
  BY DEF IInv
<1> QED
  BY <1>1, Invariance, PTL

\* Whatever the number of workers and whichever of them fail: no row is ever in
\* the hands of two, and until its outcome is recorded it is as it was claimed.
THEOREM NoRowClaimedTwice == Spec => []ClaimedOnce
<1>1. IInv => ClaimedOnce
  BY DEF IInv
<1> QED
  BY <1>1, Invariance, PTL
-----------------------------------------------------------------------------
\* Only a claim and the steps of the worker whose job it is change a row's
\* status: the first takes pending rows, the others find their row "sending".
LEMMA StatusStep ==
  ASSUME IInv, [Next]_vars, NEW r \in Ids, r \in Ids',
         outbox'[r].status # outbox[r].status
  PROVE  outbox[r].status \in {"pending", "sending"}
<1> DEFINE OpenRow == outbox[r].status \in {"pending", "sending"}
<1>1. outbox[r] \in Row
  BY DEF IInv, TypeOK
<1>2. CASE Environment
  <2>1. CASE \E x \in Rows, i \in Integrations : Enqueue(x, i)
    BY <2>1 DEF Enqueue
  <2>2. CASE Tick
    BY <1>1, <2>2 DEF Tick, Row
  <2>3. CASE Sweep
    BY <2>3 DEF Sweep, Without
  <2>4. CASE \E i \in Integrations : DeleteIntegration(i)
    BY <2>4 DEF DeleteIntegration, DeleteIntegrations, Without
  <2>5. CASE \E c \in Chats : DeleteChat(c)
    BY <2>5 DEF DeleteChat, DeleteIntegrations, Without
  <2>6. CASE \E c \in Chats : ClearChatIntegrationsBroken(c)
    BY <2>6 DEF ClearChatIntegrationsBroken
  <2> QED
    BY <1>2, <2>1, <2>2, <2>3, <2>4, <2>5, <2>6 DEF Environment
<1>3. ASSUME NEW w \in Workers, Claim(w) PROVE OpenRow
  BY <1>1, <1>3 DEF Claim, ClaimRows, Claimable, Row
<1>4. ASSUME NEW w \in Workers, Work(w) PROVE OpenRow
  <2>1. ASSUME cur[w] # NoJob, pc[w] \notin {"touch", "hook"}, r = cur[w].id
        PROVE  OpenRow
    BY <2>1, OwnRow
  <2>2. CASE BatchDone(w) \/ (\E j \in jobs[w] : StartJob(w, j)) \/ LoadDigest(w)
               \/ TouchIntegration(w)
    BY <2>2 DEF BatchDone, StartJob, LoadDigest, TouchIntegration, table
  <2>3. CASE CreateDigest(w)
    BY <2>1, <2>3 DEF CreateDigest, WithRow, IInv, Control
  <2>4. CASE MergeDigest(w)
    <3>1. PICK d \in locks[w] :
            outbox' = [x \in Ids \ {cur[w].id} |->
                         IF x = d THEN Merged(d, cur[w]) ELSE outbox[x]]
      BY <2>4 DEF MergeDigest
    <3> QED
      BY <1>1, <3>1 DEF IInv, Locking, PendingDigests
  <2>5. ASSUME NEW res \in Results, Deliver(w, res) PROVE OpenRow
    BY <1>1, <2>1, <2>5 DEF Deliver, WithRow, IInv, Control
  <2>6. CASE RecordSent(w) \/ RecordFailed(w) \/ RecordRetry(w)
    BY <2>1, <2>6 DEF RecordSent, RecordFailed, RecordRetry, WithRow, IInv, Control
  <2>7. CASE OnPermanent(w)
    <3>1. outbox'[r] = [outbox[r] EXCEPT !.told = @ + 1] \/ outbox'[r] = outbox[r]
      BY <2>7 DEF OnPermanent, WithRow
    <3> QED
      BY <1>1, <3>1 DEF Row
  <2> QED
    BY <1>4, <2>2, <2>3, <2>4, <2>5, <2>6, <2>7 DEF Work, Finish
<1>5. CASE Crash \/ \E w \in Workers : DbError(w)
  BY <1>5 DEF Crash, DbError, Drop, table
<1>6. CASE UNCHANGED vars
  BY <1>6 DEF vars, table
<1>7. Environment \/ Crash \/ UNCHANGED vars
        \/ \E w \in Workers : Claim(w) \/ Work(w) \/ DbError(w)
  BY DEF Next
<1> QED
  BY <1>2, <1>3, <1>4, <1>5, <1>6, <1>7, Zenon

\* Sent and failed are final, for any number of workers and whatever fails: no
\* late answer, merge, retry or crash brings a finished row back.
THEOREM OutcomesAreFinal == Spec => OutcomeIsFinal
<1>1. IInv /\ [Next]_vars =>
        [\A r \in Ids \cap Ids' :
           outbox[r].status \in {"sent", "failed"} => outbox'[r].status = outbox[r].status]_vars
  BY StatusStep
<1> QED
  BY <1>1, Invariance, PTL DEF Spec, OutcomeIsFinal
=============================================================================
