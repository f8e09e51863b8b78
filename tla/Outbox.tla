------------------------------- MODULE Outbox --------------------------------
(***************************************************************************)
(* The durable delivery queue of internal/outbox: the outbox table, the    *)
(* pool of workers that drain it (cmd/bot/main.go starts Workers of them), *)
(* the per-chat rate valve with its digests, and what the rest of the      *)
(* program does to the table: the webhook path inserts rows, the janitor   *)
(* sweeps finished ones, and deleting an integration or a chat cascades.   *)
(*                                                                         *)
(* Every step below is one database transaction or one call outside the    *)
(* database (a Telegram send, the hook).  What a worker keeps between two  *)
(* steps is what it holds in memory, and is lost when the process stops.   *)
(*                                                                         *)
(* Time is relative: a pending row counts down to its scheduled_at, a sent *)
(* one counts up from its sent_at, and both counters saturate once no      *)
(* query can tell larger values apart.  The clock itself is unbounded.     *)
(*                                                                         *)
(* A definition whose name extends the name of the one it precedes         *)
(* (ClaimableTwice, Claimable) is that one with a plausible mistake in it, *)
(* a dropped condition or an off-by-one.  Nothing uses it but the mutation *)
(* runs of PROJECT.json, which show that a property notices the mistake.   *)
(***************************************************************************)
EXTENDS Integers, Sequences, FiniteSets

CONSTANTS
  Rows,           \* outbox ids; an id is used again once nothing refers to it
  Workers,
  Integrations,
  Chats,
  ChatOf,         \* the chat of an integration
  BatchSize,
  MaxAttempts,
  MaxItems,       \* kinds a digest lists at most
  ChatPerMinute,  \* 0 turns the rate valve off
  Minute,         \* the valve's window, and how long a digest is held back
  Schedule,       \* the backoff schedule
  MaxLate,        \* lateness beyond which overdue rows are not told apart
  Faults,         \* which of {"db", "net", "crash"} may happen
  NoJob

ASSUME WorkersAssumption  == Workers # {} /\ IsFiniteSet(Workers)
ASSUME RowsAssumption     == IsFiniteSet(Rows)
ASSUME ChatAssumption     == ChatOf \in [Integrations -> Chats]
ASSUME BoundsAssumption   ==
  /\ BatchSize \in Nat \ {0} /\ MaxAttempts \in Nat \ {0}
  /\ MaxItems \in Nat \ {0}  /\ ChatPerMinute \in Nat
  /\ Minute \in Nat \ {0}    /\ MaxLate \in Nat
ASSUME ScheduleAssumption == Schedule \in Seq(Nat) /\ Schedule # << >>
ASSUME FaultsAssumption   == Faults \subseteq {"db", "net", "crash"}

VARIABLES
  outbox,   \* the table: a function from the ids that exist to their rows
  live,     \* integrations that exist
  broken,   \* integrations whose broken_reason is set
  pc,       \* where each worker is in Run
  jobs,     \* the jobs of its batch a worker has not started
  cur,      \* the job it is working on
  result,   \* what Deliver returned for it
  locks     \* pending digests its open transaction has locked

table  == <<outbox, live, broken>>
memory == <<pc, jobs, cur, result, locks>>
vars   == <<table, memory>>

(***************************************************************************)
(* Data.  items is the payload: the events the message reports, one for a  *)
(* plain row, the merged list for a digest.  A digest is the only row with *)
(* a group key, digest:<chat>.                                             *)
(*                                                                         *)
(* The last three fields are no columns but what the outside has seen of   *)
(* the row: the Deliver calls made for it, whether one of them returned    *)
(* nil, and the messages to its owner that it was given up.  No step reads *)
(* them.                                                                   *)
(***************************************************************************)
Row == [status: {"pending", "sending", "sent", "failed"}, integ: Integrations,
        kind: {"event", "digest"}, items: SUBSET Rows, due: Int,
        attempts: 0..MaxAttempts, age: 0..Minute,
        calls: Nat, acked: BOOLEAN, told: Nat]

NewRow(r, i) ==
  [status |-> "pending", integ |-> i, kind |-> "event", items |-> {r}, due |-> 0,
   attempts |-> 0, age |-> 0, calls |-> 0, acked |-> FALSE, told |-> 0]

Job == [id: Rows, integ: Integrations, kind: {"event", "digest"},
        items: SUBSET Rows, attempts: 0..MaxAttempts]

Results == {"ok", "retry", "permanent", "kicked"}

ASSUME NoJobAssumption == NoJob \notin Job

Ids      == DOMAIN outbox
ChatOfRow(r) == ChatOf[outbox[r].integ]
InFlight(w) == jobs[w] \cup ({cur[w]} \ {NoJob})
Unhandled(w) == IF pc[w] \in {"touch", "hook"} THEN jobs[w] ELSE InFlight(w)
Carried  == UNION {outbox[r].items : r \in Ids}
Held     == UNION {{j.id} \cup j.items : j \in UNION {InFlight(w) : w \in Workers}}
Locked   == UNION {locks[w] : w \in Workers}

JobOf(r) == [id |-> r, integ |-> outbox[r].integ, kind |-> outbox[r].kind,
             items |-> outbox[r].items, attempts |-> outbox[r].attempts]

\* UPDATE ... WHERE id = r: no effect when the row is gone.
WithRow(r, row) == [x \in Ids |-> IF x = r THEN row ELSE outbox[x]]
Without(S)      == [x \in Ids \ S |-> outbox[x]]

Init ==
  /\ outbox = [r \in {} |-> NoJob]
  /\ live = Integrations
  /\ broken = {}
  /\ pc = [w \in Workers |-> "idle"]
  /\ jobs = [w \in Workers |-> {}]
  /\ cur = [w \in Workers |-> NoJob]
  /\ result = [w \in Workers |-> "none"]
  /\ locks = [w \in Workers |-> {}]

-----------------------------------------------------------------------------
(***************************************************************************)
(* The rest of the program.                                                *)
(***************************************************************************)

\* Queue.Enqueue with no delay, which is how every caller uses it.  The
\* foreign key is what makes it fail for a deleted integration.
Enqueue(r, i) ==
  /\ r \notin Ids \cup Carried \cup Held
  /\ i \in live
  /\ outbox' = [x \in Ids \cup {r} |-> IF x = r THEN NewRow(r, i) ELSE outbox[x]]
  /\ UNCHANGED <<live, broken, memory>>

\* A clock tick, as the queries see it.
Tick ==
  /\ outbox' = [r \in Ids |->
       CASE outbox[r].status = "pending" /\ outbox[r].due > -MaxLate
              -> [outbox[r] EXCEPT !.due = @ - 1]
         [] outbox[r].status = "sent" /\ outbox[r].age < Minute
              -> [outbox[r] EXCEPT !.age = @ + 1]
         [] OTHER -> outbox[r]]
  /\ UNCHANGED <<live, broken, memory>>

\* The janitor's two deletes.  A sent row outlives the valve's window by far,
\* and a failed one is swept by the age of the row, not of the failure.
SweepableUnfinished == {r \in Ids : outbox[r].status # "pending"}
Sweepable ==
  {r \in Ids : \/ outbox[r].status = "sent" /\ outbox[r].age = Minute
               \/ outbox[r].status = "failed"}

Sweep ==
  \E S \in SUBSET Sweepable :
    /\ S # {}
    /\ outbox' = Without(S)
    /\ UNCHANGED <<live, broken, memory>>

\* Deleting integrations takes their rows along, whatever their status and
\* whether or not a worker is at work on them; a locked row makes it wait.
DeleteIntegrations(I) ==
  LET S == {r \in Ids : outbox[r].integ \in I} IN
  /\ I # {} /\ I \subseteq live
  /\ S \cap Locked = {}
  /\ live' = live \ I
  /\ broken' = broken \ I
  /\ outbox' = Without(S)
  /\ UNCHANGED memory

DeleteIntegration(i) == DeleteIntegrations({i})
DeleteChat(c)        == DeleteIntegrations({i \in live : ChatOf[i] = c})

\* The bot is back in the chat.
ClearChatIntegrationsBroken(c) ==
  /\ \E i \in broken : ChatOf[i] = c
  /\ broken' = {i \in broken : ChatOf[i] # c}
  /\ UNCHANGED <<outbox, live, memory>>

-----------------------------------------------------------------------------
(***************************************************************************)
(* The worker: claim a batch, then one job after the other.                *)
(***************************************************************************)
Goto(w, label) == pc' = [pc EXCEPT ![w] = label]

\* Back to the head of RunOnce's loop.
FinishJob(w) ==
  /\ Goto(w, "loop")
  /\ cur' = [cur EXCEPT ![w] = NoJob]
  /\ result' = [result EXCEPT ![w] = "none"]

\* Rows the claim may take: due, pending, and not locked by another
\* transaction (SKIP LOCKED).
ClaimableTwice ==
  {r \in Ids \ Locked : outbox[r].status \in {"pending", "sending"} /\ outbox[r].due <= 0}
ClaimableAgain ==
  {r \in Ids \ Locked : outbox[r].status # "sending" /\ outbox[r].due <= 0}
ClaimableLocked == {r \in Ids : outbox[r].status = "pending" /\ outbox[r].due <= 0}
Claimable ==
  {r \in Ids \ Locked : outbox[r].status = "pending" /\ outbox[r].due <= 0}

\* claim: the oldest BatchSize of them become this worker's batch.  The order
\* in which UPDATE ... RETURNING hands them back is not specified.
ClaimRows(w, S) ==
  /\ pc[w] = "idle"
  /\ S # {} /\ S \subseteq Claimable
  /\ \/ S = Claimable /\ Cardinality(S) <= BatchSize
     \/ Cardinality(S) = BatchSize
  /\ \A r \in S, o \in Claimable \ S : outbox[r].due <= outbox[o].due
  /\ outbox' = [r \in Ids |->
                  IF r \in S THEN [outbox[r] EXCEPT !.status = "sending", !.due = 0]
                             ELSE outbox[r]]
  /\ jobs' = [jobs EXCEPT ![w] = {JobOf(r) : r \in S}]
  /\ Goto(w, "loop")
  /\ UNCHANGED <<live, broken, cur, result, locks>>

Claim(w) == \E S \in SUBSET Rows : ClaimRows(w, S)

BatchDone(w) ==
  /\ pc[w] = "loop" /\ jobs[w] = {}
  /\ Goto(w, "idle")
  /\ UNCHANGED <<table, jobs, cur, result, locks>>

SentLastMinute(c) ==
  {r \in Ids : outbox[r].status = "sent" /\ ChatOfRow(r) = c /\ outbox[r].age < Minute}

chatOverBudgetLate(c) == Cardinality(SentLastMinute(c)) > ChatPerMinute
chatOverBudget(c) == Cardinality(SentLastMinute(c)) >= ChatPerMinute

\* The head of the loop, with the valve's count for all but digests.
StartJob(w, j) ==
  /\ pc[w] = "loop" /\ j \in jobs[w]
  /\ jobs' = [jobs EXCEPT ![w] = @ \ {j}]
  /\ cur' = [cur EXCEPT ![w] = j]
  /\ IF ChatPerMinute > 0 /\ j.kind # "digest" /\ chatOverBudget(ChatOf[j.integ])
       THEN Goto(w, "digest")
       ELSE Goto(w, "deliver")
  /\ UNCHANGED <<table, result, locks>>

\* digest: find and lock the chat's pending digest, waiting for whoever
\* has it locked.
PendingDigestsOfAll(c) ==
  {r \in Ids : outbox[r].status = "pending" /\ outbox[r].kind = "digest"}
PendingDigests(c) ==
  {r \in Ids : outbox[r].status = "pending" /\ outbox[r].kind = "digest" /\ ChatOfRow(r) = c}

LoadDigest(w) ==
  LET found == PendingDigests(ChatOf[cur[w].integ]) IN
  /\ pc[w] = "digest"
  /\ found \cap Locked = {}
  /\ locks' = [locks EXCEPT ![w] = found]
  /\ IF found = {} THEN Goto(w, "create") ELSE Goto(w, "merge")
  /\ UNCHANGED <<table, jobs, cur, result>>

\* There was none: the job's own row becomes the digest.
CreateDigest(w) ==
  LET r == cur[w].id IN
  /\ pc[w] = "create"
  /\ outbox' = WithRow(r, [outbox[r] EXCEPT !.kind = "digest", !.items = {r},
                                            !.status = "pending", !.due = Minute])
  /\ FinishJob(w)
  /\ UNCHANGED <<live, broken, jobs, locks>>

\* There was one: the job's event goes into it and the job's row goes away.
\* A full digest takes no more, and is no longer postponed either.
MergedAlwaysPostponed(d, j) ==
  [outbox[d] EXCEPT !.items = IF Cardinality(@) < MaxItems THEN @ \cup {j.id} ELSE @,
                    !.due = Minute]
Merged(d, j) ==
  IF Cardinality(outbox[d].items) < MaxItems
    THEN [outbox[d] EXCEPT !.items = @ \cup {j.id}, !.due = Minute]
    ELSE outbox[d]

MergeDigestKeepsRow(w) ==
  /\ pc[w] = "merge"
  /\ \E d \in locks[w] : outbox' = WithRow(d, Merged(d, cur[w]))
  /\ locks' = [locks EXCEPT ![w] = {}]
  /\ FinishJob(w)
  /\ UNCHANGED <<live, broken, jobs>>
MergeDigest(w) ==
  /\ pc[w] = "merge"
  /\ \E d \in locks[w] :
       outbox' = [r \in Ids \ {cur[w].id} |->
                    IF r = d THEN Merged(d, cur[w]) ELSE outbox[r]]
  /\ locks' = [locks EXCEPT ![w] = {}]
  /\ FinishJob(w)
  /\ UNCHANGED <<live, broken, jobs>>

\* Deliver: the Telegram calls for one message, and what comes back.
Deliver(w, res) ==
  LET r == cur[w].id IN
  /\ pc[w] = "deliver"
  /\ result' = [result EXCEPT ![w] = res]
  /\ outbox' = WithRow(r, [outbox[r] EXCEPT !.calls = @ + 1,
                                            !.acked = @ \/ res = "ok"])
  /\ Goto(w, "record")
  /\ UNCHANGED <<live, broken, jobs, cur, locks>>

(***************************************************************************)
(* record.                                                                 *)
(***************************************************************************)
Backoff(n) ==
  Schedule[IF n < 1 THEN 1 ELSE IF n > Len(Schedule) THEN Len(Schedule) ELSE n]

AttemptForgotten(j) == j.attempts
Attempt(j) == j.attempts + 1

GivesUpLate(res, n) == res \in {"permanent", "kicked"} \/ n > MaxAttempts
GivesUp(res, n) == res \in {"permanent", "kicked"} \/ n >= MaxAttempts

RecordSent(w) ==
  LET r == cur[w].id IN
  /\ pc[w] = "record" /\ result[w] = "ok"
  /\ outbox' = WithRow(r, [outbox[r] EXCEPT !.status = "sent", !.age = 0,
                                            !.attempts = @ + 1])
  /\ Goto(w, "touch")
  /\ UNCHANGED <<live, broken, jobs, cur, result, locks>>

\* The second UPDATE of record, of the integration's last_event_at: only the
\* health screen reads the value, what matters here is that it can fail.
TouchIntegration(w) ==
  /\ pc[w] = "touch"
  /\ FinishJob(w)
  /\ UNCHANGED <<table, jobs, locks>>

RecordFailed(w) ==
  LET r == cur[w].id
      n == Attempt(cur[w]) IN
  /\ pc[w] = "record" /\ result[w] # "ok" /\ GivesUp(result[w], n)
  /\ outbox' = WithRow(r, [outbox[r] EXCEPT !.status = "failed", !.attempts = n])
  /\ Goto(w, "hook")
  /\ UNCHANGED <<live, broken, jobs, cur, result, locks>>

\* onPermanent of cmd/bot.  It gives up when the owner cannot be looked up,
\* the integration being gone or the query failing; failing to mark the
\* integration broken is only logged, and what becomes of the notice is not
\* looked at.  One step stands for the three calls, with every outcome they
\* have together: the mark and no notice, where Telegram turns it away or the
\* process stops in between, as well as the notice and no mark.  Whatever
\* happens between the calls, a deletion of the integration say, is as if it
\* happened before or after them: only this row's hook writes told.
OnPermanent(w) ==
  LET r == cur[w].id
      i == cur[w].integ IN
  /\ pc[w] = "hook"
  /\ \/ /\ i \in live
        /\ \/ outbox' = WithRow(r, [outbox[r] EXCEPT !.told = @ + 1])
           \/ Faults \cap {"net", "crash"} # {} /\ UNCHANGED outbox
        /\ \/ broken' = IF result[w] = "kicked" THEN broken \cup {i} ELSE broken
           \/ "db" \in Faults /\ broken' = broken
     \/ /\ i \notin live \/ "db" \in Faults
        /\ UNCHANGED <<outbox, broken>>
  /\ FinishJob(w)
  /\ UNCHANGED <<live, jobs, locks>>

RecordRetry(w) ==
  LET r == cur[w].id
      n == Attempt(cur[w]) IN
  /\ pc[w] = "record" /\ result[w] # "ok" /\ ~GivesUp(result[w], n)
  /\ outbox' = WithRow(r, [outbox[r] EXCEPT !.status = "pending", !.attempts = n,
                                            !.due = Backoff(n)])
  /\ FinishJob(w)
  /\ UNCHANGED <<live, broken, jobs, locks>>

(***************************************************************************)
(* Failures.  Both drop what the workers concerned hold in memory.         *)
(***************************************************************************)
Drop(W) ==
  /\ pc' = [w \in Workers |-> IF w \in W THEN "idle" ELSE pc[w]]
  /\ jobs' = [w \in Workers |-> IF w \in W THEN {} ELSE jobs[w]]
  /\ cur' = [w \in Workers |-> IF w \in W THEN NoJob ELSE cur[w]]
  /\ result' = [w \in Workers |-> IF w \in W THEN "none" ELSE result[w]]
  /\ locks' = [w \in Workers |-> IF w \in W THEN {} ELSE locks[w]]
  /\ UNCHANGED table

\* A statement of RunOnce fails, or its answer is lost after it took effect:
\* RunOnce returns with the rest of the batch.  An orderly stop looks the
\* same: the cancelled context fails the worker's next statement.
DbError(w) ==
  /\ "db" \in Faults
  /\ pc[w] \notin {"idle", "deliver"}
  /\ Drop({w})

\* The process dies and is started again.
Crash == "crash" \in Faults /\ Drop(Workers)

-----------------------------------------------------------------------------
Finish(w) ==
  \/ LoadDigest(w)
  \/ CreateDigest(w)
  \/ MergeDigest(w)
  \/ \E res \in Results : Deliver(w, res)
  \/ RecordSent(w)
  \/ TouchIntegration(w)
  \/ RecordFailed(w)
  \/ OnPermanent(w)
  \/ RecordRetry(w)

Work(w) == BatchDone(w) \/ (\E j \in jobs[w] : StartJob(w, j)) \/ Finish(w)

Environment ==
  \/ \E r \in Rows, i \in Integrations : Enqueue(r, i)
  \/ Tick
  \/ Sweep
  \/ \E i \in Integrations : DeleteIntegration(i)
  \/ \E c \in Chats : DeleteChat(c) \/ ClearChatIntegrationsBroken(c)

Next ==
  \/ Environment
  \/ \E w \in Workers : Claim(w) \/ Work(w) \/ DbError(w)
  \/ Crash

Spec == Init /\ [][Next]_vars

(***************************************************************************)
(* Fairness.  The clock runs; a worker goes on with its batch (every       *)
(* Telegram call returns) and polls once a second.  Strong fairness where  *)
(* another transaction can be in the way at times: Postgres queues those   *)
(* that wait for a row lock, and a digest is locked for the length of one  *)
(* short transaction, so it cannot be locked at every poll, and once it is *)
(* the oldest row due the claim takes it.                                  *)
(***************************************************************************)
ClaimOf(r) == \E w \in Workers : \E S \in SUBSET Claimable : r \in S /\ ClaimRows(w, S)

Fairness ==
  /\ WF_vars(Tick)
  /\ \A w \in Workers : WF_vars(Work(w)) /\ SF_vars(LoadDigest(w))
  /\ \A r \in Rows : SF_vars(ClaimOf(r))

FairSpec == Spec /\ Fairness

-----------------------------------------------------------------------------
(***************************************************************************)
(* Properties.                                                             *)
(***************************************************************************)

\* Every variable has its type.
TypeOK ==
  /\ Ids \subseteq Rows /\ \A r \in Ids : outbox[r] \in Row
  /\ live \subseteq Integrations /\ broken \subseteq live
  /\ pc \in [Workers -> {"idle", "loop", "digest", "create", "merge", "deliver",
                         "record", "touch", "hook"}]
  /\ jobs \in [Workers -> SUBSET Job]
  /\ cur \in [Workers -> Job \cup {NoJob}]
  /\ result \in [Workers -> Results \cup {"none"}]
  /\ locks \in [Workers -> SUBSET Rows]

\* SKIP LOCKED "lets several workers share one queue without coordinating":
\* no two workers ever hold the same row, and whatever the janitor, a cascade
\* or another worker's digest did meanwhile, a row whose outcome is still to be
\* recorded is either gone or exactly what the worker read.
ClaimedOnce ==
  \A w \in Workers : \A j \in InFlight(w) :
    /\ \A v \in Workers \ {w} : \A k \in InFlight(v) : j.id # k.id
    /\ \A k \in InFlight(w) : j.id = k.id => j = k
    /\ j \in Unhandled(w) /\ j.id \in Ids =>
         outbox[j.id].status = "sending" /\ JobOf(j.id) = j

\* The valve may be overshot by concurrent workers "by a row or two": never by
\* more than one row for each worker but the first.
RateValve ==
  ChatPerMinute > 0 =>
    \A c \in Chats :
      Cardinality({r \in SentLastMinute(c) : outbox[r].kind = "event"})
        < ChatPerMinute + Cardinality(Workers)

\* A message is tried MaxAttempts times at most, however often its row is
\* rescheduled, turned into a digest or merged into, and is given up early
\* only for a permanent failure; a message that arrived is not given up.
AttemptBudget ==
  \A r \in Ids :
    /\ outbox[r].calls <= MaxAttempts
    /\ outbox[r].status = "failed" => ~outbox[r].acked
    /\ outbox[r].status # "sending" => outbox[r].calls = outbox[r].attempts

\* "PermanentHook is called once for a row that will never be retried": the
\* owner is never told twice, nor of a message that is still to be tried.
ToldOnceAndOnlyOfFailures ==
  \A r \in Ids : outbox[r].told > 0 => outbox[r].told = 1 /\ outbox[r].status = "failed"

\* Once Telegram has accepted a message it is not sent again, whatever fails
\* after that: the row never goes back to a state from which it is delivered.
NoResendAfterAck ==
  [][\A r \in Ids \cap Ids' :
       outbox[r].acked /\ outbox'[r].acked => outbox'[r].calls = outbox[r].calls]_vars

\* Sent and failed are final: the row keeps its outcome until it is removed.
OutcomeIsFinal ==
  [][\A r \in Ids \cap Ids' :
       outbox[r].status \in {"sent", "failed"} => outbox'[r].status = outbox[r].status]_vars

\* No event leaves the table unnoticed, through any interleaving of merges,
\* claims, sweeps and crashes: when no row carries an event any more, the row
\* that carried it was finished, or was deleted with its integration, or the
\* event was folded into a digest that is full.
FullDigest(c) == \E d \in PendingDigests(c) : Cardinality(outbox[d].items) >= MaxItems

EventsLeaveAccountedFor ==
  [][\A r \in Ids :
       \/ outbox[r].items \subseteq Carried'
       \/ outbox[r].status \in {"sent", "failed"}
       \/ outbox[r].integ \notin live'
       \/ outbox[r].status = "sending" /\ FullDigest(ChatOfRow(r))]_vars

\* A digest is its chat's: however rows are merged, an event never moves into a
\* message for another chat.
EventsStayInTheirChat ==
  [][\A r \in Ids, d \in Ids' :
       outbox[r].items \cap outbox'[d].items # {} =>
         ChatOf[outbox[r].integ] = ChatOf[outbox'[d].integ]]_vars

\* An event waits in one place: no two rows carry the same one, so merging and
\* retrying never make two messages of it.
CarriedOnce ==
  \A r, s \in Ids : r # s => outbox[r].items \cap outbox[s].items = {}

\* As long as no statement fails and the process lives, every event is
\* settled: delivered, given up, or gone with its integration.  That includes
\* the events in a digest that a flood keeps postponing.
Unsettled(e) ==
  \E r \in Ids : e \in outbox[r].items /\ outbox[r].status \in {"pending", "sending"}
EveryEventSettles == \A e \in Rows : Unsettled(e) ~> ~Unsettled(e)

\* The events of a chat that is over its budget go into "the chat's single
\* pending digest row": there are never two.
SinglePendingDigest == \A c \in Chats : Cardinality(PendingDigests(c)) <= 1
=============================================================================
