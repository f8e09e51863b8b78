------------------------------ MODULE Broadcast ------------------------------
(***************************************************************************)
(* Broadcasts (internal/tg/broadcast.go, internal/storage/admin.go) and    *)
(* the audience they walk over: the users table, whose rows come and go    *)
(* out of reach while a broadcast is under way (internal/storage/users.go),*)
(* and the referral links that brought them.                               *)
(*                                                                         *)
(* One goroutine sends: a step of it is a statement or one call of         *)
(* CopyMessage.  What it holds between two steps (pc, job, todo, tally,    *)
(* flooded) is memory.  Beside it run the handlers of everything users and *)
(* the administrator do.                                                   *)
(*                                                                         *)
(* copies, tried, owed, lost, late and told are no columns: they record    *)
(* what users and the administrator have seen, and no step reads them.     *)
(*                                                                         *)
(* A definition whose name extends the name of the one it precedes is that *)
(* one with a plausible mistake; only the mutation runs use it.            *)
(***************************************************************************)
EXTENDS Integers, Sequences, FiniteSets

CONSTANTS
  MaxUser,        \* users have the ids 1..MaxUser
  MaxBroadcast,   \* and broadcasts the ids 1..MaxBroadcast
  Batch,          \* users messaged between two commits
  Blockers,       \* bound: the users who may block the bot
  Links,          \* referral links
  NoLink,
  MaxStarts,      \* bound: /start calls counted per link
  MaxLost,        \* bound: batches of a broadcast that are interrupted
  Faults          \* which of {"db", "net", "stop"} may happen

Users      == 1..MaxUser
Broadcasts == 1..MaxBroadcast

ASSUME BoundsAssumption ==
  /\ MaxUser \in Nat /\ MaxBroadcast \in Nat /\ Batch \in Nat \ {0}
  /\ MaxStarts \in Nat /\ MaxLost \in Nat
ASSUME BlockersAssumption == Blockers \subseteq Users
ASSUME LinksAssumption  == NoLink \notin Links /\ IsFiniteSet(Links)
ASSUME FaultsAssumption == Faults \subseteq {"db", "net", "stop"}

VARIABLES
  registered,  \* the ids in users
  blockedAt,   \* those with a blocked_at
  blocks,      \* the users who do block the bot, as Telegram knows
  links,       \* ref_links
  starts,      \* ref_links.starts
  refOf,       \* users.ref_link_id
  bcs,         \* broadcasts
  pc,          \* where the sender is in step
  job,         \* the broadcast NextRunningBroadcast returned, or 0
  todo,        \* targets of the batch not handled yet
  tally,       \* sent and failed of the batch
  flooded,     \* whether this target's flood wait is used up
  copies, tried, owed, lost, late, told

users  == <<registered, blockedAt, blocks, links, starts, refOf>>
sender == <<pc, job, todo, tally, flooded>>
seen   == <<copies, tried, owed, lost, late, told>>
vars   == <<users, bcs, sender, seen>>

Statuses == {"none", "draft", "running", "done", "cancelled"}
NoBatch  == [sent |-> 0, failed |-> 0, last |-> 0]

Init ==
  /\ registered = {} /\ blockedAt = {} /\ blocks = {}
  /\ links = {} /\ starts = [l \in Links |-> 0]
  /\ refOf = [u \in Users |-> NoLink]
  /\ bcs = [b \in Broadcasts |-> [status |-> "none", total |-> 0, sent |-> 0,
                                  failed |-> 0, last |-> 0]]
  /\ pc = "idle" /\ job = 0 /\ todo = << >> /\ tally = NoBatch /\ flooded = FALSE
  /\ copies = [b \in Broadcasts |-> [u \in Users |-> 0]]
  /\ tried = [b \in Broadcasts |-> {}]
  /\ owed = [b \in Broadcasts |-> {}]
  /\ lost = [b \in Broadcasts |-> 0]
  /\ late = [b \in Broadcasts |-> 0]
  /\ told = [b \in Broadcasts |-> 0]

Status(b) == bcs[b].status
BroadcastAudience == registered \ blockedAt

-----------------------------------------------------------------------------
(***************************************************************************)
(* The users.                                                              *)
(***************************************************************************)

CountedReturning(u, l) == l \in links /\ u \in registered

\* An unknown code behaves like no code at all, a known one is counted for
\* whoever taps it, and brings only those who are new.
Counted(u, l) == l \in links

Attribution(u, l) ==
  IF u \in registered THEN refOf[u] ELSE IF l \in links THEN l ELSE NoLink

\* UpsertUser and UpsertUserWithRef, called for every update of a user.  A
\* row's id is drawn before it is committed: new rows appear in any order.
UpsertUser(u, l) ==
  /\ Counted(u, l) => starts[l] < MaxStarts
  /\ registered' = registered \cup {u}
  /\ blockedAt' = blockedAt \ {u}
  /\ blocks' = blocks \ {u}            \* who talks to the bot does not block it
  /\ refOf' = [refOf EXCEPT ![u] = Attribution(u, l)]
  /\ starts' = [k \in Links |-> starts[k] + IF k = l /\ Counted(u, l) THEN 1 ELSE 0]
  /\ UNCHANGED <<links, bcs, sender, seen>>

\* Blocking the bot or deleting the account: nothing tells the program.
BlockBot(u) ==
  /\ u \in (registered \cap Blockers) \ blocks
  /\ blocks' = blocks \cup {u}
  /\ UNCHANGED <<registered, blockedAt, links, starts, refOf, bcs, sender, seen>>

CreateRefLink(l) ==
  /\ l \notin links
  /\ starts[l] = 0                     \* a code is never used twice
  /\ links' = links \cup {l}
  /\ UNCHANGED <<registered, blockedAt, blocks, starts, refOf, bcs, sender, seen>>

DeleteRefLinkKeepsUsers(l) ==
  /\ l \in links
  /\ links' = links \ {l}
  /\ UNCHANGED <<registered, blockedAt, blocks, starts, refOf, bcs, sender, seen>>

\* ref_link_id is ON DELETE SET NULL.
DeleteRefLink(l) ==
  /\ l \in links
  /\ links' = links \ {l}
  /\ refOf' = [u \in Users |-> IF refOf[u] = l THEN NoLink ELSE refOf[u]]
  /\ UNCHANGED <<registered, blockedAt, blocks, starts, bcs, sender, seen>>

-----------------------------------------------------------------------------
(***************************************************************************)
(* The administrator.                                                      *)
(***************************************************************************)

CreateBroadcast(b) ==
  /\ Status(b) = "none"
  /\ \A a \in 1..(b - 1) : Status(a) # "none"
  /\ bcs' = [bcs EXCEPT ![b].status = "draft"]
  /\ UNCHANGED <<users, sender, seen>>

\* adm_bc_send: from then on everybody in reach is owed a copy.
StartBroadcast(b) ==
  /\ Status(b) = "draft"
  /\ bcs' = [bcs EXCEPT ![b].status = "running",
                        ![b].total = Cardinality(BroadcastAudience)]
  /\ owed' = [owed EXCEPT ![b] = BroadcastAudience]
  /\ UNCHANGED <<users, sender, copies, tried, lost, late, told>>

CancelBroadcast(b) ==
  /\ Status(b) \in {"draft", "running"}
  /\ bcs' = [bcs EXCEPT ![b].status = "cancelled"]
  /\ UNCHANGED <<users, sender, seen>>

-----------------------------------------------------------------------------
(***************************************************************************)
(* The sender.                                                             *)
(***************************************************************************)

Idle ==
  /\ pc' = "idle" /\ job' = 0 /\ todo' = << >> /\ tally' = NoBatch
  /\ flooded' = FALSE

RunsEver(b) == Status(b) \in {"running", "cancelled"}

Runs(b) == Status(b) = "running"

\* The oldest one that runs.
NextRunningBroadcast ==
  /\ pc = "idle"
  /\ \E b \in Broadcasts :
       /\ Runs(b)
       /\ \A a \in Broadcasts : Runs(a) => b <= a
       /\ job' = b
  /\ pc' = "targets"
  /\ UNCHANGED <<users, bcs, todo, tally, flooded, seen>>

AfterInclusive(b) == {u \in BroadcastAudience : u >= bcs[b].last}

After(b) == {u \in BroadcastAudience : u > bcs[b].last}

PageNewest(S) ==
  LET last == {u \in S : Cardinality({v \in S : v > u}) < Batch}
  IN  [i \in 1..Cardinality(last) |->
         CHOOSE u \in last : Cardinality({v \in last : v < u}) = i - 1]

\* The first Batch of a set of ids, in order.
Page(S) ==
  LET first == {u \in S : Cardinality({v \in S : v < u}) < Batch}
  IN  [i \in 1..Cardinality(first) |->
         CHOOSE u \in first : Cardinality({v \in first : v < u}) = i - 1]

BroadcastTargetsOrRest ==
  /\ pc = "targets"
  /\ IF Page(After(job)) = << >>
     THEN Idle
     ELSE /\ pc' = "copy" /\ todo' = Page(After(job))
          /\ tally' = [NoBatch EXCEPT !.last = todo'[Len(todo')]]
          /\ UNCHANGED <<job, flooded>>
  /\ UNCHANGED <<users, bcs, seen>>

\* last_user_id is that of the row NextRunningBroadcast returned: nobody but
\* the sender writes it.
BroadcastTargets ==
  /\ pc = "targets"
  /\ todo' = Page(After(job))
  /\ IF todo' = << >>
     THEN pc' = "finish" /\ UNCHANGED tally
     ELSE pc' = "copy" /\ tally' = [NoBatch EXCEPT !.last = todo'[Len(todo')]]
  /\ UNCHANGED <<users, bcs, job, flooded, seen>>

Handled(field) ==
  /\ tally' = [tally EXCEPT ![field] = @ + 1]
  /\ todo' = Tail(todo)
  /\ flooded' = FALSE

\* A copy arrives at u; late counts those that arrive after a cancellation.
Arrives(u) ==
  /\ u \notin blocks
  /\ copies' = [copies EXCEPT ![job][u] = @ + 1]
  /\ late' = [late EXCEPT ![job] = @ + IF Status(job) = "cancelled" THEN 1 ELSE 0]

Tried(u) == tried' = [tried EXCEPT ![job] = @ \cup {u}]

CopyOk(u) ==
  /\ Arrives(u) /\ Tried(u) /\ Handled("sent")
  /\ UNCHANGED <<pc, owed, lost, told>>

\* Telegram asks to wait, which is done once.
CopyFlood(u) ==
  /\ ~flooded
  /\ flooded' = TRUE
  /\ UNCHANGED <<pc, todo, tally, seen>>

\* Any other error; the copy may have arrived all the same.
CopyFails(u) ==
  /\ "net" \in Faults \/ flooded
  /\ Tried(u) /\ Handled("failed")
  /\ Arrives(u) \/ UNCHANGED <<copies, late>>
  /\ UNCHANGED <<pc, owed, lost, told>>

\* 403: the user is marked in a statement of its own, next.
CopyRefused(u) ==
  /\ u \in blocks
  /\ pc' = "mark"
  /\ Tried(u)
  /\ UNCHANGED <<todo, tally, flooded, copies, owed, lost, late, told>>

Copy ==
  /\ pc = "copy" /\ todo # << >>
  /\ LET u == Head(todo)
     IN  CopyOk(u) \/ CopyFlood(u) \/ CopyFails(u) \/ CopyRefused(u)
  /\ UNCHANGED <<users, bcs, job>>

\* MarkUserBlocked; an error is logged and forgotten.
MarkUserBlocked ==
  /\ pc = "mark"
  /\ LET u == Head(todo)
     IN  \/ /\ blockedAt' = blockedAt \cup {u}
            /\ owed' = [b \in Broadcasts |-> owed[b] \ {u}]
         \/ "db" \in Faults /\ UNCHANGED <<blockedAt, owed>>
  /\ pc' = "copy"
  /\ Handled("failed")
  /\ UNCHANGED <<registered, blocks, links, starts, refOf, bcs, job,
                 copies, tried, lost, late, told>>

StillRunningUnchecked(b) == TRUE

\* The WHERE of AdvanceBroadcast and FinishBroadcast.
StillRunning(b) == Status(b) = "running"

ProgressTwice(b) ==
  [bcs[b] EXCEPT !.sent = @ + tally.sent + tally.failed,
                 !.failed = @ + tally.failed, !.last = tally.last]

\* The row after the batch in hand.
Progress(b) ==
  [bcs[b] EXCEPT !.sent = @ + tally.sent, !.failed = @ + tally.failed,
                 !.last = tally.last]

\* A cancelled broadcast keeps its numbers; either way the next step is next.
AdvanceBroadcast ==
  /\ pc = "copy" /\ todo = << >>
  /\ bcs' = IF StillRunning(job) THEN [bcs EXCEPT ![job] = Progress(job)] ELSE bcs
  /\ Idle
  /\ UNCHANGED <<users, seen>>

FinishBroadcastTellsAll ==
  /\ pc = "finish"
  /\ bcs' = IF StillRunning(job) THEN [bcs EXCEPT ![job].status = "done"] ELSE bcs
  /\ pc' = "notice"
  /\ UNCHANGED <<users, job, todo, tally, flooded, seen>>

FinishBroadcast ==
  /\ pc = "finish"
  /\ IF StillRunning(job)
     THEN /\ bcs' = [bcs EXCEPT ![job].status = "done"]
          /\ pc' = "notice"
          /\ UNCHANGED <<job, todo, tally, flooded>>
     ELSE Idle /\ UNCHANGED bcs
  /\ UNCHANGED <<users, seen>>

\* The administrator is told; an error is only logged.
Notice ==
  /\ pc = "notice"
  /\ \/ told' = [told EXCEPT ![job] = @ + 1]
     \/ "net" \in Faults /\ UNCHANGED told
  /\ Idle
  /\ UNCHANGED <<users, bcs, copies, tried, owed, lost, late>>

\* The batch in hand is given up: the process stops, or its next statement
\* fails.  Run looks for work again.
Interrupt ==
  /\ pc # "idle"
  /\ "stop" \in Faults \/ ("db" \in Faults /\ pc # "mark" /\ ~(pc = "copy" /\ todo # << >>))
  /\ lost[job] < MaxLost
  /\ lost' = [lost EXCEPT ![job] = @ + 1]
  /\ Idle
  /\ UNCHANGED <<users, bcs, copies, tried, owed, late, told>>

Step ==
  \/ NextRunningBroadcast \/ BroadcastTargets \/ Copy \/ MarkUserBlocked
  \/ AdvanceBroadcast \/ FinishBroadcast \/ Notice

Next ==
  \/ Step
  \/ Interrupt
  \/ \E u \in Users : \E l \in Links \cup {NoLink} : UpsertUser(u, l)
  \/ \E u \in Users : BlockBot(u)
  \/ \E l \in Links : CreateRefLink(l) \/ DeleteRefLink(l)
  \/ \E b \in Broadcasts : CreateBroadcast(b) \/ StartBroadcast(b) \/ CancelBroadcast(b)

\* Run polls for ever, every call returns, and a flood is waited out once.
Spec == Init /\ [][Next]_vars /\ WF_vars(Step)

-----------------------------------------------------------------------------
(***************************************************************************)
(* Properties.                                                             *)
(***************************************************************************)

\* Every variable stays within its type.
TypeOK ==
  /\ registered \subseteq Users /\ blockedAt \subseteq registered
  /\ blocks \subseteq registered
  /\ links \subseteq Links /\ starts \in [Links -> 0..MaxStarts]
  /\ refOf \in [Users -> links \cup {NoLink}]
  /\ bcs \in [Broadcasts -> [status: Statuses, total: 0..MaxUser, sent: Nat,
                             failed: Nat, last: 0..MaxUser]]
  /\ pc \in {"idle", "targets", "copy", "mark", "finish", "notice"}
  /\ job \in 0..MaxBroadcast /\ (pc = "idle") = (job = 0)
  /\ todo \in Seq(Users)
  /\ tally \in [sent: Nat, failed: Nat, last: 0..MaxUser]
  /\ flooded \in BOOLEAN
  /\ copies \in [Broadcasts -> [Users -> Nat]]
  /\ tried \in [Broadcasts -> SUBSET Users]
  /\ owed \in [Broadcasts -> SUBSET Users]
  /\ lost \in [Broadcasts -> 0..MaxLost]
  /\ late \in [Broadcasts -> Nat] /\ told \in [Broadcasts -> Nat]

\* "Broadcaster copies a confirmed broadcast into every reachable DM"
\* (broadcast.go:29): whoever was in reach at the start and was not found to
\* block the bot has been tried once the cursor has passed them, and at the
\* end everybody has, whatever joined, left and failed meanwhile.
NobodySkipped ==
  \A b \in Broadcasts : \A u \in owed[b] :
    Status(b) = "done" \/ u <= bcs[b].last => u \in tried[b]

\* A user gets a second copy only because a batch was given up before its
\* commit (broadcast.go:99-102), one for each time that happened: not for a
\* flood, an error after the copy arrived, or a cursor that stands on them.
OnceUnlessInterrupted ==
  \A b \in Broadcasts : \A u \in Users : copies[b][u] <= 1 + lost[b]

\* The numbers shown (admin.go of screens, and the notice): what is counted as
\* sent arrived, and nobody is counted twice although batches are repeated.
NumbersAreTrue ==
  \A b \in Broadcasts :
    /\ bcs[b].sent <= Cardinality({u \in Users : copies[b][u] > 0})
    /\ bcs[b].sent + bcs[b].failed <= Cardinality(tried[b])

\* "A cancel from the admin screen takes effect within one batch"
\* (broadcast.go:31): at most a batch arrives after it.
CancelBites == \A b \in Broadcasts : late[b] <= Batch

\* The notice is sent once, of a broadcast that ended by itself
\* (broadcast.go:145-148).
ToldOnceDone ==
  \A b \in Broadcasts : told[b] <= (IF Status(b) = "done" THEN 1 ELSE 0)

\* "The link's start counter goes up whoever taps it, but only a user seen for
\* the first time is attributed to it" (users.go:30-31): no link shows more
\* people than starts, which the funnel of screens/admin.go:277-284 relies on.
FunnelNarrows ==
  \A l \in links : Cardinality({u \in Users : refOf[u] = l}) <= starts[l]

\* "done and cancelled are final" (storage/admin.go:187-188), however the
\* cancellation, the sender and a late second tap on "send" meet.
FinalIsFinal ==
  [][\A b \in Broadcasts :
       Status(b) \in {"done", "cancelled"} => bcs'[b] = bcs[b]]_vars

\* What was started ends, even if people keep joining until there is no one
\* left to join and batches are interrupted now and then.
BroadcastEnds ==
  \A b \in Broadcasts : Status(b) = "running" ~> Status(b) \in {"done", "cancelled"}
=============================================================================
