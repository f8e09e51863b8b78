# gh-notify-go in TLA+

Specifications of gh-notify-go, the Telegram bot that turns webhooks of GitHub, GitLab and Gitea
into chat messages: what its processes do to the tables they share, in which orders, and what
must not come of it. TLC checks small instances of them, TLAPS proves the central facts for any
number of rows, workers, integrations, chats, installations, requests, users and message parts.

## The system

One process (`cmd/bot`), one Postgres database. In the process run side by side: the HTTP server
(one goroutine per request), `Workers` outbox workers (4 by default), the janitor, the
broadcaster, and the handler of Telegram's updates, which starts a goroutine for each. They share
nothing but the database and the administrators' cache. Nearly every statement is a transaction of
its own.

    forge --webhook--> httpapi --> service.Ingest --> gh_deliveries, star_actors, outbox
                                                                                  |
    owner <--onPermanent-- outbox.Worker x N <---claim, valve, digest, record-----+
                                 |                                                |
    chat  <------tg.Sender-------+                          janitor --deletes-----+
                                                                                  |
    user  --update--> tg handlers --guard, screens--> settings, integrations, chats (cascades)

| component | state | operations | hard because | what makes it correct |
|---|---|---|---|---|
| outbox (`outbox/worker.go`, `enqueue.go`) | table `outbox`; a worker's batch in memory | Enqueue, claim, chatOverBudget, digest, Deliver, record, the failure hook | workers interleave at every statement; rows vanish under their hands; anything can fail between two steps | a row is handled by one worker, sent once, tried at most 6 times, its outcome final; events are not lost in digests; the owner is told once |
| janitor (`janitor/janitor.go`) | none | hourly deletes by age from five tables | it deletes from tables in use | takes no row that is still to be delivered or counted |
| ingestion (`service/ingest.go`, `httpapi`) | `gh_deliveries`, `star_actors` | dedup, installation lifecycle, fan-out with settings and filters, stars | the same delivery again and concurrently; a failure in mid fan-out | one row per delivery and integration, none lost, one star per user |
| integration settings (`storage`) | `integrations`, `event_settings`, `filters`, `chats.muted_until`, `broken_reason` | toggles, filters, mute, deletion with its cascades | changed between two steps of everything above | no reference to what is gone |
| Telegram sender (`tg/sender.go`) | none | Split, send, follow a migrated chat, clear a lost topic, resend plain, classify errors | partial sends, late errors | transient and permanent are told apart |
| broadcasts (`tg/broadcast.go`, `storage/admin.go`) | `broadcasts`, `users.blocked_at` | start, batch, advance, cancel, finish | restart or cancellation within a batch | everyone reachable gets it, once unless the process stopped |
| installations, connections (`service/install.go`, `storage/installations.go`, `forge.go`) | `installations`, `install_states` | register, claim an owner, setup token, webhook token, delete | redirect and webhooks in any order | an owner is never replaced, a token works once |
| chats, topics (`storage/chat_migrate.go`, `topics.go`, `screens.go`) | `chats`, `chat_topics`, `chat_managers` | see, set, clear a topic; migrate a chat | a late answer clears a new topic; two rows become one | nothing of either row is lost but duplicates |
| access (`tg/guard.go`, `tg/admin.go`, `service/integrate.go`) | the administrator cache (one minute) | Authorize, IsAdmin, IsOwner, Connect | stale lists, concurrent fetches | rights are at most a minute old; one integration per chat and repository |
| navigation (`tg/ui`, `tg/anchor.go`, `tg/handlers.go`) | `ui_nav`, `ui_actions` | Open, Back, Forget, Show, Adopt, pending input | load and save by concurrent updates | the stack is never empty of a way home, input is taken once |
| token cache (`ghapp/jwt.go`, `storage/tokencache.go`) | ciphertext and expiry per installation | InstallationToken | concurrent minting, margins | no expired token is handed out |
| registry, renderers, forges, screens' layout, configuration | none | pure functions | - | not modelled: no state and no order of events |

## Modules

`Outbox` models the delivery queue and everything that touches its table.

* `outbox` is the table: a function from the ids that exist to rows. `live` and `broken` are the
  integrations that exist and those with a `broken_reason`. `pc`, `jobs`, `cur`, `result` and
  `locks` are what a worker has between two statements of `Run`/`RunOnce`/`record`: its place,
  the jobs it has not started, its current job, what Deliver returned, the digest its open
  transaction has locked. A crash or a failed statement (`Crash`, `DbError`) loses just that.
* An action is a transaction or a call: `Claim`, `StartJob` (with the valve's count),
  `LoadDigest`, `CreateDigest`, `MergeDigest`, `Deliver`, `RecordSent`, `TouchIntegration`,
  `RecordFailed`, `OnPermanent`, `RecordRetry`. The digest's transaction is two steps, because
  its row lock is what other workers, claims and cascades meet. Around them: `Enqueue`, `Sweep`,
  `DeleteIntegration`, `DeleteChat`, `ClearChatIntegrationsBroken`, `Tick`.
* A row's `items` are the events it reports: itself, or for a digest those merged into it (the
  code keeps their kinds only; identities let the properties follow an event). `calls`, `acked`
  and `told` are no columns: they record what Telegram and the owner saw, and no step reads them.
* Time is relative: `due` is how far `scheduled_at` lies ahead, `age` how long ago `sent_at` was.
  Both stop where no query can tell the difference (`MaxLate`, `Minute`), which only bounds how
  precisely overdue rows are ordered.
* The order in which `UPDATE ... RETURNING` hands out a batch is unspecified and any order is
  taken. The claim takes the oldest rows that are due and not locked.

`DeliveryQueue` says what the outbox promises of one event, without rows, workers or digests:
accepted, waiting, taken, and then back, delivered or given up. `OutboxRefinement` maps the
outbox's state to it (`Fate`).

`Ingest` models the path from a webhook to the rows of the outbox: `Send` (a forge delivers, or
delivers again what was not answered 200, possibly before the first request is done),
`RememberProject`, `MarkDelivered`, `HandleInstallation`, `Find`, and per integration
`EventEnabled`, `Filter` or `StarActorNotified`/`MarkStarNotified`, `Enqueue`; `Answer` is the
response. Each is one statement of one of `Handlers` concurrent requests. Meanwhile settings
change, integrations and connections are deleted with what refers to them, statements fail, the
process dies. `queued` counts the rows a delivery has put into the outbox for an integration,
the outbox itself being the other module's. Every connection has one repository, so what a post
says of its repository is left out; an author filter stands for all four kinds of filters.

`Broadcast` models `tg/broadcast.go` with the tables of `storage/admin.go` and `users.go`. One
sender goes through `NextRunningBroadcast`, `BroadcastTargets`, `Copy` (which arrives, floods,
fails, or is refused by a user who blocks the bot), `MarkUserBlocked`, `AdvanceBroadcast`,
`FinishBroadcast` and `Notice`; `todo`, `tally` and `flooded` are its memory, which `Interrupt`
(a failed statement, a stop) loses. Meanwhile users join (`UpsertUser`, with the referral link that
brought them), block the bot and come back, and the administrator makes, starts and cancels
broadcasts and makes and deletes links. `copies`, `tried`, `owed`, `lost`, `late` and `told`
record what was seen outside.

`Chats` models one group that is upgraded to a supergroup and so gets a second id. `chats` may hold
a row for each id until `MigrateChat` renames the one or folds it into the other, collisions
dropped, in one transaction. Updates wait in `updates` and their handlers take effect in any order:
migrated, added (two statements, `greeting`), removed, topics seen. Beside them an administrator
chooses topics and connects repositories (`connecting`), the administrator checker meets a
migration, webhooks load their integrations and queue later (`loaded`). `sending` is a worker's
place in `Sender.Deliver` and `sendPart`: part by part, each with its resend to the new id, to
the General topic, or without custom emoji, and what `ClassifyError` makes of a second error. It is the
detailed form of the single step `Deliver` of `Outbox`: its four results there are what `Record`
distinguishes here.

`Installations` models `storage/installations.go` and `forge.go`, `httpapi/setup.go`,
`service/install.go` and `ghapp/jwt.go`. `gh` and `hooks` are GitHub's side, its lifecycle and the
webhooks about it, delivered in any order. `setup` is what a redirect in service
has found out, between `ConsumeInstallState`, the query to GitHub, and `ClaimInstallationOwner`. `calls`
is the same for a caller of `InstallationToken`: cache read, mint, cache write, and the request made
with the token. `conns` and `taps` are the webhook connections, found or created by two statements.
The clock `now` ages states and tokens. `brought` records the links that were followed in time.

`Menu` models the private-chat interface: `tg/handlers.go`, `guard.go`, `admin.go`, `anchor.go`,
`topics.go`, `ui/engine.go`, `ui/navstore.go` and the screens as far as they decide where one can
go. Every update is a task with stages: it loads the button or the prompt, is authorized, acts, and
shows a screen; between two of them any other task may run. `nav`, `anchor` and `pending` are the
columns of `ui_nav`, `menus` the messages with their buttons, `cache` the administrators' list with
its age, `by` the maker of each row, which is what rights are decided by. The authorization table
(`Scope`, `Allowed`) and the targets of each screen's buttons (`Drawn`) are translated row by row.

| source | module |
|---|---|
| `outbox/*` | `Outbox`; `Deliver` in detail: `Chats` |
| `janitor/janitor.go` (outbox sweeps) | `Outbox` |
| `service/ingest.go`, `httpapi/webhook.go`, `integrations.go`, `star.go` (storage) | `Ingest` |
| `tg/broadcast.go`, `storage/admin.go`, `users.go` | `Broadcast`, its screens `Menu` |
| `tg/sender.go`, `storage/chat_migrate.go`, `topics.go`, `screens.go`, `service/integrate.go` | `Chats` |
| `storage/installations.go`, `forge.go`, `tokencache.go`, `httpapi/setup.go`, `service/install.go`, `ghapp/*` | `Installations` |
| `tg/handlers.go`, `guard.go`, `admin.go`, `anchor.go`, `ui/*`, `ui/screens/*` | `Menu` |

`Interface` puts `Installations` and `Menu` beside each other: they share no variable.
`OutboxProofs`, `OutboxDeliveryProofs` and `OutboxRefinementProofs` hold the proofs about `Outbox`;
`IngestProofs`, `BroadcastProofs`, `ChatsProofs`, `InstallationsProofs` and `MenuProofs` those about
the module they are named after. `MCOutbox`, `MCIngest`, `MCBroadcast`, `MCChats` and `MCInterface` give TLC its instances, and
`MCOutboxLive` and `MCIngestScenes` those of `Outbox` and `Ingest` that check liveness. These two,
`MCChats` and `MCInterface` choose a scene per behaviour, see the bounds.

In each module a definition whose name extends the one it precedes (`ClaimableTwice` before
`Claimable`) is that definition with a mistake in it. The specifications do not use it; the
`mutants` of `PROJECT.json` put it in its place to see that the property of a run notices.

## Runs

| run | instance | shows |
|---|---|---|
| `outbox` | 3 rows, 2 workers, 1 chat, batches of 2, 2 attempts, digests of 2, 1 message a minute, statements and notices fail, process dies | the safety properties and the refinement of `DeliveryQueue` |
| `outbox_live` | 1 worker, a 2-tick minute, digests of 2, 2 attempts: a flood with 4 rows, or 3 rows with retries and deletions, or 2 chats with an integration each | every event is settled; digests do not mix chats |
| `outbox_crash` | 3 rows, 1 worker, crashes | violated: rows claimed before a crash stay `sending` |
| `outbox_digest` | 3 rows, 2 workers, nothing fails | violated: two digests of one chat |
| `ingest` | 2 requests at a time, each delivery sent twice: a user who stars three times, or two integrations of an installation that is uninstalled, everything failing; or two GitLab webhooks sharing an event id, mute and filters changed meanwhile | one row per delivery, stars bounded, references kept; deliveries arrive |
| `ingest_lost` | 1 request at a time, 2 integrations, one is deleted | violated: the other never gets the event |
| `ingest_star` | 2 requests, a user who stars twice | violated: two notifications |
| `broadcast` | 3 users, batches of 2, one broadcast, a user who blocks and comes back, a link, one interrupted batch, everything fails | everyone is reached, twice only after an interruption; it ends |
| `chats` | 2 users, a topic, 2 repositories, one job of 2 parts, well formed or not, one move of the bot, one failure | an upgrade loses nothing; a message is whole and each try sends a part once |
| `chats_resent` | the same | violated: an upgrade between a call and its remedy drops the job |
| `interface` | 2 installations, 2 requests at a time, a clock of 2; or a user with 2 updates at a time, 3 menus, 18 stacks to start from | ownership, tokens, connections; rights and menus |
| `setup_twice` | the same | violated: two taps on "Connect" leave two unused secrets |

The properties, by what they defend (the modules state each with the code it is about):

* *Claiming.* `ClaimedOnce`: no row in two hands, and until it is recorded it is gone or as it was
  read. `NoResendAfterAck`: what arrived is not sent again, whatever fails afterwards.
  `OutcomeIsFinal`: sent and failed stay so.
* *Limits.* `RateValve`: the overshoot the code admits ("by a row or two") is at most a row for
  each worker but the first. `AttemptBudget`: Telegram is called at most `MaxAttempts` times for
  a row, and the column counts those calls exactly, through retries, digests and merges.
* *Digests.* `CarriedOnce`: no event in two rows. `EventsLeaveAccountedFor`: an event leaves the
  table with a finished row, with its integration, or into a full digest. `EventsStayInTheirChat`.
  `EveryEventSettles`: retries end, and a flood does not postpone a digest for ever, since full ones
  are not. `SinglePendingDigest` (violated).
* *The owner.* `ToldOnceAndOnlyOfFailures`.
* *Ingestion.* `QueuedOnce`, `StarsBounded`, `DeliveryNotLost` (violated where an integration is deleted
  during the fan-out), `StarOnce` (violated).
* *Broadcasts.* `NobodySkipped`: whom the cursor has passed was tried, however users come and go.
  `OnceUnlessInterrupted`: a second copy only for a batch given up before its commit.
  `NumbersAreTrue`, `CancelBites` (at most a batch after the cancellation), `ToldOnceDone`,
  `FinalIsFinal`, `FunnelNarrows` (a link shows no more people than starts), `BroadcastEnds`.
* *A group that is upgraded.* `MigrationKeeps`: what both rows had is there once; only what a
  dropped duplicate had queued goes with it. `QueuedWhereConnected`: queueing on what was read before
  the migration puts nothing into the wrong chat. `UpgradeFollowed`: it is followed by the first
  delivery even if every update about it is lost.
* *A delivery in parts.* `WholeAndOncePerTry`. `GivenUpForCause`: a job is given up for what is wrong
  with its payload, because the bot is not in the chat, at the last try, or because the upgrade came
  between a call and its remedy; never for a topic, custom emoji, the network or a failed statement alone.
  `ResentNotDropped` (violated): the last of those causes is one that the code rules out.
* *Installations.* `OwnedThroughLink`, `OwnerNeverReplaced`, `TokenOutlivesRequest`. `UnusedBounded`: no
  more unused secrets than taps served at once, so none are left by taps one after the other;
  `OneUnused` (violated): at most one.
* *The interface.* `FreshRights`: whatever is done to a chat or shown of it is for somebody who was
  its administrator at most a cached list's age ago, by a tap on an old menu, Back, a deep link or a
  late answer. `AdmittedOnly`: no screen is on a stack, in a menu or behind a prompt of somebody who
  never had a right to it. `PromptAnsweredOnce`. `TappedIsTheOneThatChanges`.

The six violated ones are what a comment or the design says and the code does not do; each is a
finding in `PROJECT.json` with the lines on both sides.

### Met on the way

Places where the code does other than a comment says or a reader would expect, which the models show
but no run states. In the outbox: a failed row's owner is not told if the process stops between the two
(`worker.go:321`; the janitor's comment, `janitor.go:24`, supposes he was); a mute takes effect
for deliveries to come only, not for rows in the queue (`manage.go:78-79` says the worker drops
them); a full digest counts fewer events than it stands for, which its comment accepts.

Broadcasts: the migration says a restart goes on "instead of messaging anyone twice"
(`00010_admin.sql:24-26`), but the uncommitted batch is repeated, as `broadcast.go:99-102` admits. A
late `MarkUserBlocked` overrides a user who has just come back (`admin.go:388-397`).

Groups: the topic and the mute of the row that is folded away are lost (`chat_migrate.go:57-87`).
`ClearTopic` clears by chat whatever topic is set by then (`screens.go:145`). "Removed" handled
after a later "added" deletes the chat of a bot that is a member (`handlers.go:719-722`).
`AddChatManager` fails when the row was folded away meanwhile, and the revival after it does not run.
Each further part of a message is addressed by the job's old id and topic again.

Installations: no caller marks integrations broken on `ErrInstallationUnavailable`, as
`jwt.go:17-19` says callers do. A "created" handled after "deleted", or a claim that had asked GitHub
before, leaves the row of an installation that is gone; a claim clears `suspended_at` though GitHub
still suspends.

The interface: two updates of one user at once lose a change of the stack (`navstore.go:40-71`), and
the answer to a tap may land in another menu (`handlers.go:220-221` holds for a tap alone). The
audience of Back (`engine.go:181-183`) rests on a depth read separately. `a_int_del`
(`handlers.go:367-373`) opens the chat without forgetting the integration, so Back leads to one that is
gone (compare `engine.go:138-140`). `Open` pushes before it renders: a screen that cannot be rendered
stays on the stack; `Back` pops before it authorizes; `reopen` pushes a frame for every toggle.
`adm_ref_del` assumes its screen on top (`handlers.go:309-311`). Frames name a chat by its Telegram
id, so they break when it is migrated (compare `chat_migrate.go:16-17`).

### Bounds

Three rows are the least for the interesting cases to meet: one sent, to be over the budget, one
pending digest, one being merged into it; and with two workers, two claiming, one being inserted.
A third worker adds no new pair of concurrent steps: no step depends on more than one other
worker. Two attempts distinguish the last from the others; a digest of two distinguishes empty,
growing and full. A `Minute` of one tick makes the valve's window and the digest's delay
expire at any point of a run; `MaxLate` is 0, so that any row that is overdue may be claimed next. Ids
are reused once nothing refers to them, which keeps the table open-ended. The runs of `Outbox` with
safety properties only use the symmetry of rows and workers.

`outbox_live` takes a `Minute` of two, so that a merge can postpone a digest that is half due, and a
behaviour is one of three scenes. In the flood, one event after the other arrives in a chat over its
budget: a message that was sent, a digest that has one event, is postponed by the second and then full,
and an event on its way into it, hence four rows; the digest may fail and be retried. Then any
delivery may fail for now or for good and integrations are deleted, with three rows. Then two chats, each with a digest. A new row gets the least
free id and what the janitor may sweep is swept at once, since a finished row past the minute matters to
no step. One worker, as nothing in these scenes depends on a second; two are in `outbox`.

`ingest` has a scene for the stars, of which a third finds what two racing ones left; one for the
redelivery of a delivery two integrations want, while the app is uninstalled, settings change and
everything fails; and one for the event two connections share, in which a connection that comes second is
not a redelivery. Handlers are alike, so the first idle one takes a request, and stars are sent in
order. Each forge sends a delivery `MaxSends` times: the reason the runs of `Ingest` do not check
deadlock, since the system rests when all is sent. The runs of `Outbox` and `Broadcast` do; `chats` and
`interface` bound how often the outside acts, and rest too.

`broadcast`: three users and batches of two give a full batch and a rest, a cursor with users on both
sides of it, and one who joins behind it. One broadcast: that the oldest goes first is not tested. One
interrupted batch is enough to tell the copies of an interruption from others, as each is counted.

`chats`: one group, two ids, hence up to two rows and one fold. Two repositories: one connected in both
rows and one in either. Two parts, so that a part precedes the one that fails. One job, since jobs
share nothing but the rows; its payload is sound, or cannot be rendered, or its last part has markup
Telegram cannot parse. A behaviour either moves the tables with everything but a worker, or
delivers one job of one integration while the group is upgraded and the bot and the topics come and go
(`scene`): the two halves meet in the rows, which either half changes in every way the other can. The
delivery starts in a state the group reaches from `Init`, one chat with one integration.

`interface`: in the setup, two installations and two users racing with two redirects, two links and
every webhook; time passes (up to 2, a link living 1, a token 2, with a margin of 1) where one
installation moves. Tokens of different installations never meet, so one is enough there. The menu's
behaviours start from 18 stacks that the screens lead to, each with its menu posted, and take two
updates at once, so every pair of stages meets; one change by somebody else (a row deleted, a
promotion, a demotion) can fall anywhere between. `MaxDepth` 6 is never in the way of two updates. A
handler takes less than a tick, which is a minute there. Redirects, callers, taps and tasks are never
moved in one behaviour, so they share their values, and symmetry in them is sound (safety only).

### Fairness

The clock ticks. A worker polls once a second for ever (`Run`) and goes on with its batch: each
Telegram call returns (the client has timeouts, and a flood wait is bounded by what Telegram
asks), hence weak fairness of `Work`. Two steps have strong fairness because another worker's
short transaction can block them at times: `LoadDigest`, which waits for a lock that Postgres
grants in order; and the claim of a row, which skips it while locked and takes rows oldest first,
so that a row that is due stays at the head until taken. Nothing is assumed of statements that
fail: `outbox_live` allows none, and `outbox_crash` has crashes, whose point they are. In `Ingest` a
request is served to its end, and a forge sends again what was answered with an error.
GitHub leaves redelivery to its user's tools and GitLab retries by itself; the assumption is the
code's own (`httpapi/webhook.go:52`), and the property excuses a forge that has sent `MaxSends` times.

`Broadcast` assumes that the sender goes on (`WF_vars(Step)`): `Run` polls for ever, the client's calls
return, and a flood is waited out once. `Interrupt` has no fairness and happens `MaxLost` times, so
`BroadcastEnds` says that a broadcast that is not interrupted for ever ends. `Chats` assumes that each
worker goes on; that a call may time out is `Faulty`, bounded by `MaxFaults`; that handlers run is not
assumed, which is the point of `UpgradeFollowed`. `Installations` and `Menu` have safety properties only.

## Proofs

For any constants that meet the assumptions of their modules, with all failures allowed:

| theorem | states | in |
|---|---|---|
| `Invariance` | the inductive invariant | `OutboxProofs`, `IngestProofs`, `BroadcastProofs`, `ChatsProofs`, `InstallationsProofs` |
| `TypeCorrect` | `Spec => []TypeOK` | the same |
| `MenuInvariance`, `MenuTypeCorrect` | the inductive invariant of the menus, `MenuSpec => []MenuTypeOK` | `MenuProofs` |
| `TypesCorrect` | `Spec /\ MenuSpec => []TypesOK` of `Interface` | `MenuProofs` |
| `NoRowClaimedTwice`, `OutcomesAreFinal` | `[]ClaimedOnce`, `OutcomeIsFinal` | `OutboxProofs` |
| `NoEventTwice`, `NoEventChangesChat`, `NoEventLost` | `[]CarriedOnce`, `EventsStayInTheirChat`, `EventsLeaveAccountedFor` | `OutboxDeliveryProofs` |
| `AttemptsBounded`, `OwnerToldOnce`, `NothingResent` | `[]AttemptBudget`, `[]ToldOnceAndOnlyOfFailures`, `NoResendAfterAck` | `OutboxDeliveryProofs` |
| `ValveHolds` | `[]RateValve` | `OutboxDeliveryProofs` |
| `OutboxImplementsQueue` | `Spec => ImplementsDeliveryQueue` | `OutboxRefinementProofs` |
| `OneRowOfADelivery`, `StarsAreBounded` | `[]QueuedOnce`, `[]StarsBounded` | `IngestProofs` |
| `NobodyIsSkipped`, `CopiesAreBounded`, `CountsAreTrue` | `[]NobodySkipped`, `[]OnceUnlessInterrupted`, `[]NumbersAreTrue` | `BroadcastProofs` |
| `CancelBitesWithinABatch`, `TheEndIsToldOnce`, `TheEndIsFinal` | `[]CancelBites`, `[]ToldOnceDone`, `FinalIsFinal` | `BroadcastProofs` |
| `TheFunnelNarrows` | `[]FunnelNarrows` | `BroadcastProofs` |
| `JobsStayWhereConnected`, `FollowingKeeps` | `[]QueuedWhereConnected`, `MigrationKeeps` | `ChatsProofs` |
| `NothingIsGivenUpIdly`, `PartsArriveWholeAndOncePerTry` | `[]GivenUpForCause`, `[]WholeAndOncePerTry` | `ChatsProofs` |
| `OwnersCameThroughLinks`, `OwnershipNeverTransfers` | `[]OwnedThroughLink`, `OwnerNeverReplaced` | `InstallationsProofs` |
| `TokensOutliveRequests`, `UnusedConnectionsBounded` | `[]TokenOutlivesRequest`, `[]UnusedBounded` | `InstallationsProofs` |
| `RightsAreFresh`, `OnlyTheAdmitted` | `FreshRights`, `[]AdmittedOnly` | `MenuProofs` |
| `PromptsAnsweredOnce`, `TappedMenuChanges` | `[]PromptAnsweredOnce`, `TappedIsTheOneThatChanges` | `MenuProofs` |

The theorems are about the specifications from their own `Init`, with none of the scenes and few of
the bounds of the TLC instances: any number of users and any batch, any number of workers, parts and
repositories. The bounds that remain are those of the module itself (`MaxSends`, `MaxLost`, `MaxRows`,
`MaxJobs` and the like), for every value they may have. Each inductive invariant was an invariant of a
TLC run before it was proved.

*Who has which row* (`OutboxProofs`). `ClaimedOnce` alone is not inductive. That a claim cannot take a
row somebody has needs the row to be "sending", which `ClaimedOnce` says of rows still to be recorded
only; so `Recorded` adds that a row past that point is sent or failed. A merge must not touch a row in
other hands: `Locking` says that a locked digest is pending, of the right chat, and locked by one
worker, who is at the merge. `TypeOK` needs `attempts` to stay within `MaxAttempts`, which a digest
that is retried could pass if its count were lost: `AttemptLeft` says that an open row and a job in
hand have an attempt left. `Control` relates each worker's variables to its place. There is one lemma
per action; `EnvironmentKept` covers what leaves the workers alone, `JobStepKept` the steps of a
worker on its own job, `ClaimKept` what `ClaimedOnce` needs of either.

*Where events are* (`OutboxDeliveryProofs`). That a merge doubles no event needs the job's event to be in
no row but the job's: `JobsOwnTheirEvents`. That the row of a job being folded takes no other event
with it needs it to be about its own only, which holds as long as it is no digest: `OwnEvent`,
`FoldingEvents`. Together with `CarriedOnce` they are inductive (`Events`). What a step does to events
is then one of two: it leaves them in their rows (`LeavesEvents`), or it is a merge (`FoldsInto`).

*What was sent* (`OutboxDeliveryProofs`). The column `attempts` and the calls made differ for a row whose
call is not recorded yet, or never will be after a crash; `Ledger` says by how much at each place of
the worker, that a row with an acknowledged call is never open again but for the worker about to
record it, and that a row whose failure is being reported was not reported before.

*The valve* (`OutboxDeliveryProofs`). A worker counts a chat's minute and sends later, so the count alone
bounds nothing: other workers count the same minute in between. `Valve` bounds the event messages of
the minute and the workers past the valve (`Through`) together. A worker passes only while the minute
is below the budget, and then all workers at most are past it; recording a message moves its worker
from the one side to the other; nothing else adds to either. Digests are outside the count, since the
code does not stop them.

*The refinement* (`OutboxRefinementProofs`). `Fate` chooses the row that has an event; by `CarriedOnce`
there is one at most, so its fate is that row's status (`FateKnown`). An event whose row is deleted
while a worker has it stays taken, and to say what becomes of it one must know where it can turn up
again: `Pursuit` says that an event of an unrecorded job is in no row but the job's and no other job
is about it. Every step is then one of five kinds (`StepKinds`), each of which maps to a step of
`DeliveryQueue`: an insertion to `Accept`, a claim to `Take`, a merge to `Return` (or `Forget`, into a
full digest), a record to `Return`, `Deliver` or `Abandon` (or `Forget`, when the row is gone), and the
quiet ones to `Forget` or no step.

*Ownership, tokens, connections* (`InstallationsProofs`). `Brought` says that a redirect in service,
like an owner, was brought by a link; `Spent` that a token that brought somebody is gone for good,
tokens being random; `InTime` how long a caller's token outlives its request, from the margin and the
client's timeout; `Room` that each tap about to make a connection still has room below the bound.

*One row of a delivery* (`IngestProofs`). `QueuedOnce` needs to know who may still put a row. `Owned`
says that a request past `MarkDelivered` has its delivery recorded and is the only one working on it;
it is where the unique key of `gh_deliveries` is used. `Rows` says that an integration still to come
(`Fresh`) has no row, and that nothing was ever put for a delivery that is not recorded: that is why
one sent again after a crash before `MarkDelivered` may start afresh, and one after it never does. For
stars, reading and marking are two statements, so several requests may be told that the user is new:
`Stars` bounds the rows there are and the requests told so (`Asked`) together by the requests served at
a time, and says that before the mark there is no row and nobody past marking.

*Broadcasts* (`BroadcastProofs`). The batch in hand splits the users into those it is past (`Past`), those
left of it (`Left`) and those ahead. `InHand` says that the batch is in order and stands between the
cursor in the table and the one it will be set to. On this rest the others: nobody owed a copy is past
without having been tried (`Covered`); who is ahead has at most a copy for each batch given up, the
others one more (`Once`); what is counted is about users behind the cursor or past the batch, each
counted once (`Numbers`, with cardinalities); what is left of the batch is all that can still arrive
after a cancellation (`Late`). That a batch skips nobody is a fact about `Page`: the elements of a page
are the users of the audience with the least ranks above the cursor, so a user of the audience between
cursor and last element is in it. It is proved by counting those below, without induction.

*A group that is upgraded* (`ChatsProofs`). The tables first, with the keys that make them so: an
integration that is connected is in an existing chat and has its repository alone there (`IntegsOK`),
and what a webhook has read is either where the integration still is, or refused by a foreign key when
it is queued (`LoadedOK`); that is why `QueuedWhereConnected` survives a fold between the two
statements. Then the deliveries: a job being sent is in one worker's hands (`Held`); the parts before
the current one have arrived, those from it on have not in this try (`Landed`); and the copies of a
part are the finished tries and the present one at most (`Counted`). A job on its way to be given up is
to blame for it, by its payload or by an answer it had, and stays so (`BlameStays`): that is
`GivenUpForCause`, for any payload that is wrong in any of its parts. `MigrationKeeps` is a property of
a step: `OnlyMigrates` shows that no action but `MigrateChat` gives a row the new id, and
`MigrationLosesNothing` that a fold loses only what the surviving row has as well.

*Rights, stacks and prompts* (`MenuProofs`). `FreshRights` speaks of the moment something is done or
shown, and the check was made some stages earlier. So the invariant says what a task may be at every
stage: `Rights` that it is entitled to what it is about to do from the stage on at which it was allowed
it, that the list it was told is of this tick, and that the frames of the stack it has loaded, the
screen it shows and the prompt it answers are its user's to see; `Shapes` what it carries at which
stage, in particular that an answer is for the action whose prompt it answers, which is why a prompt
authorized under one name may be used under another. `Current` ties the cached list to its age: whoever
is on it was an administrator as many ticks ago, at most, as it is old. `MenusAdmitted` says the same
of stacks, menus and prompts that `Rights` says of tasks; a screen gets onto a stack by a task that
carries it, so the two hold only together. `HandleMoves` shows for every step of a handler that its task
is ended or as a task may be, by the rights before the step, and `RightsStay` that rights survive the
step: rows are dropped and never made again for somebody else (`RowsKept`), and nobody's time as an
administrator grows longer ago while a handler runs (`RolesKept`; a tick finds no handler under way).
`PromptsOnce` numbers the prompts: each is pending for one user, or answered by one task, or neither.
`Solo` says that a task whose user has no other keeps the anchor it adopted, which
`TappedIsTheOneThatChanges` needs at the edit. What `Prune` keeps is a loop over the stack, a recursive
function here; that it keeps frames of the stack only (`KeptFrames`) is proved from the least number of
rounds that would not, since the library's induction rule cannot be used.

The assumptions used are the named ones of the modules: finite sets of rows, workers, handlers and taps,
positive limits, a schedule that is not empty, a request shorter than the margin and than a token's life;
for `Menu`, that the bot's owners, the chat's creator and its managers are users, that `NoOne`, `Deleted`
and `NoMessage` are none of what they stand in for, and that a list is good for some time
(`MenuAssumption`, which `MCInterface` assumes for the instance it makes and each theorem of `MenuProofs`
for any). `TypesOK` of `Interface` is about both its parts, so its theorem is about a behaviour of both, in
which the steps of the two interleave in any way. `MCInterface` starts from richer states than `MenuInit`;
that a step keeps the invariant (`InvStays`) does not depend on where it was started, and the invariant
was checked by TLC from all of those states.

Three parts of the models had been written so that a proof could not use them and were changed without
changing what TLC explores. `Answers` and `RecordTopic` of `Chats` chose by `CASE` between conditions that
overlap, of which TLA+ leaves the choice open and TLC takes the first; they are chains of `IF` now, in
the code's order. `queued` of `Ingest` is a function of integrations to functions of posts. `Prune` of
`Menu` selected frames by an operator of the library of sequences, of which nothing can be proved; it is
the code's loop now.

Only model-checked, being out of the prover's reach: the liveness properties `EveryEventSettles`,
`DeliveryNotLost`, `BroadcastEnds` and `UpgradeFollowed`, which need fairness. That the runs do not
deadlock, where they check it, is about which steps are enabled and is TLC's too.

## Not modelled

Texts, translations, rendering, HTML, keyboards. The content of payloads, beyond whether an event
is wanted and who its author is. Postgres below the level of statements, row locks, SKIP LOCKED
and foreign keys; in particular `SELECT ... FOR UPDATE` is taken to see the row as it is when the
lock is granted, which is how READ COMMITTED re-evaluates it. The janitor's sweep of `gh_deliveries` would need a forge that sends again after seven
days; its sweeps of old buttons and of the audit log touch nothing a property is about (a button may
be forgotten at any time in `Menu`). Suspending an installation sets a flag that ingestion does not
read. Checking signatures and parsing payloads (`forge/*`, `events/*`), encryption, configuration and
translations are pure functions, or read once at the start. Pages of repositories and comparisons of
commits are read from GitHub without state. The audit log, the health figures and statistics are
written or shown and never decide anything. In `Menu`: languages, which events and filters are chosen,
and the retry without custom emoji. In `Broadcast`: which of two running broadcasts
goes first. `Split`, which cuts a text into parts, works on characters.

## Plan

Done: `Outbox`, `DeliveryQueue`, the refinement and its proof, `Ingest`, `Broadcast`, `Chats`,
`Installations`, `Menu`, and the proofs above.

1. The composition of `Ingest` and `Outbox`: from a delivery to the message, with mute.
2. Pure algorithms against a reference: `globMatch`, `Split`.
