-------------------------------- MODULE Chats --------------------------------
(***************************************************************************)
(* A Telegram group the bot is in, which is upgraded to a supergroup and   *)
(* so gets a second id: the rows of chats, chat_managers, chat_topics,     *)
(* integrations and outbox (internal/storage), the handlers that follow    *)
(* Telegram's updates (tg/handlers.go, tg/topics.go), connecting a         *)
(* repository (service/integrate.go), and the Sender that delivers to the  *)
(* chat while all that changes under it (tg/sender.go).                    *)
(*                                                                         *)
(* A step is a statement, a transaction or a Telegram call.  The handler   *)
(* of every update runs in a goroutine of its own, so updates take effect  *)
(* in any order.                                                           *)
(*                                                                         *)
(* A definition whose name extends the name of the one it precedes is that *)
(* one with a plausible mistake; only the mutation runs use it.            *)
(***************************************************************************)
EXTENDS Integers, FiniteSets, Sequences

CONSTANTS
  Users, Adder,  \* Adder brought the bot into the group
  Topics, General,
  Repos,       \* pairs of an installation and a repository of it
  Senders,     \* outbox workers
  Parts,       \* messages that one notification is split into
  MaxAttempts,
  MaxRows, MaxIntegs, MaxJobs,  \* bounds of the ids ever given in chats, integrations, outbox
  MaxMoves,    \* bound of the times the bot is added, promoted or removed
  MaxFaults    \* bound of the calls and statements that fail

ASSUME GeneralAssumption == General \notin Topics
ASSUME AdderAssumption == Adder \in Users
ASSUME NumbersAssumption ==
  /\ Parts \in Nat \ {0} /\ MaxAttempts \in Nat \ {0} /\ MaxRows \in Nat \ {0}
  /\ MaxIntegs \in Nat /\ MaxJobs \in Nat
  /\ MaxMoves \in Nat /\ MaxFaults \in Nat

VARIABLES
  upgraded, member, alive, premium,  \* Telegram's side: the group, the bot in it, its
                                     \* topics, and whether the bot may use custom emoji
  updates,     \* updates Telegram has sent and no handler has taken; one that no
               \* handler ever takes was lost when the process stopped
  chats, managers, seen, integs, outbox, lastRow,  \* the tables
  greeting,    \* handlers of "the bot was added" at work
  connecting,  \* taps on "connect" at work
  loaded,      \* webhooks that have read their integrations and not queued yet
  sending,     \* what each sender is at
  arrived,     \* how often each part of a job is in the group (no column)
  refused,     \* jobs Telegram would not take because the bot is not there (no column)
  overtaken,   \* jobs whose remedy met an upgrade (no column)
  moves, faults

telegram == <<upgraded, member, alive, premium>>
tables   == <<chats, managers, seen, integs, outbox, lastRow>>
handlers == <<greeting, connecting, loaded>>
senders  == <<sending, arrived, refused, overtaken>>
vars     == <<telegram, updates, tables, handlers, senders, moves, faults>>

Gone == 0        \* the chat of an integration or job whose row is deleted; ids are
                 \* serial, so a deleted row keeps its place in the sequence
Idle == [at |-> "idle"]

HasRow(tg) == \E c \in DOMAIN chats : chats[c].tg = tg
RowOf(tg)  == CHOOSE c \in DOMAIN chats : chats[c].tg = tg

LiveId    == IF upgraded THEN "new" ELSE "old"
Connected == {i \in DOMAIN integs : integs[i].chat # Gone}
InRow(c)  == {i \in Connected : integs[i].chat = c}

\* The bot has been in the group for a day: there is a row, whoever added the
\* bot is its manager; is and os are the rows of integrations and outbox.
InitWith(is, os) ==
  /\ upgraded = FALSE /\ member = TRUE /\ alive = {} /\ premium \in BOOLEAN
  /\ updates = {}
  /\ chats = [c \in {1} |-> [tg |-> "old", topic |-> General]]
  /\ managers = {<<1, Adder>>}
  /\ seen = {}
  /\ integs = is /\ outbox = os
  /\ lastRow = 1
  /\ greeting = {} /\ connecting = {} /\ loaded = {}
  /\ sending = [w \in Senders |-> Idle]
  /\ arrived = [j \in DOMAIN os |-> [p \in 1..Parts |-> 0]]
  /\ refused = {} /\ overtaken = {}
  /\ moves = 0 /\ faults = 0

Init == InitWith(<<>>, <<>>)

NewIntegration(c, p) == [chat |-> c, repo |-> p, broken |-> FALSE]

\* flaws is what is wrong with the payload: 0 stands for the rendering of it,
\* p for the markup of the p-th part of the text.
NewJob(c, i, flaws) ==
  [chat |-> c, integ |-> i, flaws |-> flaws, status |-> "pending", attempts |-> 0]

-----------------------------------------------------------------------------
(***************************************************************************)
(* Telegram.                                                               *)
(***************************************************************************)

\* Two service messages tell of an upgrade, one under each id.
Upgrade ==
  /\ ~upgraded
  /\ upgraded' = TRUE
  /\ updates' = updates \cup {[kind |-> "migrated", by |-> "old"], [kind |-> "migrated", by |-> "new"]}
  /\ UNCHANGED <<member, alive, premium, tables, handlers, senders, moves, faults>>

\* Added, made an administrator, or removed.
Move ==
  /\ moves < MaxMoves
  /\ moves' = moves + 1
  /\ \/ /\ member' = TRUE
        /\ \E u \in Users : updates' = updates \cup {[kind |-> "added", tg |-> LiveId, user |-> u]}
     \/ /\ member
        /\ member' = FALSE
        /\ updates' = updates \cup {[kind |-> "removed", tg |-> LiveId]}
  /\ UNCHANGED <<upgraded, alive, premium, tables, handlers, senders, faults>>

\* A topic is made or closed; the bot sees the service message.
ChangeTopic(t) ==
  /\ upgraded /\ member
  /\ alive' = IF t \in alive THEN alive \ {t} ELSE alive \cup {t}
  /\ updates' = updates \cup {[kind |-> IF t \in alive THEN "closed" ELSE "topic", topic |-> t]}
  /\ UNCHANGED <<upgraded, member, premium, tables, handlers, senders, moves, faults>>

-----------------------------------------------------------------------------
(***************************************************************************)
(* The tables.                                                             *)
(***************************************************************************)

\* DELETE FROM chats: integrations go along, and with them what is queued.
DeleteRow(c) ==
  /\ chats' = [d \in DOMAIN chats \ {c} |-> chats[d]]
  /\ managers' = {m \in managers : m[1] # c}
  /\ seen' = {s \in seen : s[1] # c}
  /\ integs' = [i \in DOMAIN integs |->
       IF integs[i].chat = c THEN [integs[i] EXCEPT !.chat = Gone] ELSE integs[i]]
  /\ outbox' = [j \in DOMAIN outbox |->
       IF outbox[j].chat = c THEN [outbox[j] EXCEPT !.chat = Gone] ELSE outbox[j]]
  /\ UNCHANGED lastRow

MovesNew(i, o, n) == integs[i].chat = n /\ InRow(o) = {}

\* What the duplicate has and the old row has not moves over.
Moves(i, o, n) ==
  /\ integs[i].chat = n
  /\ ~\E k \in InRow(o) : integs[k].repo = integs[i].repo

QueueForgotten(c, o, n) == IF c = n THEN Gone ELSE c

\* UPDATE outbox SET chat_id.
QueueMoves(c, o, n) == IF c = n THEN o ELSE c

\* The row of the supergroup, n, is folded into the group's, o.  What stays
\* with n is deleted with it.  Of n's own columns title and is_forum are kept,
\* its topic_id is not.
Fold(o, n) ==
  LET dropped == {i \in InRow(n) : ~Moves(i, o, n)} IN
  /\ chats' = [c \in DOMAIN chats \ {n} |->
                 IF c = o THEN [chats[o] EXCEPT !.tg = "new"] ELSE chats[c]]
  /\ managers' = {<<IF m[1] = n THEN o ELSE m[1], m[2]>> : m \in managers}
  /\ seen' = {<<IF s[1] = n THEN o ELSE s[1], s[2]>> : s \in seen}
  /\ integs' = [i \in DOMAIN integs |->
       IF integs[i].chat # n THEN integs[i]
       ELSE [integs[i] EXCEPT !.chat = IF i \in dropped THEN Gone ELSE o]]
  /\ outbox' = [j \in DOMAIN outbox |->
       [outbox[j] EXCEPT !.chat = IF outbox[j].integ \in dropped THEN Gone
                                  ELSE QueueMoves(@, o, n)]]
  /\ UNCHANGED lastRow

MigrateChatOnlyRenames ==
  IF HasRow("old")
  THEN /\ chats' = [chats EXCEPT ![RowOf("old")].tg = "new"]
       /\ UNCHANGED <<managers, seen, integs, outbox, lastRow>>
  ELSE UNCHANGED tables

\* One transaction.  Both rows are locked first, so statements that refer to
\* them come before it or after it.
MigrateChat ==
  CASE ~HasRow("old") -> UNCHANGED tables
    [] HasRow("old") /\ ~HasRow("new") ->
         /\ chats' = [chats EXCEPT ![RowOf("old")].tg = "new"]
         /\ UNCHANGED <<managers, seen, integs, outbox, lastRow>>
    [] OTHER -> Fold(RowOf("old"), RowOf("new"))

-----------------------------------------------------------------------------
(***************************************************************************)
(* Handlers of updates.                                                    *)
(***************************************************************************)
Take(u) == u \in updates /\ updates' = updates \ {u}

HandleChatMigrated(u) ==
  /\ u.kind = "migrated" /\ Take(u)
  /\ MigrateChat
  /\ UNCHANGED <<telegram, handlers, senders, moves, faults>>

\* DeleteChat, whatever has happened since the bot was removed.
HandleRemoved(u) ==
  /\ u.kind = "removed" /\ Take(u)
  /\ IF HasRow(u.tg) THEN DeleteRow(RowOf(u.tg)) ELSE UNCHANGED tables
  /\ UNCHANGED <<telegram, handlers, senders, moves, faults>>

\* handleAddedToChat: UpsertChat, then AddChatManager, then
\* ClearChatIntegrationsBroken.
UpsertChat(u) ==
  /\ u.kind = "added" /\ Take(u)
  /\ HasRow(u.tg) \/ lastRow < MaxRows
  /\ LET c == IF HasRow(u.tg) THEN RowOf(u.tg) ELSE lastRow + 1 IN
       /\ chats' = IF HasRow(u.tg) THEN chats
                   ELSE [d \in DOMAIN chats \cup {c} |->
                           IF d = c THEN [tg |-> u.tg, topic |-> General] ELSE chats[d]]
       /\ lastRow' = IF HasRow(u.tg) THEN lastRow ELSE c
       /\ greeting' = greeting \cup {[at |-> "manager", row |-> c, tg |-> u.tg, user |-> u.user]}
  /\ UNCHANGED <<telegram, managers, seen, integs, outbox, connecting, loaded, senders, moves, faults>>

\* The foreign key refuses a row that is gone; then the handler ends here.
AddChatManager(h) ==
  /\ h.at = "manager"
  /\ IF h.row \in DOMAIN chats
     THEN /\ managers' = managers \cup {<<h.row, h.user>>}
          /\ greeting' = (greeting \ {h}) \cup {[h EXCEPT !.at = "revive"]}
     ELSE greeting' = greeting \ {h} /\ UNCHANGED managers
  /\ UNCHANGED <<telegram, updates, chats, seen, integs, outbox, lastRow,
                 connecting, loaded, senders, moves, faults>>

ClearChatIntegrationsBroken(h) ==
  /\ h.at = "revive"
  /\ integs' = [i \in DOMAIN integs |->
       IF HasRow(h.tg) /\ integs[i].chat = RowOf(h.tg)
       THEN [integs[i] EXCEPT !.broken = FALSE] ELSE integs[i]]
  /\ greeting' = greeting \ {h}
  /\ UNCHANGED <<telegram, updates, chats, managers, seen, outbox, lastRow,
                 connecting, loaded, senders, moves, faults>>

\* recordTopic: topics belong to the row under the new id, if there is one.
RecordTopic(u) ==
  /\ u.kind \in {"topic", "closed"} /\ Take(u)
  /\ seen' = IF ~HasRow("new") THEN seen
             ELSE IF u.kind = "topic" THEN seen \cup {<<RowOf("new"), u.topic>>}
             ELSE seen \ {<<RowOf("new"), u.topic>>}
  /\ UNCHANGED <<telegram, chats, managers, integs, outbox, lastRow, handlers, senders, moves, faults>>

-----------------------------------------------------------------------------
(***************************************************************************)
(* What administrators do, and webhooks.                                   *)
(***************************************************************************)

\* The administrator checker asks Telegram under the id a screen knows.
ChecksAdmins ==
  /\ upgraded /\ HasRow("old")
  /\ MigrateChat
  /\ UNCHANGED <<telegram, updates, handlers, senders, moves, faults>>

\* applyTopic and createTopic, under the id the screen carries.
SetChatTopic(tg, t) ==
  /\ HasRow(tg)
  /\ t = General \/ <<RowOf(tg), t>> \in seen
  /\ chats' = [chats EXCEPT ![RowOf(tg)].topic = t]
  /\ UNCHANGED <<telegram, updates, managers, seen, integs, outbox, lastRow,
                 handlers, senders, moves, faults>>

\* handleConnect has resolved the row's Telegram id and the checker agreed.
StartConnect(c, p) ==
  /\ connecting = {} /\ Len(integs) < MaxIntegs
  /\ c \in DOMAIN chats
  /\ upgraded => chats[c].tg = "new"      \* see ChecksAdmins
  /\ connecting' = {[row |-> c, repo |-> p]}
  /\ UNCHANGED <<telegram, updates, tables, greeting, loaded, senders, moves, faults>>

\* CreateIntegration: the foreign key and the unique key may refuse.
CreateIntegration(k) ==
  /\ integs' = IF k.row \notin DOMAIN chats \/ \E i \in InRow(k.row) : integs[i].repo = k.repo
               THEN integs
               ELSE Append(integs, NewIntegration(k.row, k.repo))
  /\ connecting' = connecting \ {k}
  /\ UNCHANGED <<telegram, updates, chats, managers, seen, outbox, lastRow,
                 greeting, loaded, senders, moves, faults>>

\* DELETE FROM integrations: disconnected in the menu, or the installation is
\* deleted.
Disconnect(i) ==
  /\ i \in Connected
  /\ integs' = [integs EXCEPT ![i].chat = Gone]
  /\ outbox' = [j \in DOMAIN outbox |->
       IF outbox[j].integ = i THEN [outbox[j] EXCEPT !.chat = Gone] ELSE outbox[j]]
  /\ UNCHANGED <<telegram, updates, chats, managers, seen, lastRow,
                 handlers, senders, moves, faults>>

\* A webhook reads the integration, and the row's id with it.
IntegrationsForRepo(i) ==
  /\ loaded = {} /\ Len(outbox) < MaxJobs
  /\ i \in Connected /\ ~integs[i].broken
  /\ loaded' = {[integ |-> i, row |-> integs[i].chat]}
  /\ UNCHANGED <<telegram, updates, tables, greeting, connecting, senders, moves, faults>>

ReferencesUnchecked(l) == TRUE

\* The foreign keys of an outbox row.
References(l) == l.row \in DOMAIN chats /\ l.integ \in Connected

\* When a key refuses, the webhook fails.
Enqueue(l) ==
  /\ IF References(l)
     THEN /\ \E flaws \in SUBSET (0..Parts) : outbox' = Append(outbox, NewJob(l.row, l.integ, flaws))
          /\ arrived' = Append(arrived, [p \in 1..Parts |-> 0])
     ELSE UNCHANGED <<outbox, arrived>>
  /\ loaded' = {}
  /\ UNCHANGED <<telegram, updates, chats, managers, seen, integs, lastRow, sending,
                 refused, overtaken, greeting, connecting, moves, faults>>

-----------------------------------------------------------------------------
(***************************************************************************)
(* The Sender.                                                             *)
(***************************************************************************)
Go(w, at) == sending' = [sending EXCEPT ![w].at = at]

\* Deliver renders the payload before it calls Telegram.
Rendered(j) == 0 \notin outbox[j].flaws

\* The claim reads the chat's id and topic; Deliver never reads them again.
Claim(w, j) ==
  /\ sending[w] = Idle
  /\ outbox[j].chat # Gone /\ outbox[j].status = "pending"
  /\ outbox' = [outbox EXCEPT ![j].status = "sending"]
  /\ LET c == chats[outbox[j].chat] IN
       sending' = [sending EXCEPT ![w] =
         [at |-> IF Rendered(j) THEN "send" ELSE "permanent", job |-> j, tg |-> c.tg, here |-> c.tg, topic |-> c.topic, part |-> 1]]
  /\ UNCHANGED <<telegram, updates, chats, managers, seen, integs, lastRow,
                 handlers, arrived, refused, overtaken, moves, faults>>

\* What Telegram may answer to a message in thread t under an id.  A bot that
\* is not in the group hears so, or that there is no such chat.
Answers(tg, t, plain, malformed) ==
  IF malformed                           THEN {"malformed"}
  ELSE IF tg = "old" /\ upgraded         THEN {"migrated"}
  ELSE IF ~member                        THEN {"kicked", "not found"}
  ELSE IF t # General /\ t \notin alive  THEN {"topic"}
  ELSE IF ~premium /\ ~plain             THEN {"emoji"}
  ELSE {"ok"}

NextPartButLast(s) ==
  IF s.part + 1 >= Parts THEN [s EXCEPT !.at = "sent"]
  ELSE [s EXCEPT !.at = "send", !.part = @ + 1, !.here = s.tg]

\* sendPart goes on to the next part, each one addressed as the job says.
NextPart(s) ==
  IF s.part = Parts THEN [s EXCEPT !.at = "sent"]
  ELSE [s EXCEPT !.at = "send", !.part = @ + 1, !.here = s.tg]

MigratedGivesUp(s) == [s EXCEPT !.at = "permanent"]

\* Only the first call follows the upgrade; a remedy that meets it is
\* classified, as permanent.
Migrated(s) == [s EXCEPT !.at = IF s.at = "send" THEN "migrate" ELSE "permanent"]

\* What is tried next after an answer: a first refusal because of the chat,
\* the topic or the emoji has its remedy, after a remedy the error is
\* classified.
After(s, answer) ==
  CASE answer = "ok"       -> NextPart(s)
    [] answer = "kicked"   -> [s EXCEPT !.at = "kicked"]
    [] answer \in {"malformed", "not found"} -> [s EXCEPT !.at = "permanent"]
    [] answer = "migrated" -> Migrated(s)
    [] answer = "topic" /\ s.at \in {"send", "resend"} -> [s EXCEPT !.at = "forget"]
    [] answer = "emoji" /\ s.at \in {"send", "resend"} -> [s EXCEPT !.at = "plain"]
    [] OTHER               -> [s EXCEPT !.at = "retry"]

Calls == {"send", "resend", "general", "plain"}

Ask(s) == Answers(s.here, IF s.at = "general" THEN General ELSE s.topic, s.at = "plain",
                  s.part \in outbox[s.job].flaws)

Lands(s) == arrived' = [arrived EXCEPT ![s.job][s.part] = @ + 1]

Answered(w, answer) ==
  LET s == sending[w] IN
  /\ sending' = [sending EXCEPT ![w] = After(s, answer)]
  /\ IF answer = "ok" THEN Lands(s) ELSE UNCHANGED arrived
  /\ refused' = IF answer \in {"kicked", "not found"} THEN refused \cup {s.job} ELSE refused
  /\ overtaken' = IF answer = "migrated" /\ s.at # "send" THEN overtaken \cup {s.job} ELSE overtaken

SendMessage(w) ==
  /\ sending[w].at \in Calls
  /\ \E answer \in Ask(sending[w]) : Answered(w, answer)
  /\ UNCHANGED <<telegram, updates, tables, handlers, moves, faults>>

\* The network fails on the way there, or on the way back.
SendTimesOut(w) ==
  LET s == sending[w] IN
  /\ faults < MaxFaults /\ faults' = faults + 1
  /\ s.at \in Calls
  /\ Go(w, "retry")
  /\ UNCHANGED arrived \/ (Ask(s) = {"ok"} /\ Lands(s))
  /\ UNCHANGED <<telegram, updates, tables, handlers, refused, overtaken, moves>>

OnMigratedOnlyResends(w) ==
  /\ sending[w].at = "migrate"
  /\ sending' = [sending EXCEPT ![w].at = "resend", ![w].here = "new"]
  /\ UNCHANGED <<telegram, updates, tables, handlers, arrived, refused, overtaken, moves, faults>>

OnMigrated(w) ==
  /\ sending[w].at = "migrate"
  /\ MigrateChat
  /\ sending' = [sending EXCEPT ![w].at = "resend", ![w].here = "new"]
  /\ UNCHANGED <<telegram, updates, handlers, arrived, refused, overtaken, moves, faults>>

\* ClearTopic: two statements, by the chat and not by the topic that was found
\* missing.
ForgetClearedTopic(w) ==
  LET tg == sending[w].here IN
  /\ sending[w].at = "forget"
  /\ seen' = IF HasRow(tg) THEN seen \ {<<RowOf(tg), chats[RowOf(tg)].topic>>} ELSE seen
  /\ Go(w, "unset")
  /\ UNCHANGED <<telegram, updates, chats, managers, integs, outbox, lastRow,
                 handlers, arrived, refused, overtaken, moves, faults>>

ClearTopic(w) ==
  LET tg == sending[w].here IN
  /\ sending[w].at = "unset"
  /\ chats' = IF HasRow(tg) THEN [chats EXCEPT ![RowOf(tg)].topic = General] ELSE chats
  /\ Go(w, "general")
  /\ UNCHANGED <<telegram, updates, managers, seen, integs, outbox, lastRow,
                 handlers, arrived, refused, overtaken, moves, faults>>

\* One of those statements fails.
RemedyFails(w) ==
  /\ faults < MaxFaults /\ faults' = faults + 1
  /\ sending[w].at \in {"migrate", "forget", "unset"}
  /\ Go(w, "retry")
  /\ UNCHANGED <<telegram, updates, tables, handlers, arrived, refused, overtaken, moves>>

\* record, see Outbox for what surrounds it.  Of a row that is gone this only
\* keeps the books for the properties.
Record(w) ==
  LET s == sending[w]
      n == outbox[s.job].attempts + 1 IN
  /\ s.at \in {"sent", "retry", "permanent", "kicked"}
  /\ outbox' = [outbox EXCEPT ![s.job].attempts = n, ![s.job].status =
       CASE s.at = "sent" -> "sent"
         [] s.at \in {"permanent", "kicked"} \/ (s.at = "retry" /\ n >= MaxAttempts) -> "failed"
         [] OTHER -> "pending"]
  /\ IF s.at = "kicked" THEN Go(w, "hook") ELSE sending' = [sending EXCEPT ![w] = Idle]
  /\ UNCHANGED <<telegram, updates, chats, managers, seen, integs, lastRow,
                 handlers, arrived, refused, overtaken, moves, faults>>

\* onPermanent of cmd/bot after a 403.
MarkIntegrationBroken(w) ==
  LET i == outbox[sending[w].job].integ IN
  /\ sending[w].at = "hook"
  /\ integs' = IF i \in Connected THEN [integs EXCEPT ![i].broken = TRUE] ELSE integs
  /\ sending' = [sending EXCEPT ![w] = Idle]
  /\ UNCHANGED <<telegram, updates, chats, managers, seen, outbox, lastRow,
                 handlers, arrived, refused, overtaken, moves, faults>>

-----------------------------------------------------------------------------
Handler ==
  \/ \E u \in updates :
       HandleChatMigrated(u) \/ HandleRemoved(u) \/ UpsertChat(u) \/ RecordTopic(u)
  \/ \E h \in greeting : AddChatManager(h) \/ ClearChatIntegrationsBroken(h)
  \/ \E k \in connecting : CreateIntegration(k)
  \/ \E l \in loaded : Enqueue(l)

ChoosesTopic == \E tg \in {"old", "new"}, t \in Topics \cup {General} : SetChatTopic(tg, t)

Administrator ==
  \/ ChecksAdmins \/ ChoosesTopic
  \/ \E c \in DOMAIN chats, p \in Repos : StartConnect(c, p)
  \/ \E i \in Connected : Disconnect(i)

Webhook == \E i \in Connected : IntegrationsForRepo(i)

Telegram ==
  \/ Upgrade \/ Move
  \/ \E t \in Topics : ChangeTopic(t)

Deliver(w) ==
  \/ SendMessage(w) \/ OnMigrated(w) \/ ForgetClearedTopic(w) \/ ClearTopic(w)
  \/ Record(w) \/ MarkIntegrationBroken(w)

Worker(w) == Deliver(w) \/ \E j \in DOMAIN outbox : Claim(w, j)

Faulty == \E w \in Senders : SendTimesOut(w) \/ RemedyFails(w)

Next == Telegram \/ Handler \/ Administrator \/ Webhook \/ Faulty \/ \E w \in Senders : Worker(w)

Spec == Init /\ [][Next]_vars

\* The workers keep running (main.go), nothing else has to happen.
FairSpec == Spec /\ \A w \in Senders : WF_vars(Worker(w))

-----------------------------------------------------------------------------
(***************************************************************************)
(* Properties.                                                             *)
(***************************************************************************)
Sending == [at: Calls \cup {"migrate", "forget", "unset", "sent", "retry", "permanent", "kicked", "hook"},
            job: 1..MaxJobs, tg: {"old", "new"}, here: {"old", "new"},
            topic: Topics \cup {General}, part: 1..Parts]

\* Every variable stays within its type; the foreign keys of the tables hold,
\* and at most one row has each of the group's ids.
TypeOK ==
  /\ upgraded \in BOOLEAN /\ member \in BOOLEAN /\ alive \subseteq Topics /\ premium \in BOOLEAN
  /\ DOMAIN chats \subseteq 1..lastRow
  /\ chats \in [DOMAIN chats -> [tg: {"old", "new"}, topic: Topics \cup {General}]]
  /\ \A c, d \in DOMAIN chats : chats[c].tg = chats[d].tg => c = d
  /\ managers \subseteq (DOMAIN chats) \X Users
  /\ seen \subseteq (DOMAIN chats) \X Topics
  /\ integs \in Seq([chat: (DOMAIN chats) \cup {Gone}, repo: Repos, broken: BOOLEAN])
  /\ outbox \in Seq([chat: (DOMAIN chats) \cup {Gone}, integ: 1..Len(integs), flaws: SUBSET (0..Parts),
                     status: {"pending", "sending", "sent", "failed"}, attempts: 0..MaxAttempts])
  /\ lastRow \in 1..MaxRows
  /\ sending \in [Senders -> {Idle} \cup Sending]
  /\ arrived \in Seq([1..Parts -> Nat]) /\ Len(arrived) = Len(outbox)
  /\ refused \subseteq DOMAIN outbox /\ overtaken \subseteq DOMAIN outbox

\* A queued job and the integration it reports for are in the same chat,
\* whatever was read before the chat was folded into another and written after.
QueuedWhereConnected ==
  \A j \in DOMAIN outbox : outbox[j].chat # Gone =>
    outbox[j].chat = integs[outbox[j].integ].chat

Followed == \E c \in DOMAIN chats \cap DOMAIN chats' :
              chats[c].tg = "old" /\ chats'[c].tg = "new"

\* Following an upgrade loses nothing of the group: "its managers, topics and
\* integrations move over, and anything that would collide with what the old
\* row already has is dropped" (chat_migrate.go:18-20) -- so each repository
\* stays connected once, and only what a dropped integration had queued goes.
MigrationKeeps ==
  [][Followed =>
       /\ {integs[i].repo : i \in Connected} \subseteq {integs[i].repo : i \in Connected}'
       /\ {m[2] : m \in managers} \subseteq {m[2] : m \in managers}'
       /\ {s[2] : s \in seen} \subseteq {s[2] : s \in seen}'
       /\ \A i, k \in Connected' : integs'[i].repo = integs'[k].repo => i = k
       /\ \A j \in DOMAIN outbox : outbox[j].chat # Gone /\ outbox'[j].chat = Gone =>
            \E k \in Connected \ {outbox[j].integ} :
              integs[k].repo = integs[outbox[j].integ].repo]_vars

Flawed == {j \in DOMAIN outbox : outbox[j].flaws # {}}
Blamed == Flawed \cup refused \cup overtaken

\* A topic that is gone and refused emoji cost no event.  One is given up only
\* for a payload that cannot be rendered or parsed (sender.go:63-66, 173-175),
\* when the bot is not in the chat (167-168, 173), after MaxAttempts tries, or
\* when the upgrade came between the first call and its remedy.
GivenUpForCause ==
  \A j \in DOMAIN outbox : outbox[j].status = "failed" =>
    j \in Blamed \/ outbox[j].attempts >= MaxAttempts

\* After an upgrade "the job is resent there instead of dropped"
\* (sender.go:42-44): it is given up for the payload, because the bot is not in
\* the chat, or at the last try, and never for the upgrade.
ResentNotDropped ==
  \A j \in DOMAIN outbox : outbox[j].status = "failed" =>
    j \in Flawed \cup refused \/ outbox[j].attempts >= MaxAttempts

\* What is recorded as sent has arrived whole, and a try puts no part into the
\* group twice, whichever resends it goes through: a part is there at most as
\* often as the job was tried.
WholeAndOncePerTry ==
  \A j \in DOMAIN outbox, p \in 1..Parts :
    /\ outbox[j].status = "sent" => arrived[j][p] >= 1
    /\ arrived[j][p] <= outbox[j].attempts + IF outbox[j].status = "sending" THEN 1 ELSE 0

Queued(j) == j \in DOMAIN outbox /\ outbox[j].chat # Gone /\ outbox[j].status = "pending"

\* Even when every update about it is lost, an upgrade is followed once there
\* is something to deliver (sender.go:93-104, main.go:90-91) that can be
\* rendered and parsed.
UpgradeFollowed ==
  \A j \in 1..MaxJobs :
    upgraded /\ Queued(j) /\ j \notin Flawed /\ chats[outbox[j].chat].tg = "old"
      ~> ~HasRow("old") \/ (j \in DOMAIN outbox /\ outbox[j].chat = Gone)
=============================================================================
