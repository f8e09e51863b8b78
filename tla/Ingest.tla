-------------------------------- MODULE Ingest --------------------------------
(***************************************************************************)
(* From a forge's webhook to the rows of the outbox: the handlers of       *)
(* internal/httpapi, internal/service.Ingest and the queries they make.    *)
(* Every request is served by a goroutine of its own, every statement is a *)
(* transaction of its own, and the forge may send a delivery again while   *)
(* an earlier request for it is still being served.                        *)
(*                                                                         *)
(* A connection is a row of the installations table: an installation of    *)
(* the GitHub app, or a webhook connection of another forge.  What a post  *)
(* says of its repository is left out: each connection has one repository, *)
(* so a post is for the integrations of its connection.                    *)
(*                                                                         *)
(* As in Outbox, a definition whose name extends the name of the one it    *)
(* precedes (KeyShared, Key) is that one with a plausible mistake in it,   *)
(* and only the mutation runs of PROJECT.json use it.                      *)
(***************************************************************************)
EXTENDS Integers, FiniteSets

CONSTANTS
  Handlers,      \* goroutines serving requests at a time
  Posts,         \* deliveries: [id, via, kind, actor], see Post
  Connections,
  Forge,         \* the provider of a connection: "github" or another
  Integrations,
  ConnectionOf,  \* the connection an integration belongs to
  Chats,
  ChatOf,        \* the chat of an integration
  MaxSends,      \* how often a forge sends a delivery it gets no 200 for
  Changes,       \* which settings are changed meanwhile, see Settings
  Faults,        \* which of {"db", "crash"} may happen
  Nothing

Kinds  == {"event", "unwanted", "star", "unstar", "installed", "uninstalled"}
Actors == {p.actor : p \in Posts}

ASSUME HandlersAssumption   == IsFiniteSet(Handlers)
ASSUME ConnectionAssumption ==
  /\ Forge \in [Connections -> {"github", "other"}]
  /\ ConnectionOf \in [Integrations -> Connections]
  /\ ChatOf \in [Integrations -> Chats]
ASSUME PostsAssumption ==
  \A p \in Posts : /\ p.via \in Connections /\ p.kind \in Kinds
                   /\ Forge[p.via] # "github" => p.kind \in {"event", "unwanted"}
ASSUME ChangesAssumption ==
  /\ Changes \subseteq {"mute", "toggle", "filter", "break", "delete"}
  /\ Faults \subseteq {"db", "crash"}
  /\ MaxSends \in Nat
ASSUME NothingAssumption == Nothing \notin Posts \cup Integrations

VARIABLES
  connections,  \* those that exist
  live,         \* the integrations that exist
  broken,       \* integrations with a broken_reason
  muted,        \* chats whose muted_until lies ahead
  disabled,     \* event_settings: the kinds an integration has switched off
  ignored,      \* filters: the authors an integration ignores
  recorded,     \* gh_deliveries
  starred,      \* star_actors
  queued,       \* how many rows a delivery has put into the outbox, by integration
  pc,           \* where each handler is,
  post,         \* what it serves,
  todo,         \* the integrations it has not looked at
  at,           \* and the one it is looking at
  sent,         \* how often the forge has sent a delivery,
  answer        \* and what it was told

settings == <<muted, disabled, ignored, broken>>
store    == <<connections, live, settings, recorded, starred>>
handling == <<pc, post, todo, at>>
forge    == <<sent, answer>>
vars     == <<store, queued, handling, forge>>

Init ==
  /\ connections = Connections /\ live = Integrations
  /\ broken = {} /\ muted = {} /\ disabled = {} /\ ignored = {}
  /\ recorded = {} /\ starred = {}
  /\ queued = [i \in Integrations |-> [p \in Posts |-> 0]]
  /\ pc = [h \in Handlers |-> "idle"]
  /\ post = [h \in Handlers |-> Nothing]
  /\ todo = [h \in Handlers |-> {}]
  /\ at = [h \in Handlers |-> Nothing]
  /\ sent = [p \in Posts |-> 0]
  /\ answer = [p \in Posts |-> "none"]

-----------------------------------------------------------------------------
(***************************************************************************)
(* The forge and the HTTP handlers.                                        *)
(***************************************************************************)
Goto(h, label) == pc' = [pc EXCEPT ![h] = label]

\* The handler is done with its request.  A forge that was answered 200 once
\* does not care for the answers to its other attempts.
Answer(h, a) ==
  /\ pc' = [pc EXCEPT ![h] = "idle"]
  /\ post' = [post EXCEPT ![h] = Nothing]
  /\ todo' = [todo EXCEPT ![h] = {}]
  /\ at' = [at EXCEPT ![h] = Nothing]
  /\ answer' = [answer EXCEPT ![post[h]] = IF @ = "ok" THEN @ ELSE a]
  /\ UNCHANGED sent

\* The delivery is sent, or sent again: after an error, or because no answer
\* came in time, which can be before the first request is done.  A webhook has
\* to name a connection that exists, by its token or in its URL.
Send(h, p) ==
  /\ pc[h] = "idle"
  /\ sent[p] < MaxSends /\ answer[p] # "ok"
  /\ sent' = [sent EXCEPT ![p] = @ + 1]
  /\ IF Forge[p.via] # "github" /\ p.via \notin connections
       THEN /\ answer' = [answer EXCEPT ![p] = "error"]
            /\ UNCHANGED handling
       ELSE /\ Goto(h, IF Forge[p.via] = "github" THEN "dedup" ELSE "remember")
            /\ post' = [post EXCEPT ![h] = p]
            /\ UNCHANGED <<answer, todo, at>>
  /\ UNCHANGED <<store, queued>>

\* HandleHook begins by recording the repository, whatever the event.  Only the
\* foreign key matters here: it refuses a connection deleted meanwhile.
RememberProject(h) ==
  /\ pc[h] = "remember"
  /\ IF post[h].via \in connections
       THEN Goto(h, "dedup") /\ UNCHANGED <<post, todo, at, forge>>
       ELSE Answer(h, "error")
  /\ UNCHANGED <<store, queued>>

-----------------------------------------------------------------------------
(***************************************************************************)
(* Ingest.Handle and Ingest.HandleHook.                                    *)
(***************************************************************************)

\* The id under which a delivery is recorded.  GitLab gives all webhooks of an
\* event the same id, so theirs is qualified by the connection.
KeyShared(p) == <<p.id, Nothing>>
Key(p) == <<p.id, IF Forge[p.via] = "github" THEN Nothing ELSE p.via>>

\* MarkDelivered, or no work at all for an action nobody is notified of.
\* Installations and stars are not subject to that check.
MarkDeliveredAlways(h) ==
  LET p == post[h] IN
  /\ pc[h] = "dedup"
  /\ recorded' = recorded
  /\ IF p.kind = "unwanted" THEN Answer(h, "ok")
     ELSE /\ Goto(h, IF p.kind \in {"installed", "uninstalled"} THEN "installation" ELSE "find")
          /\ UNCHANGED <<post, todo, at, forge>>
  /\ UNCHANGED <<connections, live, settings, starred, queued>>
MarkDelivered(h) ==
  LET p == post[h] IN
  /\ pc[h] = "dedup"
  /\ IF p.kind = "unwanted" \/ Key(p) \in recorded
       THEN Answer(h, "ok") /\ UNCHANGED recorded
       ELSE /\ recorded' = recorded \cup {Key(p)}
            /\ Goto(h, IF p.kind \in {"installed", "uninstalled"} THEN "installation" ELSE "find")
            /\ UNCHANGED <<post, todo, at, forge>>
  /\ UNCHANGED <<connections, live, settings, starred, queued>>

\* The rows that go with deleted integrations.
CascadeForgetsStars(I) ==
  /\ live' = live \ I
  /\ broken' = broken \ I
  /\ disabled' = {s \in disabled : s[1] \notin I}
  /\ ignored' = {s \in ignored : s[1] \notin I}
  /\ starred' = starred
Cascade(I) ==
  /\ live' = live \ I
  /\ broken' = broken \ I
  /\ disabled' = {s \in disabled : s[1] \notin I}
  /\ ignored' = {s \in ignored : s[1] \notin I}
  /\ starred' = {s \in starred : s[1] \notin I}

OfConnection(c) == {i \in live : ConnectionOf[i] = c}

\* handleInstallation, as far as it decides what exists.
HandleInstallation(h) ==
  LET c == post[h].via IN
  /\ pc[h] = "installation"
  /\ IF post[h].kind = "installed"
       THEN /\ connections' = connections \cup {c}
            /\ UNCHANGED <<live, broken, disabled, ignored, starred>>
       ELSE /\ connections' = connections \ {c}
            /\ Cascade(OfConnection(c))
  /\ Answer(h, "ok")
  /\ UNCHANGED <<muted, recorded, queued>>

\* liveIntegrations: muted chats and broken integrations are left out here.
Listening == {i \in live : i \notin broken /\ ChatOf[i] \notin muted}

Find(h) ==
  /\ pc[h] = "find"
  /\ IF post[h].kind = "unstar"
       THEN Answer(h, "ok")
       ELSE /\ todo' = [todo EXCEPT ![h] = OfConnection(post[h].via) \cap Listening]
            /\ Goto(h, "loop")
            /\ UNCHANGED <<post, at, forge>>
  /\ UNCHANGED <<store, queued>>

AllDone(h) ==
  /\ pc[h] = "loop" /\ todo[h] = {}
  /\ Answer(h, "ok")
  /\ UNCHANGED <<store, queued>>

\* On to the next integration.
Continue(h) ==
  /\ Goto(h, "loop")
  /\ at' = [at EXCEPT ![h] = Nothing]
  /\ UNCHANGED <<post, todo, forge>>

Setting(p) == IF p.kind = "star" THEN "star" ELSE "event"

\* EventEnabled for the next integration, in no particular order.
EventEnabled(h, i) ==
  /\ pc[h] = "loop" /\ i \in todo[h]
  /\ todo' = [todo EXCEPT ![h] = @ \ {i}]
  /\ IF <<i, Setting(post[h])>> \in disabled
       THEN UNCHANGED <<pc, at>>
       ELSE /\ at' = [at EXCEPT ![h] = i]
            /\ Goto(h, IF post[h].kind = "star" THEN "actor" ELSE "filters")
  /\ UNCHANGED <<store, queued, post, forge>>

\* The filters, which stars are not subject to.
Filter(h) ==
  /\ pc[h] = "filters"
  /\ IF <<at[h], post[h].actor>> \in ignored
       THEN Continue(h)
       ELSE Goto(h, "enqueue") /\ UNCHANGED <<post, todo, at, forge>>
  /\ UNCHANGED <<store, queued>>

\* handleStar: has this actor been heard of before?
StarActorNotified(h) ==
  /\ pc[h] = "actor"
  /\ IF <<at[h], post[h].actor>> \in starred
       THEN Continue(h)
       ELSE Goto(h, "star") /\ UNCHANGED <<post, todo, at, forge>>
  /\ UNCHANGED <<store, queued>>

MarkStarNotifiedNot(h) ==
  /\ pc[h] = "star"
  /\ IF at[h] \in live
       THEN /\ starred' = starred
            /\ Goto(h, "enqueue") /\ UNCHANGED <<post, todo, at, forge>>
       ELSE Answer(h, "error") /\ UNCHANGED starred
  /\ UNCHANGED <<connections, live, settings, recorded, queued>>
MarkStarNotified(h) ==
  /\ pc[h] = "star"
  /\ IF at[h] \in live
       THEN /\ starred' = starred \cup {<<at[h], post[h].actor>>}
            /\ Goto(h, "enqueue") /\ UNCHANGED <<post, todo, at, forge>>
       ELSE Answer(h, "error") /\ UNCHANGED starred
  /\ UNCHANGED <<connections, live, settings, recorded, queued>>

\* Queue.Enqueue.  For an integration deleted meanwhile it fails, and with it
\* the request: the integrations left are not looked at.
Enqueue(h) ==
  /\ pc[h] = "enqueue"
  /\ IF at[h] \in live
       THEN queued' = [queued EXCEPT ![at[h]][post[h]] = @ + 1] /\ Continue(h)
       ELSE Answer(h, "error") /\ UNCHANGED queued
  /\ UNCHANGED store

-----------------------------------------------------------------------------
(***************************************************************************)
(* The users of the bot meanwhile, and failures.                           *)
(***************************************************************************)
Flip(S, x) == IF x \in S THEN S \ {x} ELSE S \cup {x}

SetChatMute(c) ==
  /\ muted' = Flip(muted, c)
  /\ UNCHANGED <<disabled, ignored, broken>>

SetEventEnabled(i, k) ==
  /\ i \in live
  /\ disabled' = Flip(disabled, <<i, k>>)
  /\ UNCHANGED <<muted, ignored, broken>>

\* AddFilter and DeleteFilter.
ChangeFilter(i, a) ==
  /\ i \in live
  /\ ignored' = Flip(ignored, <<i, a>>)
  /\ UNCHANGED <<muted, disabled, broken>>

\* MarkIntegrationBroken and, for all of a chat, ClearChatIntegrationsBroken.
MarkIntegrationBroken(i) ==
  /\ i \in live /\ broken' = broken \cup {i}
  /\ UNCHANGED <<muted, disabled, ignored>>
ClearChatIntegrationsBroken(c) ==
  /\ broken' = {i \in broken : ChatOf[i] # c}
  /\ UNCHANGED <<muted, disabled, ignored>>

Change ==
  /\ \/ "mute" \in Changes /\ \E c \in Chats : SetChatMute(c)
     \/ "toggle" \in Changes /\ \E i \in Integrations, p \in Posts : SetEventEnabled(i, Setting(p))
     \/ "filter" \in Changes /\ \E i \in Integrations, a \in Actors : ChangeFilter(i, a)
     \/ /\ "break" \in Changes
        /\ \/ \E i \in Integrations : MarkIntegrationBroken(i)
           \/ \E c \in Chats : ClearChatIntegrationsBroken(c)
  /\ UNCHANGED <<connections, live, recorded, starred, queued, handling, forge>>

\* DeleteIntegration, and DeleteConnection for a forge that is not GitHub.
Delete ==
  /\ "delete" \in Changes
  /\ \/ \E i \in live : Cascade({i}) /\ UNCHANGED connections
     \/ \E c \in connections :
          /\ Forge[c] # "github"
          /\ connections' = connections \ {c}
          /\ Cascade(OfConnection(c))
  /\ UNCHANGED <<muted, recorded, queued, handling, forge>>

\* A statement fails, or its answer is lost after it took effect, or the forge
\* hangs up, which cancels the request's context: 500, if anyone listens.
DbError(h) ==
  /\ "db" \in Faults /\ pc[h] # "idle"
  /\ Answer(h, "error")
  /\ UNCHANGED <<store, queued>>

\* The process dies and is started again; whoever waits for an answer gets none.
Crash ==
  /\ "crash" \in Faults
  /\ pc' = [h \in Handlers |-> "idle"]
  /\ post' = [h \in Handlers |-> Nothing]
  /\ todo' = [h \in Handlers |-> {}]
  /\ at' = [h \in Handlers |-> Nothing]
  /\ answer' = [p \in Posts |-> IF \E h \in Handlers : post[h] = p /\ answer[p] = "none"
                                  THEN "error" ELSE answer[p]]
  /\ UNCHANGED <<store, queued, sent>>

-----------------------------------------------------------------------------
Handle(h) ==
  \/ RememberProject(h) \/ MarkDelivered(h) \/ HandleInstallation(h)
  \/ Find(h) \/ AllDone(h) \/ (\E i \in todo[h] : EventEnabled(h, i)) \/ Filter(h)
  \/ StarActorNotified(h) \/ MarkStarNotified(h) \/ Enqueue(h)

Next ==
  \/ \E h \in Handlers : (\E p \in Posts : Send(h, p)) \/ Handle(h) \/ DbError(h)
  \/ Change
  \/ Delete
  \/ Crash

Spec == Init /\ [][Next]_vars

\* Requests are served to the end, and a forge sends again what was not accepted.
Resend(p) == answer[p] = "error" /\ \E h \in Handlers : Send(h, p)

Fairness ==
  /\ \A h \in Handlers : WF_vars(Handle(h))
  /\ \A p \in Posts : SF_vars(Resend(p))

FairSpec == Spec /\ Fairness

-----------------------------------------------------------------------------
(***************************************************************************)
(* Properties.                                                             *)
(***************************************************************************)

\* Every variable has its type, and a handler has a post and an integration in
\* hand exactly where it uses them.
TypeOK ==
  /\ connections \subseteq Connections /\ live \subseteq Integrations
  /\ \A i \in live : ConnectionOf[i] \in connections
  /\ broken \subseteq live /\ muted \subseteq Chats
  /\ disabled \subseteq live \X {"event", "star"}
  /\ ignored \subseteq live \X Actors
  /\ recorded \subseteq {Key(p) : p \in Posts}
  /\ starred \subseteq live \X Actors
  /\ queued \in [Integrations -> [Posts -> Nat]]
  /\ \A h \in Handlers :
       /\ pc[h] \in {"idle", "remember", "dedup", "installation", "find", "loop", "filters",
                     "actor", "star", "enqueue"}
       /\ post[h] \in IF pc[h] = "idle" THEN {Nothing} ELSE Posts
       /\ at[h] \in IF pc[h] \in {"filters", "actor", "star", "enqueue"} THEN Integrations
                                                                      ELSE {Nothing}
       /\ todo[h] \subseteq Integrations
  /\ sent \in [Posts -> 0..MaxSends]
  /\ answer \in [Posts -> {"none", "ok", "error"}]

\* GitHub and GitLab retry deliveries, and MarkDelivered "is what keeps one push
\* from producing two messages": however often and however concurrently a
\* delivery is sent, whatever fails, an integration gets one row of it at most.
QueuedOnce ==
  \A i \in Integrations, p \in Posts : queued[i][p] <= 1

\* Star rows an integration got because of an actor.
StarRows(i, a) == {p \in Posts : p.kind = "star" /\ p.actor = a /\ queued[i][p] > 0}

\* However often a user stars and unstars, the number of notifications is at
\* most that of the requests served at a time: only those that asked before the
\* first one answered can be mistaken.
StarsBounded ==
  \A i \in live, a \in Actors : Cardinality(StarRows(i, a)) <= Cardinality(Handlers)

\* "A user gets exactly one star notification per repository, ever": never two.
StarOnce ==
  \A i \in live, a \in Actors : Cardinality(StarRows(i, a)) <= 1

\* Would a delivery be put into the outbox for this integration, as things are?
Wants(i, p) ==
  /\ i \in OfConnection(p.via) \cap Listening
  /\ <<i, Setting(p)>> \notin disabled
  /\ p.kind = "event" /\ <<i, p.actor>> \notin ignored

Deliveries(c) == {p \in Posts : p.kind = "event" /\ p.via = c}

Arriving(p) ==
  /\ Key(p) \notin recorded
  /\ \E h \in Handlers : pc[h] = "dedup" /\ post[h] = p

GivenUpByForge(p) == sent[p] = MaxSends /\ answer[p] = "error"

\* "The delivery is not lost, it is redelivered once we are healthy again": an
\* integration that wants a delivery that arrives, and goes on wanting it, gets
\* it, unless the forge gives up on a service that refuses it time and again.
DeliveryNotLost ==
  \A i \in Integrations : \A p \in Deliveries(ConnectionOf[i]) :
    Arriving(p) /\ Wants(i, p)
      ~> queued[i][p] > 0 \/ ~Wants(i, p) \/ GivenUpByForge(p)
=============================================================================
