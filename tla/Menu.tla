-------------------------------- MODULE Menu --------------------------------
(***************************************************************************)
(* The private-chat interface: the navigation stack and its buttons, the   *)
(* anchor message every screen is drawn into, the authorization of screens *)
(* and actions, the cached administrator lists it asks, and the prompts a  *)
(* user answers by a message.                                              *)
(*                                                                         *)
(* Every update is handled in a goroutine of its own, so two updates of    *)
(* one user interleave at every database and Telegram call: a handler is a *)
(* task that goes from stage to stage.  The module looks at one chat, a    *)
(* GitHub installation and a webhook connection with one repository each,  *)
(* one referral link and one broadcast: a row is who made it, or NoOne.    *)
(* A button and a frame of the stack are the same thing, a target.         *)
(*                                                                         *)
(* AdoptNothing, TakenLater, RefusedAfterPush and PendingScopeAsStored are *)
(* the definitions they precede with a plausible mistake; only the         *)
(* mutation runs use them.                                                 *)
(***************************************************************************)
EXTENDS Naturals, Sequences, FiniteSets

CONSTANTS
  People,        \* telegram users who talk to the bot
  NoOne,         \* no user
  Deleted,       \* the maker of a row that is no more: ids are not used again
  BotAdmins,     \* the owners of the bot
  ChatOwner,     \* the creator of the chat
  Managers,      \* the users chat_managers names for the chat
  Tasks,         \* updates handled at the same time
  Messages,      \* the menu messages one user's chat with the bot has room for
  NoMessage,     \* no message
  ListTTL,       \* ticks an administrator list is good for
  Prompts,       \* the most prompts sent (bound)
  MaxUpdates,    \* the most updates (bound)
  MaxChanges,    \* the most changes made by anybody else (bound)
  MaxDepth       \* the deepest stack an update starts from (bound)

\* What the constants must be; the module of the run assumes it.
MenuAssumption ==
  /\ BotAdmins \subseteq People /\ Managers \subseteq People /\ ChatOwner \in People
  /\ {NoOne, Deleted} \cap People = {} /\ NoOne # Deleted /\ NoMessage \notin Messages
  /\ ListTTL \in Nat \ {0} /\ Prompts \in Nat
  /\ MaxUpdates \in Nat /\ MaxChanges \in Nat /\ MaxDepth \in Nat

VARIABLES
  by,        \* who made each row, or NoOne when there is none
  muted,     \* the chat has a mute window that is not over
  status,    \* the status of the broadcast
  nav,       \* ui_nav.stack of each user
  anchor,    \* ui_nav.message_id of each user
  pending,   \* ui_nav.pending of each user
  menus,     \* what each menu message shows
  admins,    \* the chat's administrators, as Telegram knows them
  since,     \* ticks since a user was last an administrator of the chat
  cache,     \* AdminChecker.cache of the chat: a list and its age
  tasks,     \* the updates being handled
  prompts,   \* prompts sent so far
  updates,   \* updates received so far
  changes    \* changes by anybody else so far

menuVars == <<by, muted, status, nav, anchor, pending, menus, admins, since, cache,
              tasks, prompts, updates, changes>>
menuRows == <<by, muted, status>>
roles == <<admins, since, cache>>
bounds == <<prompts, updates, changes>>

Rows == {"gh", "hook", "project", "chat", "gint", "hint", "gfilter", "hfilter", "ref", "bc"}
Installations == {"gh", "hook"}
Integrations == {"gint", "hint"}
IntegrationOf == [gh |-> "gint", hook |-> "hint"]
FilterOf == [gint |-> "gfilter", hint |-> "hfilter"]
OfFilter == [gfilter |-> "gint", hfilter |-> "hint"]
Exists(o) == by[o] \notin {NoOne, Deleted}
New(o) == by[o] = NoOne

To(screen, obj, arg) == [to |-> screen, obj |-> obj, arg |-> arg]
At(screen, obj) == To(screen, obj, "")
Plain(screens) == {At(s, "") : s \in screens}
Home == At("home", "")
Back == At("__back", "")
Result(outcome) == To("result", "", outcome)

Never == ListTTL + 1
NotAsked == [asked |-> FALSE, ids |-> {}]
Unsent == [of |-> "unsent", buttons |-> {}]
Gone == [of |-> "gone", buttons |-> {}]
NoPrompt == [action |-> "", go |-> Home, prompt |-> 0]
IdleTask ==
  [at |-> "idle", user |-> NoOne, via |-> NoMessage, go |-> Home, how |-> "push",
   deny |-> FALSE, stack |-> <<>>, list |-> NotAsked, view |-> Unsent, post |-> "edit",
   alone |-> TRUE, action |-> "", prompt |-> 0]

(***************************************************************************)
(* The screens: the targets of the buttons each one draws for user u.      *)
(* Buttons that are links to somewhere else are no targets.                *)
(***************************************************************************)
Accounts(u) == {o \in Installations : by[o] = u}
Connected(u) == {i \in Integrations : by[i] = u}
Candidate(u) == Exists("chat") /\ (u \in Managers \/ Connected(u) # {})

HomeScreen(u) ==
  (IF Accounts(u) = {} THEN Plain({"install", "forge_connect"})
                       ELSE Plain({"accounts", "chats", "status", "settings", "add_to_chat"}))
  \cup (IF u \in BotAdmins THEN Plain({"adm_home"}) ELSE {})

InstallScreen == Plain({"accounts"})

AccountsScreen(u) ==
  {At(IF o = "hook" THEN "forge_projects" ELSE "repos", o) : o \in Accounts(u)}
  \cup Plain({"install", "forge_connect"})

\* GitHub lists one repository; a search finds it or not.
ReposScreen(f) ==
  IF f.arg = "missed" THEN {At("repos", f.obj)}
  ELSE {At("repo_detail", f.obj), IF f.arg = "q" THEN At("repos", f.obj)
                                               ELSE At("a_repo_search", f.obj)}

RepoDetailScreen(f) == {At("chat_picker", f.obj)}

ChatPickerScreen(u, f) ==
  (IF Candidate(u) THEN {At("connect", f.obj)} ELSE {}) \cup Plain({"add_to_chat"})

AddToChatScreen == {}

ForgeConnectScreen == Plain({"a_forge_new"})

HookSetupScreen(f) == {At("forge_projects", f.obj), At("forge_delete", f.obj)}

ForgeProjectsScreen(u, f) ==
  {To("a_refresh", f.obj, "forge_projects"), At("hook_setup", f.obj)}
  \cup (IF Exists("project") /\ by[f.obj] = u THEN {At("repo_detail", f.obj)} ELSE {})

ForgeDeleteScreen(f) == {At("a_forge_del", f.obj)}

ResultScreen == {Home}

ChatsScreen(u) ==
  IF Connected(u) # {} THEN {At("chat_detail", "chat")} \cup Plain({"add_to_chat"})
                   ELSE Plain({"accounts"})

ChatDetailScreen ==
  {To("a_mute", "chat", "1"), At("topics", "chat")}
  \cup (IF muted THEN {To("a_mute", "chat", "0")} ELSE {})
  \cup (IF \A i \in Integrations : ~Exists(i) THEN Plain({"accounts"})
        ELSE {At("integration_detail", i) : i \in {j \in Integrations : Exists(j)}})

TopicsScreen == {At("a_topic", "chat"), At("a_topic_new", "chat")}

MayDisconnect(u, i) == by[i] = u \/ u = ChatOwner
IntegrationDetailScreen(u, f) ==
  {At(s, f.obj) : s \in {"events", "health", "filters"}}
  \cup (IF MayDisconnect(u, f.obj) THEN {At("a_int_del", f.obj)} ELSE {})

EventsScreen(f) == {At("a_ev_preset", f.obj), At("a_ev_toggle", f.obj)}

FiltersScreen(f) ==
  {At("a_filter_add", f.obj)}
  \cup (IF Exists(FilterOf[f.obj]) THEN {At("a_filter_del", FilterOf[f.obj])} ELSE {})

HealthScreen(f) == {At("events", f.obj), Home}

StatusScreen == Plain({"chats", "accounts"})

SettingsScreen == {At("a_user_lang", ""), Home}

AdmHomeScreen == Plain({"adm_stats", "adm_refs", "adm_bcs"}) \cup {Home}

AdmStatsScreen == {To("a_refresh", "", "adm_stats")}

AdmRefsScreen ==
  {At("adm_ref_new", "")} \cup (IF Exists("ref") THEN {At("adm_ref", "ref")} ELSE {})

AdmRefScreen(f) ==
  {To("a_refresh", "ref", "adm_ref"),
   IF f.arg = "confirm" THEN At("adm_ref_del", "ref") ELSE To("a_refresh", "ref", "confirm")}

AdmBcsScreen ==
  {At("adm_bc_new", "")} \cup (IF Exists("bc") THEN {At("adm_bc", "bc")} ELSE {})

AdmBcScreen ==
  CASE status = "draft" -> {At("adm_bc_send", "bc"), At("adm_bc_cancel", "bc")}
    [] status = "running" -> {To("a_refresh", "bc", "adm_bc"), At("adm_bc_cancel", "bc")}
    [] OTHER -> {}

Drawn(u, f) ==
  CASE f.to = "home" -> HomeScreen(u)
    [] f.to = "install" -> InstallScreen
    [] f.to = "accounts" -> AccountsScreen(u)
    [] f.to = "repos" -> ReposScreen(f)
    [] f.to = "repo_detail" -> RepoDetailScreen(f)
    [] f.to = "chat_picker" -> ChatPickerScreen(u, f)
    [] f.to = "add_to_chat" -> AddToChatScreen
    [] f.to = "forge_connect" -> ForgeConnectScreen
    [] f.to = "hook_setup" -> HookSetupScreen(f)
    [] f.to = "forge_projects" -> ForgeProjectsScreen(u, f)
    [] f.to = "forge_delete" -> ForgeDeleteScreen(f)
    [] f.to = "result" -> ResultScreen
    [] f.to = "chats" -> ChatsScreen(u)
    [] f.to = "chat_detail" -> ChatDetailScreen
    [] f.to = "topics" -> TopicsScreen
    [] f.to = "integration_detail" -> IntegrationDetailScreen(u, f)
    [] f.to = "events" -> EventsScreen(f)
    [] f.to = "filters" -> FiltersScreen(f)
    [] f.to = "health" -> HealthScreen(f)
    [] f.to = "status" -> StatusScreen
    [] f.to = "settings" -> SettingsScreen
    [] f.to = "adm_home" -> AdmHomeScreen
    [] f.to = "adm_stats" -> AdmStatsScreen
    [] f.to = "adm_refs" -> AdmRefsScreen
    [] f.to = "adm_ref" -> AdmRefScreen(f)
    [] f.to = "adm_bcs" -> AdmBcsScreen
    [] f.to = "adm_bc" -> AdmBcScreen

\* The rows a screen reads by the id its frame carries: it fails without them.
\* The filters screen lists nothing when its integration is gone.
Renders(u, f) ==
  CASE f.to = "hook_setup" -> by[f.obj] = u
    [] f.to \in {"repos", "forge_projects", "forge_delete", "chat_detail", "topics",
                 "integration_detail", "events", "health", "adm_ref", "adm_bc"} -> Exists(f.obj)
    [] OTHER -> TRUE

Actions ==
  {"connect", "a_mute", "a_topic", "a_topic_new", "a_ev_toggle", "a_ev_preset",
   "a_user_lang", "a_filter_add", "a_filter_del", "a_repo_search", "a_refresh",
   "adm_ref_new", "adm_ref_del", "adm_bc_new", "adm_bc_send", "adm_bc_cancel",
   "a_forge_new", "a_forge_del", "a_int_del"}

(***************************************************************************)
(* Authorization.  Scope is the guard's table: what an action or a screen  *)
(* touches, "" when it is the user's own business.                         *)
(***************************************************************************)
Scope(screen) ==
  CASE screen \in {"adm_home", "adm_stats", "adm_refs", "adm_ref", "adm_bcs", "adm_bc",
                   "adm_ref_new", "adm_ref_del", "adm_bc_new", "adm_bc_send",
                   "adm_bc_cancel"} -> "bot"
    [] screen \in {"chat_detail", "topics", "a_mute", "a_topic", "a_topic_new"} -> "chat"
    [] screen \in {"integration_detail", "events", "filters", "health", "a_ev_toggle",
                   "a_ev_preset", "a_filter_add"} -> "integration"
    [] screen = "a_int_del" -> "owner"
    [] screen = "a_filter_del" -> "filter"
    [] OTHER -> ""

AsksTelegram(screen) == Scope(screen) \notin {"", "bot"}

\* The chat of an integration or a filter is looked up, and is not found
\* when the row is gone; the chat of a chat screen is taken from the button.
Resolvable(t) == Scope(t.to) \in {"integration", "owner", "filter"} => Exists(t.obj)

\* authorizeOwnership: whoever connected the repository, or the chat's creator.
MayRemove(u, i) == by[i] = u \/ u = ChatOwner

\* Guard.Authorize on the administrator list ids.
Allowed(u, t, ids) ==
  CASE Scope(t.to) = "" -> TRUE
    [] Scope(t.to) = "bot" -> u \in BotAdmins
    [] Scope(t.to) = "owner" -> u \in ids /\ MayRemove(u, t.obj)
    [] OTHER -> u \in ids

\* Refusals come with the reason, which the result screen gives.
Reason(u, t, ids) == IF Scope(t.to) = "owner" /\ u \in ids THEN "not_owner" ELSE "not_admin"

PendingScopeAsStored(action) == action
PendingScope(action) ==
  CASE action = "filter" -> "a_filter_add"
    [] action = "ref_name" -> "adm_ref_new"
    [] action = "repo_search" -> "a_repo_search"
    [] action = "broadcast" -> "adm_bc_new"

\* Connecting is not in the guard's table: the integrator asks for itself.
Question(k) ==
  IF tasks[k].at = "own" THEN At("chat_detail", "chat") ELSE tasks[k].go

FreshList == cache.asked /\ cache.age < ListTTL
Checks == {"handler", "own", "answer", "open", "check"}

(***************************************************************************)
(* Tasks: what an update does next.                                        *)
(***************************************************************************)
Active == {k \in Tasks : tasks[k].at # "idle"}
Goes(k, change) == tasks' = [tasks EXCEPT ![k] = change]
Step(k, at) == Goes(k, [tasks[k] EXCEPT !.at = at, !.list = NotAsked])
End(k) == Goes(k, IdleTask)

\* The task opens target t: Engine.Open, then the anchor.
Opens(k, t, deny) ==
  [tasks[k] EXCEPT !.at = "open", !.go = t, !.how = "push", !.deny = deny, !.list = NotAsked]

\* An update begins.  Two updates of one user that overlap are not alone.
Begin(k, u, task) ==
  LET others == {j \in Active : tasks[j].user = u}
  IN  /\ tasks[k].at = "idle"
      /\ updates < MaxUpdates /\ Len(nav[u]) < MaxDepth
      /\ updates' = updates + 1
      /\ tasks' = [j \in Tasks |->
           IF j = k THEN [task EXCEPT !.user = u, !.alone = others = {}]
           ELSE IF j \in others THEN [tasks[j] EXCEPT !.alone = FALSE] ELSE tasks[j]]
      /\ UNCHANGED <<prompts, changes>>

(***************************************************************************)
(* The updates.                                                            *)
(***************************************************************************)

\* The model has room for one row of each kind, and for so many prompts.
Room(u, b) ==
  /\ b.to = "a_forge_new" => by["hook"] \in {NoOne, u} /\ New("project")
  /\ b.to = "connect" => by[IntegrationOf[b.obj]] # Deleted
  /\ b.to = "adm_ref_new" => New("ref")
  /\ b.to = "adm_bc_new" => New("bc")
  /\ b.to \in {"a_filter_add", "a_repo_search", "adm_ref_new", "adm_bc_new"} => prompts < Prompts

\* The user taps a button of a menu message.
Tap(k, u) ==
  /\ \E m \in Messages : \E b \in menus[u][m].buttons :
       Room(u, b) /\ Begin(k, u, [IdleTask EXCEPT !.at = "tapped", !.via = m, !.go = b])
  /\ UNCHANGED <<menuRows, nav, anchor, pending, menus, roles>>

AdoptNothing(u, m) == anchor
Adopt(u, m) == [anchor EXCEPT ![u] = m]

\* handleCallback: the menu tapped is adopted as the anchor, then the key is
\* resolved.
Resolve(k) ==
  /\ tasks[k].at = "tapped"
  /\ anchor' = Adopt(tasks[k].user, tasks[k].via)
  /\ Step(k, "handler")
  /\ UNCHANGED <<menuRows, nav, pending, menus, roles, bounds>>

\* The button is older than ui_actions keeps: home is opened instead.
ResolveForgotten(k) ==
  /\ tasks[k].at = "tapped" /\ changes < MaxChanges
  /\ changes' = changes + 1
  /\ anchor' = Adopt(tasks[k].user, tasks[k].via)
  /\ Goes(k, Opens(k, Home, FALSE))
  /\ UNCHANGED <<menuRows, nav, pending, menus, roles, prompts, updates>>

\* /start, plain or by a deep link anybody may type, and /admin, which is a
\* plain /start for everybody else.
Start(k, u) ==
  /\ \E t \in {Home, At("accounts", ""), At("chat_detail", "chat")} \cup
              (IF u \in BotAdmins THEN {At("adm_home", "")} ELSE {}) :
       Begin(k, u, [IdleTask EXCEPT !.at = "open", !.go = t, !.deny = t.to # "adm_home",
                                    !.post = "new"])
  /\ UNCHANGED <<menuRows, nav, anchor, pending, menus, roles>>

TakenLater(u) == pending
Taken(u) == [pending EXCEPT ![u] = NoPrompt]

\* handleReplyInput: a message is the answer to whatever prompt is pending.
Answer(k, u) ==
  /\ pending[u] # NoPrompt
  /\ Begin(k, u, [IdleTask EXCEPT
       !.at = "answer", !.deny = TRUE,
       !.action = pending[u].action, !.prompt = pending[u].prompt,
       !.go = [pending[u].go EXCEPT !.to = PendingScope(pending[u].action)]])
  /\ pending' = Taken(u)
  /\ UNCHANGED <<menuRows, nav, anchor, menus, roles>>

(***************************************************************************)
(* Authorizing: before an action or a screen, when connecting, before an   *)
(* answer is used, and inside the engine before anything is rendered.      *)
(***************************************************************************)

\* What an authorized task does next.
Onward(k) ==
  CASE tasks[k].at = "handler" ->
         IF tasks[k].go = Back THEN [tasks[k] EXCEPT !.at = "load", !.how = "pop", !.deny = TRUE]
         ELSE IF tasks[k].go.to = "connect" THEN [tasks[k] EXCEPT !.at = "own"]
         ELSE IF tasks[k].go.to \in Actions THEN [tasks[k] EXCEPT !.at = "act"]
         ELSE Opens(k, tasks[k].go, TRUE)
    [] tasks[k].at \in {"own", "answer"} -> [tasks[k] EXCEPT !.at = "act"]
    [] tasks[k].at = "open" -> [tasks[k] EXCEPT !.at = IF tasks[k].go = Home THEN "save" ELSE "load"]
    [] tasks[k].at = "check" -> [tasks[k] EXCEPT !.at = "render"]

RefusedAfterPush(k, ids) ==
  IF tasks[k].at = "open" THEN [tasks[k] EXCEPT !.at = "load", !.list = NotAsked]
  ELSE Opens(k, Result(Reason(tasks[k].user, Question(k), ids)), FALSE)

\* A refusal is explained on the result screen, where the handler does so.
Refused(k, ids) ==
  IF tasks[k].at \in {"handler", "own"} \/ tasks[k].deny
  THEN Opens(k, Result(Reason(tasks[k].user, Question(k), ids)), FALSE)
  ELSE IdleTask

Judge(k, ids) ==
  IF Allowed(tasks[k].user, Question(k), ids)
  THEN Goes(k, [Onward(k) EXCEPT !.list = NotAsked])
  ELSE Goes(k, Refused(k, ids))

\* No list is needed, or the one remembered is fresh enough.
Decide(k) ==
  /\ tasks[k].at \in Checks /\ ~tasks[k].list.asked /\ Resolvable(Question(k))
  /\ AsksTelegram(Question(k).to) => FreshList
  /\ Judge(k, cache.ids)
  /\ UNCHANGED <<menuRows, nav, anchor, pending, menus, roles, bounds>>

Unresolved(k) ==
  /\ tasks[k].at \in Checks /\ ~tasks[k].list.asked /\ ~Resolvable(Question(k))
  /\ End(k)
  /\ UNCHANGED <<menuRows, nav, anchor, pending, menus, roles, bounds>>

\* entry: Telegram answers with the list of that moment ...
Fetch(k) ==
  /\ tasks[k].at \in Checks /\ ~tasks[k].list.asked /\ Resolvable(Question(k))
  /\ AsksTelegram(Question(k).to) /\ ~FreshList
  /\ Goes(k, [tasks[k] EXCEPT !.list = [asked |-> TRUE, ids |-> admins]])
  /\ UNCHANGED <<menuRows, nav, anchor, pending, menus, roles, bounds>>

\* ... which is remembered when it arrives, whatever was in the meantime.
Store(k) ==
  /\ tasks[k].at \in Checks /\ tasks[k].list.asked
  /\ cache' = [asked |-> TRUE, ids |-> tasks[k].list.ids, age |-> 0]
  /\ Judge(k, tasks[k].list.ids)
  /\ UNCHANGED <<menuRows, nav, anchor, pending, menus, admins, since, bounds>>

(***************************************************************************)
(* The actions, and the screen each one leads to.                          *)
(***************************************************************************)
Acts(k, names) == tasks[k].at = "act" /\ tasks[k].prompt = 0 /\ tasks[k].go.to \in names
Reopen(k, t) == Goes(k, Opens(k, t, FALSE))
Redraw(k, t) == Goes(k, [tasks[k] EXCEPT !.at = "check", !.go = t, !.how = "draw", !.deny = TRUE])
Drop(gone) == [o \in Rows |-> IF o \in gone /\ Exists(o) THEN Deleted ELSE by[o]]

\* The unique pair of chat and repository turns a second connection away; an
\* installation that is gone fails the insert, and an audit entry that is not
\* written makes an error of a connection that is.
ConnectRepo(k) ==
  LET i == IntegrationOf[tasks[k].go.obj]
      outcomes == IF ~Exists(tasks[k].go.obj) THEN {"error"}
                  ELSE IF Exists(i) THEN {"duplicate"} ELSE {"ok", "error"}
  IN  /\ Acts(k, {"connect"}) /\ by[i] # Deleted
      /\ by' = IF Exists(i) \/ ~Exists(tasks[k].go.obj) THEN by
               ELSE [by EXCEPT ![i] = tasks[k].user]
      /\ \E outcome \in outcomes : Reopen(k, Result(outcome))
      /\ UNCHANGED <<muted, status, nav, anchor, pending, menus, roles, bounds>>

ApplyMute(k) ==
  /\ Acts(k, {"a_mute"})
  /\ muted' = (tasks[k].go.arg # "0")
  /\ Reopen(k, At("chat_detail", "chat"))
  /\ UNCHANGED <<by, status, nav, anchor, pending, menus, roles, bounds>>

\* The writes of these are of no consequence here: a topic, an event setting,
\* a language.
ApplySetting(k) ==
  LET t == tasks[k].go
  IN  /\ \/ Acts(k, {"a_topic"}) /\ Reopen(k, At("chat_detail", "chat"))
         \/ Acts(k, {"a_topic_new"}) /\ \/ Reopen(k, At("chat_detail", "chat"))
                                        \/ Reopen(k, Result("topic_failed"))
         \/ Acts(k, {"a_ev_toggle", "a_ev_preset"}) /\ Exists(t.obj) /\ Reopen(k, At("events", t.obj))
         \/ Acts(k, {"a_user_lang"}) /\ Reopen(k, At("settings", ""))
      /\ UNCHANGED <<menuRows, nav, anchor, pending, menus, roles, bounds>>

\* The filter is found for the audit entry first.
DeleteFilter(k) ==
  LET f == tasks[k].go.obj
  IN  /\ Acts(k, {"a_filter_del"}) /\ Exists(f)
      /\ by' = Drop({f})
      /\ Reopen(k, At("filters", OfFilter[f]))
      /\ UNCHANGED <<muted, status, nav, anchor, pending, menus, roles, bounds>>

InputOf == [a_filter_add |-> "filter", a_repo_search |-> "repo_search",
            adm_ref_new |-> "ref_name", adm_bc_new |-> "broadcast"]

\* startInput: the prompt is sent, then remembered in place of any other.
StartInput(k) ==
  /\ Acts(k, DOMAIN InputOf) /\ prompts < Prompts
  /\ prompts' = prompts + 1
  /\ pending' = [pending EXCEPT ![tasks[k].user] =
       [action |-> InputOf[tasks[k].go.to], go |-> tasks[k].go, prompt |-> prompts + 1]]
  /\ End(k)
  /\ UNCHANGED <<menuRows, nav, anchor, menus, roles, updates, changes>>

Refresh(k) ==
  LET t == tasks[k].go
  IN  /\ Acts(k, {"a_refresh"})
      /\ Redraw(k, IF t.arg = "confirm" THEN To("adm_ref", t.obj, "confirm") ELSE At(t.arg, t.obj))
      /\ UNCHANGED <<menuRows, nav, anchor, pending, menus, roles, bounds>>

\* The deleted link's screen is taken for the top of the stack.
DeleteRefLink(k) ==
  /\ Acts(k, {"adm_ref_del"})
  /\ by' = Drop({"ref"})
  /\ Goes(k, [tasks[k] EXCEPT !.at = "load", !.how = "pop", !.deny = FALSE])
  /\ UNCHANGED <<muted, status, nav, anchor, pending, menus, roles, bounds>>

DecideBroadcast(k) ==
  /\ \/ Acts(k, {"adm_bc_send"})
        /\ status' = IF status = "draft" THEN "running" ELSE status
     \/ Acts(k, {"adm_bc_cancel"})
        /\ status' = IF status \in {"draft", "running"} THEN "cancelled" ELSE status
  /\ Redraw(k, At("adm_bc", "bc"))
  /\ UNCHANGED <<by, muted, nav, anchor, pending, menus, roles, bounds>>

\* ConnectionForSetup: the user's connection that has no project yet, or a
\* new one.  The instance has room for one.
NewConnection(k) ==
  /\ Acts(k, {"a_forge_new"})
  /\ by["hook"] \in {NoOne, tasks[k].user} /\ New("project")
  /\ by' = [by EXCEPT !["hook"] = tasks[k].user]
  /\ Reopen(k, At("hook_setup", "hook"))
  /\ UNCHANGED <<muted, status, nav, anchor, pending, menus, roles, bounds>>

\* DeleteConnection takes what hangs on the connection with it, for its owner.
\* Engine.Forget then takes its frames off the stack.
ForgetConnection(k) ==
  /\ Acts(k, {"a_forge_del"})
  /\ by' = IF by["hook"] = tasks[k].user THEN Drop({"hook", "project", "hint", "hfilter"}) ELSE by
  /\ Goes(k, [tasks[k] EXCEPT !.at = "load", !.how = "prune", !.deny = FALSE])
  /\ UNCHANGED <<muted, status, nav, anchor, pending, menus, roles, bounds>>

DeleteIntegration(k) ==
  LET i == tasks[k].go.obj
  IN  /\ Acts(k, {"a_int_del"})
      /\ by' = Drop({i, FilterOf[i]})
      /\ Reopen(k, At("chat_detail", "chat"))
      /\ UNCHANGED <<muted, status, nav, anchor, pending, menus, roles, bounds>>

\* The answer is used: a filter is added (which fails when its integration is
\* gone), a referral link or a draft broadcast is made, a search is opened.
\* A text too long or empty makes nothing; nor does, here, a second filter.
UseAnswer(k) ==
  LET t == tasks[k]
      Does(action) == t.at = "act" /\ t.action = action
      Makes(o) == by' = [by EXCEPT ![o] = t.user]
  IN  /\ \/ /\ Does("filter") /\ Exists(t.go.obj)
            /\ (New(FilterOf[t.go.obj]) /\ Makes(FilterOf[t.go.obj])) \/ UNCHANGED by
            /\ Reopen(k, At("filters", t.go.obj))
            /\ UNCHANGED status
         \/ /\ Does("ref_name")
            /\ \/ New("ref") /\ Makes("ref") /\ Reopen(k, At("adm_ref", "ref"))
               \/ UNCHANGED by /\ Reopen(k, At("adm_refs", ""))
            /\ UNCHANGED status
         \/ /\ Does("repo_search")
            /\ \E found \in {"q", "missed"} : Reopen(k, To("repos", t.go.obj, found))
            /\ UNCHANGED <<by, status>>
         \/ /\ Does("broadcast") /\ New("bc")
            /\ Makes("bc") /\ status' = "draft"
            /\ Goes(k, [Opens(k, At("adm_bc", "bc"), FALSE) EXCEPT !.post = "new"])
      /\ UNCHANGED <<muted, nav, anchor, pending, menus, roles, bounds>>

\* A handler whose write finds its row gone ends with an error.
RowGone(k) ==
  /\ tasks[k].at = "act"
  /\ tasks[k].go.to \in {"a_ev_toggle", "a_ev_preset", "a_filter_del", "a_filter_add"}
  /\ ~Exists(tasks[k].go.obj)
  /\ ~Acts(k, {"a_filter_add"})
  /\ End(k)
  /\ UNCHANGED <<menuRows, nav, anchor, pending, menus, roles, bounds>>

(***************************************************************************)
(* The engine: the stack is loaded, changed and saved; then what is to be  *)
(* shown is authorized (unless Open did), rendered and put in the anchor.  *)
(***************************************************************************)
Load(k) ==
  /\ tasks[k].at = "load"
  /\ Goes(k, [tasks[k] EXCEPT !.at = "save", !.stack = nav[tasks[k].user]])
  /\ UNCHANGED <<menuRows, nav, anchor, pending, menus, roles, bounds>>

\* Push replaces the stack by home; elsewhere it appends.
Push(stack, f) == IF f = Home THEN <<Home>> ELSE Append(stack, f)
\* Pop never takes the root, and an empty stack is left as it is.
Pop(stack) == IF Len(stack) > 1 THEN SubSeq(stack, 1, Len(stack) - 1) ELSE stack
\* Prune drops the frames of a connection, and leaves home rather than nothing;
\* kept[i] is what its loop has kept of the first i frames.
Kept(stack, o) ==
  LET kept[i \in 0..Len(stack)] ==
        IF i = 0 THEN <<>>
        ELSE IF stack[i].obj = o THEN kept[i - 1] ELSE Append(kept[i - 1], stack[i])
  IN  kept[Len(stack)]
Prune(stack, o) == IF Kept(stack, o) = <<>> THEN <<Home>> ELSE Kept(stack, o)
Top(stack) == IF stack = <<>> THEN Home ELSE stack[Len(stack)]

Saved(t) ==
  CASE t.how = "push" -> Push(t.stack, t.go)
    [] t.how = "pop" -> Pop(t.stack)
    [] t.how = "prune" -> Prune(t.stack, t.go.obj)

Save(k) ==
  LET t == tasks[k]
  IN  /\ t.at = "save"
      /\ nav' = IF t.how = "pop" /\ Len(t.stack) < 2 THEN nav
                ELSE [nav EXCEPT ![t.user] = Saved(t)]
      /\ Goes(k, IF t.how = "push" THEN [t EXCEPT !.at = "render", !.stack = <<>>]
                 ELSE [t EXCEPT !.at = "check", !.stack = <<>>, !.go = Top(Saved(t))])
      /\ UNCHANGED <<menuRows, anchor, pending, menus, roles, bounds>>

\* The back button is added when the stack is deeper than its root by now.
Render(k) ==
  LET t == tasks[k]
      back == IF Len(nav[t.user]) > 1 THEN {Back} ELSE {}
  IN  /\ t.at = "render" /\ Renders(t.user, t.go)
      /\ Goes(k, [t EXCEPT !.at = "show",
                  !.view = [of |-> t.go.to, buttons |-> Drawn(t.user, t.go) \cup back]])
      /\ UNCHANGED <<menuRows, nav, anchor, pending, menus, roles, bounds>>

RenderFails(k) ==
  /\ tasks[k].at = "render" /\ ~Renders(tasks[k].user, tasks[k].go)
  /\ End(k)
  /\ UNCHANGED <<menuRows, nav, anchor, pending, menus, roles, bounds>>

\* Anchor.Show edits the anchor; one that is gone, or none, takes a new
\* message, as Anchor.Reset always does.
Editable(t) ==
  /\ t.post = "edit" /\ anchor[t.user] # NoMessage
  /\ menus[t.user][anchor[t.user]] # Gone

Edit(k) ==
  LET t == tasks[k]
  IN  /\ t.at = "show" /\ Editable(t)
      /\ menus' = [menus EXCEPT ![t.user][anchor[t.user]] = t.view]
      /\ End(k)
      /\ UNCHANGED <<menuRows, nav, anchor, pending, roles, bounds>>

Send(k) ==
  LET t == tasks[k]
  IN  /\ t.at = "show" /\ ~Editable(t)
      /\ \E n \in Messages :
           /\ menus[t.user][n] = Unsent
           /\ menus' = [menus EXCEPT ![t.user][n] = t.view]
           /\ anchor' = [anchor EXCEPT ![t.user] = n]
      /\ End(k)
      /\ UNCHANGED <<menuRows, nav, pending, roles, bounds>>

\* Any call to the database or to Telegram may fail: the handler ends there,
\* but for the integrator's, whose failure is a result to show.
Fail(k) ==
  /\ tasks[k].at # "idle" /\ ~Acts(k, {"connect"}) /\ changes < MaxChanges
  /\ changes' = changes + 1
  /\ End(k)
  /\ UNCHANGED <<menuRows, nav, anchor, pending, menus, roles, prompts, updates>>

\* The administrators cannot be asked for, or the insert fails.
ConnectFails(k) ==
  /\ tasks[k].at = "own" \/ Acts(k, {"connect"})
  /\ changes < MaxChanges
  /\ changes' = changes + 1
  /\ Reopen(k, Result("error"))
  /\ UNCHANGED <<menuRows, nav, anchor, pending, menus, roles, prompts, updates>>

(***************************************************************************)
(* Everybody else.                                                         *)
(***************************************************************************)
Change == changes < MaxChanges /\ changes' = changes + 1

\* Telegram's administrators of the chat come and go; its creator stays.
Promote(u) ==
  /\ Change /\ u \notin admins
  /\ admins' = admins \cup {u} /\ since' = [since EXCEPT ![u] = 0]
  /\ UNCHANGED <<menuRows, nav, anchor, pending, menus, cache, tasks, prompts, updates>>

Demote(u) ==
  /\ Change /\ u \in admins \ {ChatOwner}
  /\ admins' = admins \ {u}
  /\ UNCHANGED <<menuRows, nav, anchor, pending, menus, since, cache, tasks, prompts, updates>>

\* Telegram edits a menu message no more: it is too old, or deleted.
Vanish(u) ==
  /\ Change
  /\ \E m \in Messages : /\ menus[u][m] \notin {Unsent, Gone}
                         /\ menus' = [menus EXCEPT ![u][m] = Gone]
  /\ UNCHANGED <<menuRows, nav, anchor, pending, roles, tasks, prompts, updates>>

\* An administrator disconnects a repository elsewhere, GitHub's app is
\* uninstalled, a broadcast is through.
Elsewhere ==
  /\ Change
  /\ \/ /\ \E i \in Integrations : Exists(i) /\ by' = Drop({i, FilterOf[i]})
        /\ UNCHANGED status
     \/ Exists("gh") /\ by' = Drop({"gh", "gint", "gfilter"}) /\ UNCHANGED status
     \/ status = "running" /\ status' = "done" /\ UNCHANGED by
  /\ UNCHANGED <<muted, nav, anchor, pending, menus, roles, tasks, prompts, updates>>

\* Time passes.  A handler takes less than a tick.
TimePasses ==
  /\ Active = {}
  /\ cache.age < ListTTL \/ \E u \in People \ admins : since[u] < ListTTL
  /\ cache' = [cache EXCEPT !.age = IF @ < ListTTL THEN @ + 1 ELSE @]
  /\ since' = [u \in People |-> IF u \in admins THEN 0
                                ELSE IF since[u] < ListTTL THEN since[u] + 1 ELSE since[u]]
  /\ UNCHANGED <<menuRows, nav, anchor, pending, menus, admins, tasks, bounds>>

InitWith(made, team, stack, shown) ==
  /\ by = made /\ muted = FALSE /\ status = "draft"
  /\ nav = stack
  /\ anchor = [u \in People |-> IF \E m \in Messages : shown[u][m] # Unsent
                                THEN CHOOSE m \in Messages : shown[u][m] # Unsent
                                ELSE NoMessage]
  /\ pending = [u \in People |-> NoPrompt]
  /\ menus = shown
  /\ admins = team
  /\ since = [u \in People |-> IF u \in team THEN 0 ELSE Never]
  /\ cache = [asked |-> FALSE, ids |-> {}, age |-> ListTTL]
  /\ tasks = [k \in Tasks |-> IdleTask]
  /\ prompts = 0 /\ updates = 0 /\ changes = 0

\* A bot in use since nobody has talked to it yet.
MenuInit ==
  InitWith([o \in Rows |-> IF o = "chat" THEN ChatOwner ELSE NoOne], {ChatOwner},
           [u \in People |-> <<>>], [u \in People |-> [m \in Messages |-> Unsent]])

Update(k, u) == Tap(k, u) \/ Start(k, u) \/ Answer(k, u)

Act(k) ==
  \/ ConnectRepo(k) \/ ApplyMute(k) \/ ApplySetting(k) \/ DeleteFilter(k) \/ StartInput(k)
  \/ Refresh(k) \/ DeleteRefLink(k) \/ DecideBroadcast(k) \/ NewConnection(k)
  \/ ForgetConnection(k) \/ DeleteIntegration(k) \/ UseAnswer(k) \/ RowGone(k)

Handle(k) ==
  \/ Resolve(k) \/ ResolveForgotten(k)
  \/ Decide(k) \/ Unresolved(k) \/ Fetch(k) \/ Store(k)
  \/ Act(k)
  \/ Load(k) \/ Save(k) \/ Render(k) \/ RenderFails(k) \/ Edit(k) \/ Send(k)
  \/ Fail(k) \/ ConnectFails(k)

Others == Elsewhere \/ TimePasses \/ \E u \in People : Promote(u) \/ Demote(u) \/ Vanish(u)

MenuNext ==
  \/ \E k \in Tasks : Handle(k) \/ \E u \in People : Update(k, u)
  \/ Others

MenuSpec == MenuInit /\ [][MenuNext]_menuVars

(***************************************************************************)
(* Properties                                                              *)
(***************************************************************************)
Screens ==
  {"home", "install", "accounts", "repos", "repo_detail", "chat_picker", "add_to_chat",
   "forge_connect", "hook_setup", "forge_projects", "forge_delete", "result", "chats",
   "chat_detail", "topics", "integration_detail", "events", "filters", "health", "status",
   "settings", "adm_home", "adm_stats", "adm_refs", "adm_ref", "adm_bcs", "adm_bc"}

IsTarget(t) ==
  /\ DOMAIN t = {"to", "obj", "arg"}
  /\ t.to \in Screens \cup Actions \cup {"__back"}
  /\ t.obj \in Rows \cup {""}

\* Types.  A stack holds screens only (engine.go, navstore.go), a button leads
\* to a registered screen or to a handled action (main.go:136-167,
\* handlers.go:263-374), and an anchor is a message that was sent.
MenuTypeOK ==
  /\ by \in [Rows -> People \cup {NoOne, Deleted}]
  /\ muted \in BOOLEAN
  /\ status \in {"draft", "running", "cancelled", "done"}
  /\ \A u \in People :
       /\ \A i \in 1..Len(nav[u]) : IsTarget(nav[u][i]) /\ nav[u][i].to \in Screens
       /\ anchor[u] \in Messages \cup {NoMessage}
       /\ anchor[u] # NoMessage => menus[u][anchor[u]] # Unsent
       /\ pending[u] # NoPrompt => /\ pending[u].prompt \in 1..prompts
                                   /\ InputOf[pending[u].go.to] = pending[u].action
       /\ \A m \in Messages : \A b \in menus[u][m].buttons : IsTarget(b)
  /\ admins \subseteq People /\ ChatOwner \in admins
  /\ since \in [People -> 0..Never]
  /\ cache.ids \subseteq People /\ cache.age \in 0..ListTTL
  /\ \A k \in Tasks :
       /\ tasks[k].at # "idle" => tasks[k].user \in People
       /\ tasks[k].at \in {"save", "render", "show"} =>
            tasks[k].go.to \in Screens \/ tasks[k].how # "push"
  /\ prompts \in 0..Prompts /\ updates \in 0..MaxUpdates /\ changes \in 0..MaxChanges

\* What a task that acts or shows reaches for, whatever it was authorized as.
Reaches(t) ==
  IF t.at = "act" /\ t.action # "" THEN
    CASE t.action = "filter" -> "integration"
      [] t.action \in {"ref_name", "broadcast"} -> "bot"
      [] OTHER -> ""
  ELSE IF t.go.to = "connect" THEN "chat" ELSE Scope(t.go.to)

Entitled(t) ==
  CASE Reaches(t) = "" -> TRUE
    [] Reaches(t) = "bot" -> t.user \in BotAdmins
    [] Reaches(t) = "owner" -> since[t.user] < ListTTL /\ (Exists(t.go.obj) => MayRemove(t.user, t.go.obj))
    [] OTHER -> since[t.user] < ListTTL

\* Rights are those of the moment, give or take the age a cached list may
\* have: whatever is done to a chat, and whatever is shown of it, is for
\* somebody who was its administrator within the last ListTTL, by every way
\* there is: a tap on an old menu, Back, a link typed by hand, an answer to a
\* prompt sent long ago (guard.go:88-91, handlers.go:562-563, admin.go:79-80).
FreshRights ==
  [][\A k \in Tasks :
       (tasks[k].at \in {"act", "show"} /\ tasks'[k] # tasks[k]) => Entitled(tasks[k])]_menuVars

\* Who never had a right to it finds no screen of the chat, nor of the admin
\* panel, on the stack, in a menu or behind a prompt: a refused screen is kept
\* off the stack (engine.go:99), so Back cannot lead there.
AdmittedOnly ==
  \A u \in People :
    LET closed(t) == \/ Scope(t) \in {"chat", "integration", "owner", "filter"} /\ since[u] = Never
                     \/ Scope(t) = "bot" /\ u \notin BotAdmins
    IN  /\ \A i \in 1..Len(nav[u]) : ~closed(nav[u][i].to)
        /\ \A m \in Messages : ~closed(menus[u][m].of)
        /\ ~closed(pending[u].go.to)

\* Every menu ever posted stays usable, and the one tapped is the one that
\* changes (handlers.go:220-221, anchor.go:92-103), as long as no other update
\* of the user is handled at the same time.
TappedIsTheOneThatChanges ==
  [][\A k \in Tasks :
       (tasks[k].at = "show" /\ tasks[k].via # NoMessage /\ tasks[k].alone
          /\ tasks'[k].at = "idle" /\ tasks[k].post = "edit")
       => \A m \in Messages :
            menus'[tasks[k].user][m] # menus[tasks[k].user][m] =>
              m = tasks[k].via \/ menus[tasks[k].user][tasks[k].via] = Gone]_menuVars

\* A prompt is answered once: of two messages sent in a row only one is taken
\* for the answer (star.go:64-65), whichever handler is first.
PromptAnsweredOnce ==
  \A k \in Active : tasks[k].prompt # 0 =>
    /\ \A j \in Active \ {k} : tasks[j].prompt # tasks[k].prompt
    /\ \A u \in People : pending[u].prompt # tasks[k].prompt
=============================================================================
