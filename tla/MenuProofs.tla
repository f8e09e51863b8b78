---------------------------- MODULE MenuProofs ----------------------------
(***************************************************************************)
(* Proofs about the private-chat interface: for any users, owners of the   *)
(* bot and managers, any number of updates handled at once, of menu        *)
(* messages and of prompts, and any lifetime of an administrator list.     *)
(*                                                                         *)
(* A step belongs to one task, or to nobody's.  So the proof is about what *)
(* a task may be (Sound), shown for every step of a handler by the rights  *)
(* before the step, and about how rights change: nobody who was entitled   *)
(* to something loses that within a tick, and no handler outlives a tick.  *)
(***************************************************************************)
EXTENDS Interface, InstallationsProofs, SequenceTheorems, WellFoundedInduction, TLAPS

(***************************************************************************)
(* The types of the targets, menus and tasks, and the inductive invariant. *)
(***************************************************************************)
\* What a target says besides: a switch, a search, a screen to refresh, an outcome.
Args ==
  {"", "0", "1", "q", "missed", "confirm", "forge_projects", "adm_stats", "adm_ref", "adm_bc",
   "ok", "error", "duplicate", "topic_failed", "not_admin", "not_owner"}

Refreshed == {"forge_projects", "adm_stats", "adm_ref", "adm_bc", "confirm"}

\* The rows a target is about, by what it leads to.
OfInstallation ==
  {"repos", "repo_detail", "chat_picker", "hook_setup", "forge_projects", "forge_delete",
   "connect", "a_repo_search", "a_forge_del"}
OfIntegration ==
  {"integration_detail", "events", "filters", "health", "a_ev_preset", "a_ev_toggle",
   "a_filter_add", "a_int_del"}

\* Targets as the screens make them.
Targets ==
  {t \in [to : Screens \cup Actions \cup {"__back"}, obj : Rows \cup {""}, arg : Args] :
     /\ t.to \in OfInstallation => t.obj \in Installations
     /\ t.to \in OfIntegration => t.obj \in Integrations
     /\ t.to = "a_filter_del" => t.obj \in {"gfilter", "hfilter"}
     /\ t.to = "a_refresh" => /\ t.arg \in Refreshed
                              /\ t.arg = "forge_projects" => t.obj \in Installations
     /\ t.to = "__back" => t = Back}

\* What the stack holds, what a message shows, and what a prompt asks for.
Frames == {t \in Targets : t.to \in Screens}

Views ==
  {v \in [of : Screens \cup {"unsent", "gone"}, buttons : SUBSET Targets] :
     v.of \in {"unsent", "gone"} => v.buttons = {}}

Inputs == {"filter", "repo_search", "ref_name", "broadcast"}
Asked == [action : Inputs, go : Targets, prompt : Nat \ {0}]

\* An update that is handled.
TaskTypes ==
  [at : {"idle", "tapped", "handler", "own", "answer", "open", "check", "act", "load", "save",
         "render", "show"},
   user : People \cup {NoOne}, via : Messages \cup {NoMessage}, go : Targets,
   how : {"push", "pop", "prune", "draw"}, deny : BOOLEAN, stack : Seq(Frames),
   list : [asked : BOOLEAN, ids : SUBSET People], view : Views, post : {"edit", "new"},
   alone : BOOLEAN, action : Inputs \cup {""}, prompt : Nat]

\* The action's prompt is the one the target sends.
Answers(go, action) == go.to \in DOMAIN InputOf /\ InputOf[go.to] = action

\* A push carries the screen to show.
Carries(t) == t.at \in {"load", "save"} /\ t.how = "push"

\* What a task has at each of its stages.
TaskShape(t) ==
  /\ t.at = "idle" => t = IdleTask
  /\ t.at # "idle" => t.user \in People
  /\ t.at = "own" => t.go.to = "connect"
  /\ t.at \in {"open", "check", "render", "show"} \/ Carries(t) => t.go.to \in Screens
  /\ t.at = "open" => t.how = "push"
  /\ t.at \in {"load", "save"} => t.how # "draw"
  /\ t.at = "act" => t.go.to \in Actions
  /\ t.prompt = 0 <=> t.action = ""
  /\ t.at = "answer" => t.prompt # 0
  /\ t.at \in {"tapped", "handler", "own"} => t.prompt = 0
  /\ t.at \in {"answer", "act"} /\ t.prompt # 0 => Answers(t.go, t.action)
  /\ t.at = "show" => t.view.of \in Screens

\* A user is admitted to what they had a right to at some time.
Of(s) == Scope(s) \in {"chat", "integration", "owner", "filter"}
Admitted(u, s) == (Of(s) => since[u] # Never) /\ (Scope(s) = "bot" => u \in BotAdmins)

\* Here a task has been authorized for what it is about to do.
Grants(t) == t.at \in {"act", "render", "show"} \/ Carries(t)

\* It is entitled to that; what it disconnects was connected; the list it was told is of this
\* tick; and what it has of the stack, of its screen and of its menu its user was admitted to.
TaskRights(t) ==
  /\ Grants(t) => Entitled(t)
  /\ (t.at = "act" \/ t.list.asked) /\ t.go.to = "a_int_del" => by[t.go.obj] # NoOne
  /\ \A u \in t.list.ids : since[u] = 0
  /\ \A i \in 1..Len(t.stack) : Admitted(t.user, t.stack[i].to)
  /\ Admitted(t.user, t.view.of)
  /\ t.at # "idle" /\ t.via # NoMessage => menus[t.user][t.via] # Unsent

\* The types of the variables.
RowTypes ==
  /\ by \in [Rows -> People \cup {NoOne, Deleted}]
  /\ muted \in BOOLEAN
  /\ status \in {"draft", "running", "cancelled", "done"}

RoleTypes ==
  /\ admins \subseteq People /\ ChatOwner \in admins
  /\ since \in [People -> 0..Never]
  /\ cache \in [asked : BOOLEAN, ids : SUBSET People, age : 0..ListTTL]

BoundTypes == prompts \in 0..Prompts /\ updates \in 0..MaxUpdates /\ changes \in 0..MaxChanges

MenuTypes ==
  /\ nav \in [People -> Seq(Frames)]
  /\ anchor \in [People -> Messages \cup {NoMessage}]
  /\ menus \in [People -> [Messages -> Views]]
  /\ pending \in [People -> Asked \cup {NoPrompt}]
  /\ tasks \in [Tasks -> TaskTypes]

\* An administrator is one now, and whoever is on the list was one when it was as old.
Current ==
  /\ \A u \in admins : since[u] = 0
  /\ \A u \in cache.ids : since[u] <= cache.age

\* What holds of every task.
Shapes == \A k \in Tasks : TaskShape(tasks[k])
Rights == \A k \in Tasks : TaskRights(tasks[k])

\* Nothing leads a user to what they were never admitted to.
MenusAdmitted ==
  \A u \in People :
    /\ \A i \in 1..Len(nav[u]) : Admitted(u, nav[u][i].to)
    /\ \A m \in Messages : Admitted(u, menus[u][m].of)
    /\ Admitted(u, pending[u].go.to)

\* The anchor is a message that was sent.
AnchorSent == \A u \in People : anchor[u] # NoMessage => menus[u][anchor[u]] # Unsent

\* A prompt is one user's, or being answered by one task, or neither.
PromptsOnce ==
  /\ \A u \in People : pending[u] # NoPrompt => /\ pending[u].prompt <= prompts
                                                /\ Answers(pending[u].go, pending[u].action)
  /\ \A u, v \in People : u # v /\ pending[u] # NoPrompt => pending[v].prompt # pending[u].prompt
  /\ \A k \in Tasks : tasks[k].prompt # 0 =>
       /\ tasks[k].prompt <= prompts
       /\ \A j \in Tasks \ {k} : tasks[j].prompt # tasks[k].prompt
       /\ \A u \in People : pending[u].prompt # tasks[k].prompt

\* A task that is alone has its user's anchor to itself.
Solo ==
  \A k \in Active : tasks[k].alone =>
    /\ \A j \in Active \ {k} : tasks[j].user # tasks[k].user
    /\ tasks[k].via # NoMessage /\ tasks[k].at # "tapped" => anchor[tasks[k].user] = tasks[k].via

\* A task as it may be.
Sound(t) == t \in TaskTypes /\ TaskShape(t) /\ TaskRights(t)

\* The task after a step of its own: it has ended, or is the same update.
SameUpdate(t, s) ==
  /\ t.user = s.user /\ t.via = s.via /\ t.alone = s.alone /\ t.prompt = s.prompt
  /\ s.at # "idle" /\ t.at \notin {"idle", "tapped"}
\* It is as a task may be then.
Moves(k) == \E t : Goes(k, t) /\ Sound(t) /\ (t = IdleTask \/ SameUpdate(t, tasks[k]))

(***************************************************************************)
(* The loop of Prune: a recursive function over any stack.                 *)
(***************************************************************************)
\* A set of numbers that is not empty has a least one.
LEMMA Least ==
  ASSUME NEW T \in SUBSET Nat, T # {}
  PROVE \E n \in T : \A m \in T : n <= m
<1>1. IsWellFoundedOn(OpToRel(<,Nat), Nat)
  BY NatLessThanWellFounded
<1>2. PICK n \in T : \A m \in T : ~ (<<m, n>> \in OpToRel(<,Nat))
  BY <1>1, WFMin
<1>3. \A m \in T : ~ (m < n)
  BY <1>2 DEF OpToRel
<1> QED
  BY <1>3

\* What one round of the loop makes of what it has kept so far.
Round(stack, o, i, soFar) == IF stack[i].obj = o THEN soFar ELSE Append(soFar, stack[i])

\* f is the loop over the first n frames.
Loop(stack, o, n, f) ==
  f = [i \in 0..n |-> IF i = 0 THEN <<>> ELSE Round(stack, o, i, f[i - 1])]

\* Prune's loop has a value for every number of rounds: were there a least number without
\* one, a round more than the last good one would give it one.
LEMMA LoopExists ==
  ASSUME NEW stack, NEW o, NEW n \in Nat
  PROVE  \E f : Loop(stack, o, n, f)
<1> DEFINE Bad == {m \in Nat : ~ \E f : Loop(stack, o, m, f)}
<1>1. SUFFICES ASSUME Bad # {} PROVE FALSE
  OBVIOUS
<1>2. PICK b \in Bad : \A m \in Bad : b <= m
  <2>1. Bad \in SUBSET Nat
    OBVIOUS
  <2> HIDE DEF Bad
  <2> QED
    BY <1>1, <2>1, Least
<1>3. b # 0
  <2> SUFFICES ASSUME b = 0 PROVE FALSE
    OBVIOUS
  <2> DEFINE f == [i \in 0..0 |-> <<>>]
  <2>1. Loop(stack, o, 0, f)
    BY DEF Loop
  <2> QED
    BY <2>1, <1>2
<1>4. b \in Nat /\ b - 1 \in Nat /\ b - 1 \notin Bad
  BY <1>2, <1>3
<1>5. PICK f : Loop(stack, o, b - 1, f)
  BY <1>4
<1> DEFINE g == [i \in 0..b |-> IF i = b THEN Round(stack, o, b, f[b - 1]) ELSE f[i]]
<1>6. \A i \in 0..b : g[i] = IF i = 0 THEN <<>> ELSE Round(stack, o, i, g[i - 1])
  <2> TAKE i \in 0..b
  <2>1. CASE i = b
    BY <2>1, <1>3, <1>4
  <2>2. CASE i # b
    <3>1. i \in 0..(b - 1) /\ g[i] = f[i] /\ (i # 0 => g[i - 1] = f[i - 1])
      BY <2>2, <1>4
    <3>2. f[i] = IF i = 0 THEN <<>> ELSE Round(stack, o, i, f[i - 1])
      BY <3>1, <1>5 DEF Loop
    <3> QED
      BY <3>1, <3>2
  <2> QED
    BY <2>1, <2>2
<1>7. Loop(stack, o, b, g)
  <2>1. g = [i \in 0..b |-> g[i]]
    OBVIOUS
  <2> HIDE DEF g
  <2> QED
    BY <1>6, <2>1 DEF Loop
<1> QED
  BY <1>7, <1>2

\* What Prune's loop keeps are frames of the stack, none about what is dropped.
LEMMA KeptFrames ==
  ASSUME NEW stack, Len(stack) \in Nat, NEW o
  PROVE  Kept(stack, o) \in Seq({stack[j] : j \in {i \in 1..Len(stack) : stack[i].obj # o}})
<1> DEFINE S == {stack[j] : j \in {i \in 1..Len(stack) : stack[i].obj # o}}
           kept == CHOOSE f : Loop(stack, o, Len(stack), f)
           Bad == {i \in 0..Len(stack) : kept[i] \notin Seq(S)}
<1>1. Loop(stack, o, Len(stack), kept)
  BY LoopExists
<1>2. Kept(stack, o) = kept[Len(stack)]
  BY DEF Kept, Loop, Round
<1>3. \A i \in 0..Len(stack) :
        kept[i] = IF i = 0 THEN <<>> ELSE Round(stack, o, i, kept[i - 1])
  BY <1>1 DEF Loop
<1>4. ASSUME NEW i \in 1..Len(stack), kept[i - 1] \in Seq(S)
      PROVE  kept[i] \in Seq(S)
  <2>1. kept[i] = Round(stack, o, i, kept[i - 1])
    BY <1>3
  <2>2. stack[i].obj # o => stack[i] \in S
    OBVIOUS
  <2> HIDE DEF S, kept
  <2> QED
    BY <2>1, <2>2, <1>4 DEF Round
<1>5. kept[0] \in Seq(S)
  <2>1. kept[0] = <<>>
    BY <1>3
  <2> HIDE DEF S, kept
  <2> QED
    BY <2>1
<1>6. Bad = {}
  <2> SUFFICES ASSUME Bad # {} PROVE FALSE
    OBVIOUS
  <2>1. Bad \in SUBSET Nat
    OBVIOUS
  <2> HIDE DEF S, kept
  <2>2. PICK b \in Bad : \A m \in Bad : b <= m
    <3> HIDE DEF Bad
    <3> QED
      BY <2>1, Least
  <2>3. b \in 1..Len(stack) /\ b - 1 \in 0..Len(stack) /\ b - 1 \notin Bad
    BY <1>5, <2>2
  <2>4. kept[b - 1] \in Seq(S)
    BY <2>3
  <2> QED
    BY <2>2, <2>3, <2>4, <1>4
<1> QED
  BY <1>2, <1>6

(***************************************************************************)
(* Targets: what the screens draw and the handlers open.                   *)
(***************************************************************************)
\* To makes a target when the row it names is one the screen or action is about.
LEMMA Made ==
  ASSUME NEW s \in Screens \cup Actions, NEW o \in Rows \cup {""}, NEW a \in Args,
         s \in OfInstallation => o \in Installations,
         s \in OfIntegration => o \in Integrations,
         s = "a_filter_del" => o \in {"gfilter", "hfilter"},
         s = "a_refresh" => a \in Refreshed /\ (a = "forge_projects" => o \in Installations)
  PROVE  To(s, o, a) \in Targets
<1>1. s # "__back"
  BY DEF Screens, Actions
<1> QED
  BY <1>1 DEF To, Targets

\* What a target is made of.
LEMMA TargetsAre ==
  ASSUME NEW t \in Targets
  PROVE  /\ IsTarget(t)
         /\ t.to \in Screens \cup Actions \cup {"__back"}
         /\ t.obj \in Rows \cup {""} /\ t.arg \in Args
         /\ t = To(t.to, t.obj, t.arg)
         /\ t.to \in OfInstallation => t.obj \in Installations
         /\ t.to \in OfIntegration => t.obj \in Integrations
         /\ t.to = "a_filter_del" => t.obj \in {"gfilter", "hfilter"}
         /\ t.to = "a_refresh" => /\ t.arg \in Refreshed
                                  /\ t.arg = "forge_projects" => t.obj \in Installations
         /\ t.to = "__back" => t = Back
BY DEF Targets, IsTarget, To

\* A frame is a target that leads to a screen.
LEMMA FramesAre ==
  ASSUME NEW t \in Frames
  PROVE  t \in Targets /\ t.to \in Screens
BY DEF Frames

\* To makes a frame when the row it names is one the screen is about.
LEMMA Framed ==
  ASSUME NEW s \in Screens, NEW o \in Rows \cup {""}, NEW a \in Args,
         s \in OfInstallation => o \in Installations,
         s \in OfIntegration => o \in Integrations
  PROVE  To(s, o, a) \in Frames
<1>1. s # "a_filter_del" /\ s # "a_refresh"
  BY DEF Screens
<1>2. To(s, o, a) \in Targets
  BY <1>1, Made
<1> QED
  BY <1>2 DEF Frames, To

\* Plain makes targets of screens and actions that are about no row.
LEMMA Plainly ==
  ASSUME NEW S \in SUBSET (Screens \cup Actions),
         S \cap (OfInstallation \cup OfIntegration \cup {"a_filter_del", "a_refresh"}) = {}
  PROVE  Plain(S) \subseteq Targets
<1> SUFFICES ASSUME NEW s \in S
             PROVE  To(s, "", "") \in Targets
  BY DEF Plain, At
<1> QED
  BY Made DEF Args

\* The targets the handlers make without a row of their own.
LEMMA KnownTargets ==
  /\ Home \in Frames /\ Back \in Targets /\ Back.to = "__back" /\ Home.to = "home"
  /\ At("adm_home", "") \in Frames /\ At("accounts", "") \in Frames
  /\ At("chat_detail", "chat") \in Frames /\ At("settings", "") \in Frames
  /\ \A o \in {"ok", "error", "duplicate", "topic_failed", "not_admin", "not_owner"} :
       Result(o) \in Frames
<1>1. Home \in Frames /\ Home.to = "home"
  BY Framed DEF Home, At, Screens, Args, OfInstallation, OfIntegration, To
<1>2. Back \in Targets /\ Back.to = "__back"
  BY DEF Back, At, To, Targets, Args, OfInstallation, OfIntegration
<1>3. /\ At("adm_home", "") \in Frames /\ At("accounts", "") \in Frames
      /\ At("settings", "") \in Frames
  BY Framed DEF At, Screens, Args, OfInstallation, OfIntegration
<1>4. At("chat_detail", "chat") \in Frames
  BY Framed DEF At, Screens, Args, OfInstallation, OfIntegration, Rows
<1>5. ASSUME NEW o \in {"ok", "error", "duplicate", "topic_failed", "not_admin", "not_owner"}
      PROVE  Result(o) \in Frames
  BY Framed DEF Result, Screens, Args, OfInstallation, OfIntegration
<1> QED
  BY <1>1, <1>2, <1>3, <1>4, <1>5

\* Every screen draws targets only, whatever rows there are.
LEMMA DrawnTargets ==
  ASSUME NEW u, NEW f \in Frames
  PROVE  Drawn(u, f) \subseteq Targets
<1>1. /\ f.to \in Screens /\ f.obj \in Rows \cup {""} /\ f.arg \in Args
      /\ f.to \in OfInstallation => f.obj \in Installations
      /\ f.to \in OfIntegration => f.obj \in Integrations
  BY FramesAre, TargetsAre
<1>2. Home \in Targets
  BY KnownTargets, FramesAre
<1> DEFINE Sorts == OfInstallation \cup OfIntegration \cup {"a_filter_del", "a_refresh"}
<1>3. ASSUME NEW s \in Screens \cup Actions, NEW o \in Rows \cup {""},
             s \notin Sorts
      PROVE  At(s, o) \in Targets
  BY <1>3, Made DEF At, Args
<1>4. ASSUME NEW s \in OfInstallation, NEW o \in Installations
      PROVE  At(s, o) \in Targets
  BY Made DEF At, Args, OfInstallation, OfIntegration, Installations, Rows, Screens, Actions
<1>5. ASSUME NEW s \in OfIntegration, NEW o \in Integrations
      PROVE  At(s, o) \in Targets
  BY Made DEF At, Args, OfInstallation, OfIntegration, Integrations, Rows, Screens, Actions
<1>6. ASSUME NEW a \in Refreshed, NEW o \in Rows \cup {""},
             a = "forge_projects" => o \in Installations
      PROVE  To("a_refresh", o, a) \in Targets
  BY <1>6, Made DEF Args, Refreshed, OfInstallation, OfIntegration, Screens, Actions
<1>7. ASSUME NEW S \in SUBSET (Screens \cup Actions), S \cap Sorts = {}
      PROVE  Plain(S) \subseteq Targets
  BY <1>7, Plainly
<1>8. f.obj \in Integrations => /\ FilterOf[f.obj] \in {"gfilter", "hfilter"}
                                /\ At("a_filter_del", FilterOf[f.obj]) \in Targets
  <2>1. \A o \in {"gfilter", "hfilter"} : At("a_filter_del", o) \in Targets
    BY Made DEF At, Args, OfInstallation, OfIntegration, Rows, Screens, Actions
  <2> QED
    BY <2>1 DEF Integrations, FilterOf
<1>9. HomeScreen(u) \subseteq Targets
  BY <1>7 DEF HomeScreen, Screens, Actions, OfInstallation, OfIntegration
<1>10. InstallScreen \subseteq Targets
  BY <1>7 DEF InstallScreen, Screens, Actions, OfInstallation, OfIntegration
<1>11. AccountsScreen(u) \subseteq Targets
  <2>1. Plain({"install", "forge_connect"}) \subseteq Targets
    BY <1>7 DEF Screens, Actions, OfInstallation, OfIntegration
  <2>2. ASSUME NEW o \in Installations
        PROVE  At(IF o = "hook" THEN "forge_projects" ELSE "repos", o) \in Targets
    BY <1>4 DEF OfInstallation
  <2> QED
    BY <2>1, <2>2 DEF AccountsScreen, Accounts
<1>12. f.to \in OfInstallation => ReposScreen(f) \subseteq Targets
  BY <1>1, <1>4 DEF ReposScreen, OfInstallation
<1>13. f.to \in OfInstallation => RepoDetailScreen(f) \subseteq Targets
  BY <1>1, <1>4 DEF RepoDetailScreen, OfInstallation
<1>14. f.to \in OfInstallation => ChatPickerScreen(u, f) \subseteq Targets
  <2>1. Plain({"add_to_chat"}) \subseteq Targets
    BY <1>7 DEF Screens, Actions, OfInstallation, OfIntegration
  <2>2. f.to \in OfInstallation => At("connect", f.obj) \in Targets
    BY <1>1, <1>4 DEF OfInstallation
  <2> QED
    BY <2>1, <2>2 DEF ChatPickerScreen
<1>15. AddToChatScreen \subseteq Targets
  BY DEF AddToChatScreen
<1>16. ForgeConnectScreen \subseteq Targets
  BY <1>7 DEF ForgeConnectScreen, Screens, Actions, OfInstallation, OfIntegration
<1>17. f.to \in OfInstallation => HookSetupScreen(f) \subseteq Targets
  BY <1>1, <1>4 DEF HookSetupScreen, OfInstallation
<1>18. f.to \in OfInstallation => ForgeProjectsScreen(u, f) \subseteq Targets
  <2>1. f.to \in OfInstallation => To("a_refresh", f.obj, "forge_projects") \in Targets
    BY <1>1, <1>6 DEF Refreshed
  <2>2. f.to \in OfInstallation => /\ At("hook_setup", f.obj) \in Targets
                                   /\ At("repo_detail", f.obj) \in Targets
    BY <1>1, <1>4 DEF OfInstallation
  <2> QED
    BY <2>1, <2>2 DEF ForgeProjectsScreen
<1>19. f.to \in OfInstallation => ForgeDeleteScreen(f) \subseteq Targets
  BY <1>1, <1>4 DEF ForgeDeleteScreen, OfInstallation
<1>20. ResultScreen \subseteq Targets
  BY <1>2 DEF ResultScreen
<1>21. ChatsScreen(u) \subseteq Targets
  <2>1. Plain({"add_to_chat"}) \subseteq Targets /\ Plain({"accounts"}) \subseteq Targets
    BY <1>7 DEF Screens, Actions, OfInstallation, OfIntegration
  <2>2. At("chat_detail", "chat") \in Targets
    BY KnownTargets, FramesAre
  <2> QED
    BY <2>1, <2>2 DEF ChatsScreen
<1>22. At("topics", "chat") \in Targets /\ At("a_topic", "chat") \in Targets
       /\ At("a_topic_new", "chat") \in Targets
  BY <1>3 DEF Screens, Actions, OfInstallation, OfIntegration, Rows
<1>23. ChatDetailScreen \subseteq Targets
  <2>1. \A a \in {"0", "1"} : To("a_mute", "chat", a) \in Targets
    BY Made DEF Args, Rows, Screens, Actions, OfInstallation, OfIntegration
  <2>2. Plain({"accounts"}) \subseteq Targets
    BY <1>7 DEF Screens, Actions, OfInstallation, OfIntegration
  <2>3. \A i \in Integrations : At("integration_detail", i) \in Targets
    BY <1>5 DEF OfIntegration
  <2> QED
    BY <1>22, <2>1, <2>2, <2>3 DEF ChatDetailScreen
<1>24. TopicsScreen \subseteq Targets
  BY <1>22 DEF TopicsScreen
<1>25. f.to \in OfIntegration => IntegrationDetailScreen(u, f) \subseteq Targets
  BY <1>1, <1>5 DEF IntegrationDetailScreen, OfIntegration
<1>26. f.to \in OfIntegration => EventsScreen(f) \subseteq Targets
  BY <1>1, <1>5 DEF EventsScreen, OfIntegration
<1>27. f.to \in OfIntegration => FiltersScreen(f) \subseteq Targets
  BY <1>1, <1>5, <1>8 DEF FiltersScreen, OfIntegration
<1>28. f.to \in OfIntegration => HealthScreen(f) \subseteq Targets
  BY <1>1, <1>2, <1>5 DEF HealthScreen, OfIntegration
<1>29. StatusScreen \subseteq Targets
  BY <1>7 DEF StatusScreen, Screens, Actions, OfInstallation, OfIntegration
<1>30. SettingsScreen \subseteq Targets
  BY <1>2, <1>3 DEF SettingsScreen, Screens, Actions, OfInstallation, OfIntegration
<1>31. AdmHomeScreen \subseteq Targets
  <2>1. Plain({"adm_stats", "adm_refs", "adm_bcs"}) \subseteq Targets
    BY <1>7 DEF Screens, Actions, OfInstallation, OfIntegration
  <2> QED
    BY <1>2, <2>1 DEF AdmHomeScreen
<1>32. AdmStatsScreen \subseteq Targets
  BY <1>6 DEF AdmStatsScreen, Refreshed
<1>33. /\ AdmRefsScreen \subseteq Targets /\ AdmBcsScreen \subseteq Targets
       /\ AdmBcScreen \subseteq Targets
  <2>1. /\ At("adm_ref_new", "") \in Targets /\ At("adm_ref", "ref") \in Targets
        /\ At("adm_bc_new", "") \in Targets /\ At("adm_bc", "bc") \in Targets
        /\ At("adm_bc_send", "bc") \in Targets /\ At("adm_bc_cancel", "bc") \in Targets
    BY <1>3 DEF Screens, Actions, OfInstallation, OfIntegration, Rows
  <2>2. To("a_refresh", "bc", "adm_bc") \in Targets
    BY <1>6 DEF Refreshed, Rows
  <2> QED
    BY <2>1, <2>2 DEF AdmRefsScreen, AdmBcsScreen, AdmBcScreen
<1>34. AdmRefScreen(f) \subseteq Targets
  <2>1. At("adm_ref_del", "ref") \in Targets
    BY <1>3 DEF Screens, Actions, OfInstallation, OfIntegration, Rows
  <2>2. /\ To("a_refresh", "ref", "adm_ref") \in Targets
        /\ To("a_refresh", "ref", "confirm") \in Targets
    BY <1>6 DEF Refreshed, Rows
  <2> QED
    BY <2>1, <2>2 DEF AdmRefScreen
<1>35. CASE f.to \in OfInstallation
  BY <1>35, <1>1, <1>12, <1>13, <1>14, <1>17, <1>18, <1>19 DEF Drawn, OfInstallation, Screens
<1>36. CASE f.to \in OfIntegration
  BY <1>36, <1>1, <1>25, <1>26, <1>27, <1>28 DEF Drawn, OfIntegration, Screens
<1>37. CASE f.to \notin OfInstallation \cup OfIntegration
  BY <1>37, <1>1, <1>9, <1>10, <1>11, <1>15, <1>16, <1>20, <1>21, <1>23, <1>24, <1>29, <1>30,
     <1>31, <1>32, <1>33, <1>34 DEF Drawn, OfInstallation, OfIntegration, Screens
<1> QED
  BY <1>35, <1>36, <1>37

(***************************************************************************)
(* Tasks, and what they are entitled to.                                   *)
(***************************************************************************)
\* The engine saves frames, and none that was not in the stack, but home and the one pushed.
LEMMA SavedFrames ==
  ASSUME NEW t, t.stack \in Seq(Frames), t.how \in {"push", "pop", "prune"},
         t.how = "push" => t.go \in Frames
  PROVE  /\ Saved(t) \in Seq(Frames)
         /\ \A i \in 1..Len(Saved(t)) :
              \/ Saved(t)[i] = Home
              \/ t.how = "push" /\ Saved(t)[i] = t.go
              \/ \E j \in 1..Len(t.stack) : Saved(t)[i] = t.stack[j]
<1> DEFINE s == t.stack
<1>h. Home \in Frames
  BY KnownTargets
<1>l. Len(s) \in Nat /\ \A j \in 1..Len(s) : s[j] \in Frames
  OBVIOUS
<1>1. CASE t.how = "push"
  <2>1. Saved(t) = IF t.go = Home THEN <<Home>> ELSE Append(s, t.go)
    BY <1>1 DEF Saved, Push
  <2>2. CASE t.go = Home
    BY <2>1, <2>2, <1>h
  <2>3. CASE t.go # Home
    BY <1>1, <2>1, <2>3
  <2> QED
    BY <2>2, <2>3
<1>2. CASE t.how = "pop"
  <2>1. Saved(t) = IF Len(s) > 1 THEN SubSeq(s, 1, Len(s) - 1) ELSE s
    BY <1>2 DEF Saved, Pop
  <2>2. CASE Len(s) > 1
    <3>1. /\ SubSeq(s, 1, Len(s) - 1) \in Seq(Frames)
          /\ Len(SubSeq(s, 1, Len(s) - 1)) = Len(s) - 1
          /\ \A i \in 1..(Len(s) - 1) : SubSeq(s, 1, Len(s) - 1)[i] = s[i]
      BY <1>l, <2>2
    <3> QED
      BY <2>1, <2>2, <3>1, <1>l
  <2>3. CASE ~ (Len(s) > 1)
    BY <2>1, <2>3
  <2> QED
    BY <2>2, <2>3
<1>3. CASE t.how = "prune"
  <2> DEFINE K == Kept(s, t.go.obj)
             S == {s[j] : j \in {i \in 1..Len(s) : s[i].obj # t.go.obj}}
  <2>1. Saved(t) = IF K = <<>> THEN <<Home>> ELSE K
    BY <1>3 DEF Saved, Prune
  <2>2. K \in Seq(S)
    BY KeptFrames, <1>l
  <2>3. \A f \in S : f \in Frames /\ \E j \in 1..Len(s) : f = s[j]
    BY <1>l
  <2> HIDE DEF K, S
  <2>4. K \in Seq(Frames) /\ \A i \in 1..Len(K) : \E j \in 1..Len(s) : K[i] = s[j]
    <3>1. \A i \in 1..Len(K) : K[i] \in S
      BY <2>2
    <3>2. K \in [1..Len(K) -> Frames]
      BY <2>2, <2>3, <3>1
    <3> QED
      BY <2>2, <2>3, <3>1, <3>2
  <2> HIDE DEF s
  <2>5. CASE K = <<>>
    BY <2>1, <2>5, <1>h
  <2>6. CASE K # <<>>
    BY <2>1, <2>6, <2>4 DEF s
  <2> QED
    BY <2>5, <2>6
<1> QED
  BY <1>1, <1>2, <1>3

\* The top of a stack is a frame, home if it is empty.
LEMMA TopOfFrames ==
  ASSUME NEW s \in Seq(Frames)
  PROVE  Top(s) \in Frames
<1>1. CASE s = <<>>
  BY <1>1, KnownTargets DEF Top
<1>2. CASE s # <<>>
  BY <1>2 DEF Top
<1> QED
  BY <1>1, <1>2

\* The guard's table has six answers, and only disconnecting asks for the owner.
LEMMA Scopes ==
  /\ \A s : Scope(s) \in {"", "bot", "chat", "integration", "owner", "filter"}
  /\ \A s : Scope(s) = "owner" <=> s = "a_int_del"
  /\ \A s \in {"", "home", "result", "unsent", "gone", "connect", "a_repo_search"} : Scope(s) = ""
  /\ Scope("chat_detail") = "chat" /\ Scope("a_filter_add") = "integration"
  /\ Scope("adm_ref_new") = "bot" /\ Scope("adm_bc_new") = "bot"
<1>1. \A s : /\ Scope(s) \in {"", "bot", "chat", "integration", "owner", "filter"}
             /\ Scope(s) = "owner" <=> s = "a_int_del"
  BY DEF Scope
<1>2. \A s \in {"", "home", "result", "unsent", "gone", "connect", "a_repo_search"} : Scope(s) = ""
  BY DEF Scope
<1>3. /\ Scope("chat_detail") = "chat" /\ Scope("a_filter_add") = "integration"
      /\ Scope("adm_ref_new") = "bot" /\ Scope("adm_bc_new") = "bot"
  BY DEF Scope
<1> QED
  BY <1>1, <1>2, <1>3

\* What has no scope is open to everybody.
LEMMA AlwaysAdmitted ==
  ASSUME NEW u, NEW s, Scope(s) = ""
  PROVE  Admitted(u, s)
BY DEF Admitted, Of

\* What a task was authorized for is what it reaches for: an answer by its prompt's action
\* (handlers.go:562-563), connecting by the chat it asked about itself, everything else by name.
LEMMA ReachesScope ==
  ASSUME NEW t, t \in TaskTypes, TaskShape(t), Grants(t)
  PROVE  Reaches(t) = IF t.go.to = "connect" THEN "chat" ELSE Scope(t.go.to)
<1>1. CASE t.at = "act" /\ t.action # ""
  <2>1. Answers(t.go, t.action)
    BY <1>1 DEF TaskShape
  <2>2. /\ Reaches(t) = CASE t.action = "filter" -> "integration"
                          [] t.action \in {"ref_name", "broadcast"} -> "bot"
                          [] OTHER -> ""
    BY <1>1 DEF Reaches
  <2>3. \/ t.go.to = "a_filter_add" /\ t.action = "filter"
        \/ t.go.to = "a_repo_search" /\ t.action = "repo_search"
        \/ t.go.to = "adm_ref_new" /\ t.action = "ref_name"
        \/ t.go.to = "adm_bc_new" /\ t.action = "broadcast"
    BY <2>1 DEF Answers, InputOf
  <2> QED
    BY <2>2, <2>3, Scopes
<1>2. CASE ~ (t.at = "act" /\ t.action # "")
  BY <1>2 DEF Reaches
<1> QED
  BY <1>1, <1>2

\* What a decision in the task's favour entitles it to.
LEMMA AllowedIsEntitled ==
  ASSUME NEW t, t \in TaskTypes, TaskShape(t), Grants(t), NEW ids,
         Allowed(t.user, IF t.go.to = "connect" THEN At("chat_detail", "chat") ELSE t.go, ids),
         AsksTelegram((IF t.go.to = "connect" THEN At("chat_detail", "chat") ELSE t.go).to) =>
           \A u \in ids : since[u] < ListTTL
  PROVE  Entitled(t)
<1>1. Reaches(t) = IF t.go.to = "connect" THEN "chat" ELSE Scope(t.go.to)
  BY ReachesScope
<1>2. At("chat_detail", "chat").to = "chat_detail"
  BY DEF At, To
<1>3. CASE t.go.to = "connect"
  <2>1. t.user \in ids /\ AsksTelegram("chat_detail")
    BY <1>2, <1>3, Scopes DEF Allowed, AsksTelegram
  <2> QED
    BY <1>1, <1>2, <1>3, <2>1 DEF Entitled
<1>4. CASE t.go.to # "connect"
  <2>1. Allowed(t.user, t.go, ids) /\ Reaches(t) = Scope(t.go.to)
        /\ (AsksTelegram(t.go.to) => \A u \in ids : since[u] < ListTTL)
    BY <1>1, <1>4
  <2> QED
    BY <2>1, Scopes DEF Allowed, AsksTelegram, Entitled
<1> QED
  BY <1>3, <1>4

\* The fields of an idle task.
LEMMA IdleIs ==
  /\ IdleTask.at = "idle" /\ IdleTask.list.ids = {} /\ ~ IdleTask.list.asked
  /\ Len(IdleTask.stack) = 0 /\ IdleTask.view.of = "unsent" /\ IdleTask.prompt = 0
BY DEF IdleTask, NotAsked, Unsent

\* An idle task is as a task may be.
LEMMA IdleIsSound ==
  ASSUME NoMessage \notin Messages
  PROVE  IdleTask \in TaskTypes /\ TaskShape(IdleTask) /\ TaskRights(IdleTask)
<1>1. Home \in Frames /\ Home \in Targets
  BY KnownTargets, FramesAre
<1>2. Unsent \in Views
  BY DEF Unsent, Views
<1>3. IdleTask \in TaskTypes
  BY <1>1, <1>2 DEF IdleTask, TaskTypes, NotAsked
<1>4. TaskShape(IdleTask)
  BY DEF TaskShape, IdleTask, Carries
<1>5. TaskRights(IdleTask)
  <2>2. Admitted(IdleTask.user, IdleTask.view.of)
    BY IdleIs, Scopes, AlwaysAdmitted
  <2> QED
    BY IdleIs, <2>2 DEF TaskRights, Grants, Carries
<1> QED
  BY <1>3, <1>4, <1>5

\* The fields of a task.
LEMMA TasksAre ==
  ASSUME NEW t \in TaskTypes
  PROVE  /\ t.user \in People \cup {NoOne} /\ t.via \in Messages \cup {NoMessage}
         /\ t.go \in Targets /\ t.stack \in Seq(Frames) /\ t.view \in Views
         /\ t.list.ids \in SUBSET People /\ t.prompt \in Nat /\ t.action \in Inputs \cup {""}
         /\ t.how \in {"push", "pop", "prune", "draw"} /\ t.alone \in BOOLEAN
         /\ t.deny \in BOOLEAN
BY DEF TaskTypes

\* A task that opens a screen is as a task may be: it is yet to be authorized.
LEMMA OpensSound ==
  ASSUME NEW k \in Tasks, Sound(tasks[k]), tasks[k].at # "idle", NEW f \in Frames,
         NEW deny \in BOOLEAN
  PROVE  Sound(Opens(k, f, deny)) /\ SameUpdate(Opens(k, f, deny), tasks[k])
<1> DEFINE s == tasks[k]  t == Opens(k, f, deny)
<1>1. s \in TaskTypes /\ TaskShape(s) /\ TaskRights(s)
  BY DEF Sound
<1>2. f \in Targets /\ f.to \in Screens
  BY FramesAre
<1>3. t = [s EXCEPT !.at = "open", !.go = f, !.how = "push", !.deny = deny, !.list = NotAsked]
  BY DEF Opens
<1> HIDE DEF s, t
<1>4. t \in TaskTypes
  BY <1>1, <1>2, <1>3 DEF TaskTypes, NotAsked
<1>5. /\ t.at = "open" /\ t.go = f /\ t.how = "push" /\ t.list = NotAsked /\ t.user = s.user
      /\ t.via = s.via /\ t.alone = s.alone /\ t.prompt = s.prompt /\ t.action = s.action
      /\ t.stack = s.stack /\ t.view = s.view
  BY <1>1, <1>3 DEF TaskTypes
<1>6. TaskShape(t)
  BY <1>1, <1>2, <1>5 DEF TaskShape, s, Carries
<1>7. TaskRights(t)
  BY <1>1, <1>5 DEF TaskRights, s, Carries, Grants, NotAsked
<1> QED
  BY <1>4, <1>5, <1>6, <1>7 DEF s, t, Sound, SameUpdate

(***************************************************************************)
(* The steps of a task: authorizing, going on and ending.                  *)
(***************************************************************************)
\* A task that goes on is as a task may be, if what it carries came from itself or is admitted,
\* and if it is entitled to what it is about to do.
LEMMA MovesOn ==
  ASSUME NEW s, Sound(s), s.at # "idle", NEW t \in TaskTypes, t.at \notin {"idle", "tapped"},
         t.user = s.user, t.via = s.via, t.alone = s.alone, t.prompt = s.prompt,
         t.stack \in {s.stack, <<>>} \/ \A i \in 1..Len(t.stack) : Admitted(t.user, t.stack[i].to),
         t.view = s.view \/ Admitted(t.user, t.view.of),
         t.list \in {s.list, NotAsked} \/ \A u \in t.list.ids : since[u] = 0,
         TaskShape(t), Grants(t) => Entitled(t),
         (t.at = "act" \/ t.go # s.go \/ t.list \notin {s.list, NotAsked})
           /\ t.go.to = "a_int_del" =>
           by[t.go.obj] # NoOne
  PROVE  Sound(t) /\ SameUpdate(t, s)
<1>1. TaskRights(s)
  BY DEF Sound
<1>2. \A u \in t.list.ids : since[u] = 0
  BY <1>1 DEF TaskRights, NotAsked
<1>3. \A i \in 1..Len(t.stack) : Admitted(t.user, t.stack[i].to)
  BY <1>1 DEF TaskRights
<1>4. Admitted(t.user, t.view.of)
  BY <1>1 DEF TaskRights
<1>5. t.via # NoMessage => menus[t.user][t.via] # Unsent
  BY <1>1 DEF TaskRights
<1>6. (t.at = "act" \/ t.list.asked) /\ t.go.to = "a_int_del" => by[t.go.obj] # NoOne
  BY <1>1 DEF TaskRights, NotAsked
<1>7. TaskRights(t)
  BY <1>2, <1>3, <1>4, <1>5, <1>6 DEF TaskRights
<1> QED
  BY <1>7 DEF Sound, SameUpdate

\* A handler that ends leaves an idle task.
LEMMA EndMoves ==
  ASSUME MenuAssumption, NEW k \in Tasks, End(k)
  PROVE  Moves(k)
<1>1. Sound(IdleTask)
  BY IdleIsSound DEF MenuAssumption, Sound
<1> QED
  BY <1>1 DEF Moves, End

\* A handler that opens a screen goes on as a task may.
LEMMA ReopenMoves ==
  ASSUME NEW k \in Tasks, Sound(tasks[k]), tasks[k].at # "idle", NEW f \in Frames, Reopen(k, f)
  PROVE  Moves(k)
BY OpensSound DEF Reopen, Moves

\* A handler that redraws a screen goes on as a task may: it is authorized again.
LEMMA RedrawMoves ==
  ASSUME NEW k \in Tasks, Sound(tasks[k]), tasks[k].at # "idle", NEW f \in Frames, Redraw(k, f)
  PROVE  Moves(k)
<1> DEFINE s == tasks[k]
           t == [s EXCEPT !.at = "check", !.go = f, !.how = "draw", !.deny = TRUE]
<1>1. s \in TaskTypes /\ TaskShape(s)
  BY DEF Sound
<1>2. f \in Targets /\ f.to \in Screens
  BY FramesAre
<1>3. /\ t \in TaskTypes /\ t.at = "check" /\ t.go = f /\ t.how = "draw" /\ t.user = s.user
      /\ t.via = s.via /\ t.alone = s.alone /\ t.prompt = s.prompt /\ t.action = s.action
      /\ t.stack = s.stack /\ t.view = s.view /\ t.list = s.list
  BY <1>1, <1>2 DEF TaskTypes
<1> HIDE DEF t
<1>4. TaskShape(t) /\ ~ Grants(t)
  BY <1>1, <1>2, <1>3 DEF TaskShape, Carries, Grants
<1>5. t.go.to # "a_int_del"
  BY <1>2, <1>3 DEF Screens
<1>6. Sound(t) /\ SameUpdate(t, s)
  BY <1>3, <1>4, <1>5, MovesOn
<1> QED
  BY <1>6 DEF Moves, Redraw, t

\* What Onward changes of a task: it goes to stage at.
\* The fields of a task that goes to its next stage.
LEMMA StageMoves ==
  ASSUME NEW k \in Tasks, Sound(tasks[k]), tasks[k].at \notin {"idle"},
         NEW t, NEW at \in {"own", "act", "save", "load", "render"},
         t = [tasks[k] EXCEPT !.at = at, !.list = NotAsked]
  PROVE  /\ t \in TaskTypes /\ t.at = at /\ t.go = tasks[k].go /\ t.how = tasks[k].how
         /\ t.user = tasks[k].user /\ t.via = tasks[k].via /\ t.alone = tasks[k].alone
         /\ t.prompt = tasks[k].prompt /\ t.action = tasks[k].action
         /\ t.stack = tasks[k].stack /\ t.view = tasks[k].view /\ t.list = NotAsked
BY DEF Sound, TaskTypes, NotAsked

\* Authorize: allowed on a list of the last ListTTL is entitled; refused opens the result screen,
\* which is everybody's, or ends.
LEMMA JudgeMoves ==
  ASSUME MenuAssumption, NEW k \in Tasks, Sound(tasks[k]), tasks[k].at \in Checks,
         NEW ids \in SUBSET People,
         tasks[k].go.to = "a_int_del" => by[tasks[k].go.obj] # NoOne,
         AsksTelegram(Question(k).to) => \A u \in ids : since[u] < ListTTL,
         Judge(k, ids)
  PROVE  Moves(k)
<1> DEFINE s == tasks[k]
<1>s. s \in TaskTypes /\ TaskShape(s) /\ s.at \notin {"idle", "tapped"}
  BY DEF Sound, Checks
<1>g. s.go \in Targets
  BY <1>s, TasksAre
<1>1. CASE ~ Allowed(s.user, Question(k), ids)
  <2>1. Goes(k, Refused(k, ids))
    BY <1>1 DEF Judge
  <2>2. CASE Refused(k, ids) = IdleTask
    BY <2>1, <2>2, EndMoves DEF End
  <2>3. CASE Refused(k, ids) = Opens(k, Result(Reason(s.user, Question(k), ids)), FALSE)
    <3>1. Result(Reason(s.user, Question(k), ids)) \in Frames
      BY KnownTargets DEF Reason
    <3> QED
      BY <2>1, <2>3, <3>1, <1>s, ReopenMoves DEF Reopen
  <2> QED
    BY <2>2, <2>3 DEF Refused
<1>2. CASE Allowed(s.user, Question(k), ids)
  <2> DEFINE t == [Onward(k) EXCEPT !.list = NotAsked]
  <2>1. Goes(k, t)
    BY <1>2 DEF Judge
  <2>2. CASE s.at = "handler"
    <3>0. Question(k) = s.go /\ s.prompt = 0 /\ s.action = ""
      BY <2>2, <1>s DEF Question, TaskShape
    <3>1. CASE s.go = Back
      <4>1. t = [[s EXCEPT !.at = "load", !.how = "pop", !.deny = TRUE] EXCEPT !.list = NotAsked]
        BY <2>2, <3>1 DEF Onward
      <4>2. /\ t \in TaskTypes /\ t.at = "load" /\ t.go = s.go /\ t.how = "pop" /\ t.user = s.user
            /\ t.via = s.via /\ t.alone = s.alone /\ t.prompt = s.prompt /\ t.action = s.action
            /\ t.stack = s.stack /\ t.view = s.view /\ t.list = NotAsked
        BY <4>1, <1>s DEF TaskTypes, NotAsked
      <4> HIDE DEF t
      <4>3. TaskShape(t) /\ ~ Grants(t)
        BY <4>2, <1>s, <2>2 DEF TaskShape, Carries, Grants
      <4>4. Sound(t) /\ SameUpdate(t, s)
        BY <4>2, <4>3, <1>s, MovesOn
      <4> QED
        BY <2>1, <4>4 DEF Moves
    <3>2. CASE s.go # Back /\ s.go.to = "connect"
      <4>1. t = [s EXCEPT !.at = "own", !.list = NotAsked]
        BY <2>2, <3>2, <1>s DEF Onward, TaskTypes
      <4> HIDE DEF t
      <4>2. /\ t \in TaskTypes /\ t.at = "own" /\ t.go = s.go /\ t.how = s.how /\ t.user = s.user
            /\ t.via = s.via /\ t.alone = s.alone /\ t.prompt = s.prompt /\ t.action = s.action
            /\ t.stack = s.stack /\ t.view = s.view /\ t.list = NotAsked
        BY <4>1, <1>s, StageMoves
      <4>3. TaskShape(t) /\ ~ Grants(t)
        BY <4>2, <1>s, <2>2, <3>0, <3>2 DEF TaskShape, Carries, Grants
      <4>4. Sound(t) /\ SameUpdate(t, s)
        BY <4>2, <4>3, <1>s, MovesOn
      <4> QED
        BY <2>1, <4>4 DEF Moves
    <3>3. CASE s.go # Back /\ s.go.to # "connect" /\ s.go.to \in Actions
      <4>1. t = [s EXCEPT !.at = "act", !.list = NotAsked]
        BY <2>2, <3>3, <1>s DEF Onward, TaskTypes
      <4> HIDE DEF t
      <4>2. /\ t \in TaskTypes /\ t.at = "act" /\ t.go = s.go /\ t.how = s.how /\ t.user = s.user
            /\ t.via = s.via /\ t.alone = s.alone /\ t.prompt = s.prompt /\ t.action = s.action
            /\ t.stack = s.stack /\ t.view = s.view /\ t.list = NotAsked
        BY <4>1, <1>s, StageMoves
      <4>3. TaskShape(t) /\ Grants(t)
        BY <4>2, <1>s, <2>2, <3>0, <3>3 DEF TaskShape, Carries, Grants
      <4>4. Entitled(t)
        BY <4>2, <4>3, <1>2, <3>0, <3>3, AllowedIsEntitled
      <4>5. t.go.to = "a_int_del" => by[t.go.obj] # NoOne
        BY <4>2
      <4>6. Sound(t) /\ SameUpdate(t, s)
        BY <4>2, <4>3, <4>4, <4>5, <1>s, MovesOn
      <4> QED
        BY <2>1, <4>6 DEF Moves
    <3>4. CASE s.go # Back /\ s.go.to # "connect" /\ s.go.to \notin Actions
      <4>1. s.go \in Frames
        BY <1>g, <3>4, TargetsAre DEF Frames
      <4>2. Sound(Opens(k, s.go, TRUE)) /\ SameUpdate(Opens(k, s.go, TRUE), s)
        BY <1>s, <4>1, OpensSound
      <4>3. t = Opens(k, s.go, TRUE)
        BY <2>2, <3>4, <1>s DEF Onward, Opens, TaskTypes
      <4> QED
        BY <2>1, <4>2, <4>3 DEF Moves
    <3> QED
      BY <3>1, <3>2, <3>3, <3>4
  <2>3. CASE s.at \in {"own", "answer"}
    <3>1. t = [s EXCEPT !.at = "act", !.list = NotAsked]
      BY <2>3, <1>s DEF Onward, TaskTypes
    <3> HIDE DEF t
    <3>2. /\ t \in TaskTypes /\ t.at = "act" /\ t.go = s.go /\ t.how = s.how /\ t.user = s.user
          /\ t.via = s.via /\ t.alone = s.alone /\ t.prompt = s.prompt /\ t.action = s.action
          /\ t.stack = s.stack /\ t.view = s.view /\ t.list = NotAsked
      BY <3>1, <1>s, StageMoves
    <3>3. s.at = "answer" => Answers(s.go, s.action)
      BY <1>s DEF TaskShape
    <3>4. s.at = "answer" => s.go.to \in Actions /\ s.go.to \notin {"connect", "a_int_del"}
      BY <3>3 DEF Answers, InputOf, Actions
    <3>5. s.at = "own" => s.go.to = "connect" /\ s.prompt = 0
      BY <1>s DEF TaskShape
    <3>6. TaskShape(t) /\ Grants(t)
      BY <3>2, <1>s, <2>3, <3>3, <3>4, <3>5 DEF TaskShape, Carries, Grants, Actions
    <3>7. Question(k) = IF t.go.to = "connect" THEN At("chat_detail", "chat") ELSE t.go
      BY <3>2, <3>4, <3>5, <2>3 DEF Question
    <3>8. Entitled(t)
      BY <3>2, <3>6, <3>7, <1>2, AllowedIsEntitled
    <3>9. Sound(t) /\ SameUpdate(t, s)
      BY <3>2, <3>4, <3>5, <3>6, <3>8, <1>s, <2>3, MovesOn
    <3> QED
      BY <2>1, <3>9 DEF Moves
  <2>4. CASE s.at \in {"open", "check"}
    <3>1. PICK at \in {"save", "load", "render"} :
            /\ t = [s EXCEPT !.at = at, !.list = NotAsked]
            /\ s.at = "open" => at # "render"
            /\ s.at = "check" => at = "render"
      BY <2>4, <1>s DEF Onward, TaskTypes
    <3> HIDE DEF t
    <3>a. at \in {"own", "act", "save", "load", "render"} /\ s.at \notin {"idle"} /\ Sound(s)
          /\ t = [s EXCEPT !.at = at, !.list = NotAsked]
      BY <3>1, <1>s
    <3>2. /\ t \in TaskTypes /\ t.at = at /\ t.go = s.go /\ t.how = s.how /\ t.user = s.user
          /\ t.via = s.via /\ t.alone = s.alone /\ t.prompt = s.prompt /\ t.action = s.action
          /\ t.stack = s.stack /\ t.view = s.view /\ t.list = NotAsked
      BY <3>a, <1>s DEF TaskTypes, NotAsked
    <3>3. s.go.to \in Screens /\ (s.at = "open" => s.how = "push")
      BY <2>4, <1>s DEF TaskShape
    <3>4. s.go.to \notin {"connect", "a_int_del"}
      BY <3>3 DEF Screens
    <3>5. TaskShape(t) /\ Grants(t)
      BY <3>1, <3>2, <1>s, <2>4, <3>3 DEF TaskShape, Carries, Grants
    <3>6. Question(k) = IF t.go.to = "connect" THEN At("chat_detail", "chat") ELSE t.go
      BY <3>2, <3>4, <2>4 DEF Question
    <3>7. Entitled(t)
      BY <3>2, <3>5, <3>6, <1>2, AllowedIsEntitled
    <3>8. Sound(t) /\ SameUpdate(t, s)
      BY <3>1, <3>2, <3>5, <3>7, <1>s, MovesOn
    <3> QED
      BY <2>1, <3>8 DEF Moves
  <2> QED
    BY <2>2, <2>3, <2>4 DEF Checks
<1> QED
  BY <1>1, <1>2

(***************************************************************************)
(* The actions.                                                            *)
(***************************************************************************)
\* The four prompts, and the action each answer belongs to.
LEMMA AnswersAre ==
  ASSUME NEW go, NEW action, Answers(go, action)
  PROVE  \/ go.to = "a_filter_add" /\ action = "filter"
         \/ go.to = "a_repo_search" /\ action = "repo_search"
         \/ go.to = "adm_ref_new" /\ action = "ref_name"
         \/ go.to = "adm_bc_new" /\ action = "broadcast"
BY DEF Answers, InputOf

\* Who is entitled to a screen now is admitted to it from now on.
LEMMA EntitledIsAdmitted ==
  ASSUME MenuAssumption, NEW t, t \in TaskTypes, TaskShape(t), Grants(t), Entitled(t),
         since \in [People -> 0..Never]
  PROVE  Admitted(t.user, t.go.to)
<1>1. Reaches(t) = IF t.go.to = "connect" THEN "chat" ELSE Scope(t.go.to)
  BY ReachesScope
<1>2. t.user \in People
  BY DEF TaskShape, Grants, Carries
<1>3. ListTTL \in Nat /\ since[t.user] \in Nat
  BY <1>2 DEF MenuAssumption, Never
<1>4. CASE t.go.to = "connect"
  BY <1>4, Scopes, AlwaysAdmitted
<1>5. CASE t.go.to # "connect"
  <2>1. Reaches(t) = Scope(t.go.to)
    BY <1>1, <1>5
  <2>2. Of(t.go.to) => since[t.user] < ListTTL
    BY <2>1, <1>3 DEF Of, Entitled
  <2>3. Scope(t.go.to) = "bot" => t.user \in BotAdmins
    BY <2>1 DEF Entitled
  <2> QED
    BY <2>2, <2>3, <1>3 DEF Admitted, Never
<1> QED
  BY <1>4, <1>5

\* Each action leaves its task ended, or about to show a screen it is yet authorized for or
\* that is its own.
LEMMA ActMoves ==
  ASSUME MenuAssumption, NEW k \in Tasks, Sound(tasks[k]), Act(k)
  PROVE  Moves(k)
<1> DEFINE s == tasks[k]
<1>s. s \in TaskTypes /\ TaskShape(s) /\ TaskRights(s)
  BY DEF Sound
<1>g. /\ s.go.obj \in Rows \cup {""} /\ s.go.arg \in Args
      /\ s.go.to \in OfInstallation => s.go.obj \in Installations
      /\ s.go.to \in OfIntegration => s.go.obj \in Integrations
      /\ s.go.to = "a_filter_del" => s.go.obj \in {"gfilter", "hfilter"}
      /\ s.go.to = "a_refresh" => /\ s.go.arg \in Refreshed
                                  /\ s.go.arg = "forge_projects" => s.go.obj \in Installations
  BY <1>s, TasksAre, TargetsAre
<1>a. s.at = "act"
  BY DEF Act, Acts, ConnectRepo, ApplyMute, ApplySetting, DeleteFilter, StartInput, Refresh,
         DeleteRefLink, DecideBroadcast, NewConnection, ForgetConnection, DeleteIntegration,
         UseAnswer, RowGone
<1>o. \A f \in Frames : Reopen(k, f) => Moves(k)
  BY <1>a, ReopenMoves
<1>d. \A f \in Frames : Redraw(k, f) => Moves(k)
  BY <1>a, RedrawMoves
<1>e. End(k) => Moves(k)
  BY EndMoves
<1>f. ASSUME NEW scr \in Screens, NEW o \in Rows \cup {""},
             scr \in OfInstallation => o \in Installations,
             scr \in OfIntegration => o \in Integrations
      PROVE  At(scr, o) \in Frames
  BY <1>f, Framed DEF At, Args
\* The stack is loaded to be changed.
<1>l. ASSUME NEW how \in {"pop", "prune"}, NEW deny \in BOOLEAN,
             Goes(k, [s EXCEPT !.at = "load", !.how = how, !.deny = deny])
      PROVE  Moves(k)
  <2> DEFINE t == [s EXCEPT !.at = "load", !.how = how, !.deny = deny]
  <2>1. /\ t \in TaskTypes /\ t.at = "load" /\ t.go = s.go /\ t.how = how /\ t.user = s.user
        /\ t.via = s.via /\ t.alone = s.alone /\ t.prompt = s.prompt /\ t.action = s.action
        /\ t.stack = s.stack /\ t.view = s.view /\ t.list = s.list
    BY <1>s DEF TaskTypes
  <2>h. Goes(k, t)
    BY <1>l
  <2> HIDE DEF t
  <2>2. TaskShape(t) /\ ~ Grants(t)
    BY <2>1, <1>s, <1>a DEF TaskShape, Carries, Grants
  <2>3. Sound(t) /\ SameUpdate(t, s)
    BY <2>1, <2>2, <1>s, <1>a, MovesOn
  <2> QED
    BY <2>3, <2>h DEF Moves
<1>1. CASE ConnectRepo(k)
  <2>1. \A r \in {"ok", "error", "duplicate"} : Result(r) \in Frames
    BY KnownTargets
  <2> QED
    BY <1>1, <2>1, <1>o DEF ConnectRepo
<1>2. CASE ApplyMute(k)
  BY <1>2, <1>o, KnownTargets DEF ApplyMute
<1>3. CASE ApplySetting(k)
  <2>1. Acts(k, {"a_ev_toggle", "a_ev_preset"}) => At("events", s.go.obj) \in Frames
    <3>1. Acts(k, {"a_ev_toggle", "a_ev_preset"}) => s.go.obj \in Integrations
      BY <1>g DEF Acts, OfIntegration
    <3>2. s.go.obj \in Integrations => At("events", s.go.obj) \in Frames
      BY <1>g, <1>f DEF Screens, OfInstallation
    <3> QED
      BY <3>1, <3>2
  <2>2. /\ At("chat_detail", "chat") \in Frames /\ At("settings", "") \in Frames
        /\ Result("topic_failed") \in Frames
    BY KnownTargets
  <2> QED
    BY <1>3, <2>1, <2>2, <1>o DEF ApplySetting
<1>4. CASE DeleteFilter(k)
  <2>1. s.go.obj \in {"gfilter", "hfilter"}
    BY <1>4, <1>g DEF DeleteFilter, Acts
  <2>2. OfFilter[s.go.obj] \in Integrations
    BY <2>1 DEF OfFilter, Integrations
  <2>3. At("filters", OfFilter[s.go.obj]) \in Frames
    BY <2>2, <1>f DEF Screens, OfInstallation, Integrations, Rows
  <2> QED
    BY <1>4, <2>3, <1>o DEF DeleteFilter
<1>5. CASE StartInput(k)
  BY <1>5, <1>e DEF StartInput
<1>6. CASE Refresh(k)
  <2>1. s.go.arg \in Refreshed /\ (s.go.arg = "forge_projects" => s.go.obj \in Installations)
    BY <1>6, <1>g DEF Refresh, Acts
  <2>2. To("adm_ref", s.go.obj, "confirm") \in Frames
    BY <1>g, Framed DEF Screens, OfInstallation, OfIntegration, Args
  <2>3. s.go.arg # "confirm" => At(s.go.arg, s.go.obj) \in Frames
    BY <1>g, <2>1, <1>f DEF Screens, OfInstallation, OfIntegration, Refreshed
  <2>4. PICK f \in Frames : Redraw(k, f)
    BY <1>6, <2>2, <2>3 DEF Refresh
  <2> QED
    BY <2>4, <1>d
<1>7. CASE DeleteRefLink(k)
  BY <1>7, <1>l DEF DeleteRefLink
<1>8. CASE DecideBroadcast(k)
  <2>1. At("adm_bc", "bc") \in Frames
    BY <1>f DEF Screens, OfInstallation, OfIntegration, Rows
  <2> QED
    BY <1>8, <2>1, <1>d DEF DecideBroadcast
<1>9. CASE NewConnection(k)
  <2>1. At("hook_setup", "hook") \in Frames
    BY <1>f DEF Screens, OfIntegration, Rows, Installations
  <2> QED
    BY <1>9, <2>1, <1>o DEF NewConnection
<1>10. CASE ForgetConnection(k)
  BY <1>10, <1>l DEF ForgetConnection
<1>11. CASE DeleteIntegration(k)
  BY <1>11, <1>o, KnownTargets DEF DeleteIntegration
<1>12. CASE UseAnswer(k)
  <2>1. s.action # "" => Answers(s.go, s.action)
    BY <1>s, <1>a DEF TaskShape
  <2>2. /\ s.action = "filter" => s.go.to = "a_filter_add"
        /\ s.action = "repo_search" => s.go.to = "a_repo_search"
    BY <2>1, AnswersAre
  <2>3. s.action = "filter" => At("filters", s.go.obj) \in Frames
    <3>1. s.action = "filter" => s.go.obj \in Integrations
      BY <2>2, <1>g DEF OfIntegration
    <3>2. s.go.obj \in Integrations => At("filters", s.go.obj) \in Frames
      BY <1>g, <1>f DEF Screens, OfInstallation
    <3> QED
      BY <3>1, <3>2
  <2>4. s.action = "repo_search" =>
          \A found \in {"q", "missed"} : To("repos", s.go.obj, found) \in Frames
    <3>1. s.action = "repo_search" => s.go.obj \in Installations
      BY <2>2, <1>g DEF OfInstallation
    <3>2. s.go.obj \in Installations =>
            \A found \in {"q", "missed"} : To("repos", s.go.obj, found) \in Frames
      BY <1>g, Framed DEF Screens, OfIntegration, Args
    <3> QED
      BY <3>1, <3>2
  <2>5. /\ At("adm_ref", "ref") \in Frames /\ At("adm_refs", "") \in Frames
        /\ At("adm_bc", "bc") \in Frames
    BY <1>f DEF Screens, OfInstallation, OfIntegration, Rows
  <2>6. CASE Goes(k, [Opens(k, At("adm_bc", "bc"), FALSE) EXCEPT !.post = "new"])
    <3> DEFINE r == Opens(k, At("adm_bc", "bc"), FALSE)
               t == [r EXCEPT !.post = "new"]
    <3>1. Sound(r) /\ SameUpdate(r, s) /\ r.at = "open"
      <4>1. r.at = "open"
        BY <1>s DEF Opens, TaskTypes
      <4> QED
        BY <2>5, <1>a, OpensSound, <4>1
    <3>h. Goes(k, t)
      BY <2>6
    <3> HIDE DEF r
    <3>2. r \in TaskTypes /\ TaskShape(r)
      BY <3>1 DEF Sound
    <3>3. /\ t \in TaskTypes /\ t.at = r.at /\ t.go = r.go /\ t.how = r.how /\ t.user = r.user
          /\ t.via = r.via /\ t.alone = r.alone /\ t.prompt = r.prompt /\ t.action = r.action
          /\ t.stack = r.stack /\ t.view = r.view /\ t.list = r.list
      BY <3>2 DEF TaskTypes
    <3> HIDE DEF t
    <3>4. TaskShape(t) /\ ~ Grants(t)
      BY <3>1, <3>2, <3>3 DEF TaskShape, Carries, Grants
    <3>5. Sound(t) /\ SameUpdate(t, r)
      BY <3>1, <3>3, <3>4, MovesOn
    <3> QED
      BY <3>1, <3>5, <3>h DEF Moves, SameUpdate
  <2>7. \/ s.action = "filter" /\ Reopen(k, At("filters", s.go.obj))
        \/ Reopen(k, At("adm_ref", "ref")) \/ Reopen(k, At("adm_refs", ""))
        \/ s.action = "repo_search" /\ \E found \in {"q", "missed"} :
             Reopen(k, To("repos", s.go.obj, found))
        \/ Goes(k, [Opens(k, At("adm_bc", "bc"), FALSE) EXCEPT !.post = "new"])
    BY <1>12 DEF UseAnswer
  <2> QED
    BY <2>3, <2>4, <2>5, <2>6, <2>7, <1>o
<1>13. CASE RowGone(k)
  BY <1>13, <1>e DEF RowGone
<1> QED
  BY <1>1, <1>2, <1>3, <1>4, <1>5, <1>6, <1>7, <1>8, <1>9, <1>10, <1>11, <1>12, <1>13 DEF Act

(***************************************************************************)
(* The engine, and every step of a handler.                                *)
(***************************************************************************)
\* Every step of a handler leaves its task ended or going on as a task may: what it renders it
\* is entitled to, and what it has loaded of the stack its user is admitted to.
LEMMA HandleMoves ==
  ASSUME MenuAssumption, RoleTypes, MenuTypes, Current, MenusAdmitted,
         NEW k \in Tasks, Sound(tasks[k]), Handle(k)
  PROVE  Moves(k)
<1> DEFINE s == tasks[k]
<1>s. s \in TaskTypes /\ TaskShape(s) /\ TaskRights(s)
  BY DEF Sound
<1>t. /\ s.user \in People \cup {NoOne} /\ s.go \in Targets /\ s.stack \in Seq(Frames)
      /\ s.list.ids \in SUBSET People /\ s.how \in {"push", "pop", "prune", "draw"}
  BY <1>s, TasksAre
<1>u. s.at # "idle" => s.user \in People
  BY <1>s DEF TaskShape
<1>c. /\ since \in [People -> 0..Never] /\ cache.ids \in SUBSET People /\ cache.age \in 0..ListTTL
      /\ ListTTL \in Nat \ {0} /\ admins \in SUBSET People
  BY DEF RoleTypes, MenuAssumption
<1>x. <<>> \in Seq(Frames)
  OBVIOUS
<1>e. End(k) => Moves(k)
  BY EndMoves
<1>1. CASE Resolve(k)
  <2> DEFINE t == [s EXCEPT !.at = "handler", !.list = NotAsked]
  <2>0. s.at = "tapped" /\ Goes(k, t)
    BY <1>1 DEF Resolve, Step
  <2>1. /\ t \in TaskTypes /\ t.at = "handler" /\ t.go = s.go /\ t.how = s.how /\ t.user = s.user
        /\ t.via = s.via /\ t.alone = s.alone /\ t.prompt = s.prompt /\ t.action = s.action
        /\ t.stack = s.stack /\ t.view = s.view /\ t.list = NotAsked
    BY <1>s DEF TaskTypes, NotAsked
  <2> HIDE DEF t
  <2>2. TaskShape(t) /\ ~ Grants(t)
    BY <2>0, <2>1, <1>s DEF TaskShape, Carries, Grants
  <2>3. Sound(t) /\ SameUpdate(t, s)
    BY <2>0, <2>1, <2>2, <1>s, MovesOn
  <2> QED
    BY <2>0, <2>3 DEF Moves
<1>2. CASE ResolveForgotten(k)
  <2>1. s.at # "idle" /\ Reopen(k, Home)
    BY <1>2 DEF ResolveForgotten, Reopen
  <2> QED
    BY <2>1, KnownTargets, ReopenMoves
<1>3. CASE Decide(k)
  <2>1. AsksTelegram(Question(k).to) => \A u \in cache.ids : since[u] < ListTTL
    <3> SUFFICES ASSUME AsksTelegram(Question(k).to), NEW u \in cache.ids
                 PROVE  since[u] < ListTTL
      OBVIOUS
    <3>1. cache.age < ListTTL
      BY <1>3 DEF Decide, FreshList
    <3>2. since[u] <= cache.age /\ since[u] \in 0..Never
      BY <1>c DEF Current
    <3> QED
      BY <3>1, <3>2, <1>c DEF Never
  <2>2. s.go.to = "a_int_del" => by[s.go.obj] # NoOne
    <3> SUFFICES ASSUME s.go.to = "a_int_del"
                 PROVE  by[s.go.obj] # NoOne
      OBVIOUS
    <3>1. s.at # "own"
      BY <1>s DEF TaskShape
    <3>2. Resolvable(s.go)
      BY <1>3, <3>1 DEF Decide, Question
    <3> QED
      BY <3>2, Scopes DEF Resolvable, Exists
  <2>3. s.at \in Checks /\ Judge(k, cache.ids)
    BY <1>3 DEF Decide
  <2> QED
    BY <2>1, <2>2, <2>3, <1>c, JudgeMoves
<1>4. CASE Unresolved(k)
  BY <1>4, <1>e DEF Unresolved
<1>5. CASE Fetch(k)
  <2> DEFINE t == [s EXCEPT !.list = [asked |-> TRUE, ids |-> admins]]
  <2>0. s.at \in Checks /\ Goes(k, t) /\ Resolvable(Question(k))
    BY <1>5 DEF Fetch
  <2>1. /\ t \in TaskTypes /\ t.at = s.at /\ t.go = s.go /\ t.how = s.how /\ t.user = s.user
        /\ t.via = s.via /\ t.alone = s.alone /\ t.prompt = s.prompt /\ t.action = s.action
        /\ t.stack = s.stack /\ t.view = s.view /\ t.list = [asked |-> TRUE, ids |-> admins]
    BY <1>s, <1>c DEF TaskTypes
  <2> HIDE DEF t
  <2>2. TaskShape(t) /\ ~ Grants(t)
    BY <2>0, <2>1, <1>s DEF TaskShape, Carries, Grants, Checks
  <2>3. \A u \in t.list.ids : since[u] = 0
    BY <2>1 DEF Current
  <2>4. t.go.to = "a_int_del" => by[t.go.obj] # NoOne
    <3> SUFFICES ASSUME s.go.to = "a_int_del"
                 PROVE  by[s.go.obj] # NoOne
      BY <2>1
    <3>1. s.at # "own"
      BY <1>s DEF TaskShape
    <3>2. Resolvable(s.go)
      BY <2>0, <3>1 DEF Question
    <3> QED
      BY <3>2, Scopes DEF Resolvable, Exists
  <2>5. Sound(t) /\ SameUpdate(t, s)
    BY <2>0, <2>1, <2>2, <2>3, <2>4, <1>s, MovesOn DEF Checks
  <2> QED
    BY <2>0, <2>5 DEF Moves
<1>6. CASE Store(k)
  <2>1. \A u \in s.list.ids : since[u] < ListTTL
    BY <1>s, <1>c DEF TaskRights
  <2>2. s.go.to = "a_int_del" => by[s.go.obj] # NoOne
    BY <1>6, <1>s DEF Store, TaskRights
  <2>3. s.at \in Checks /\ Judge(k, s.list.ids)
    BY <1>6 DEF Store
  <2> QED
    BY <2>1, <2>2, <2>3, <1>t, JudgeMoves
<1>7. CASE Act(k)
  BY <1>7, ActMoves
<1>8. CASE Load(k)
  <2> DEFINE t == [s EXCEPT !.at = "save", !.stack = nav[s.user]]
  <2>0. s.at = "load" /\ Goes(k, t)
    BY <1>8 DEF Load
  <2>n. nav[s.user] \in Seq(Frames)
    BY <2>0, <1>u DEF MenuTypes
  <2>1. /\ t \in TaskTypes /\ t.at = "save" /\ t.go = s.go /\ t.how = s.how /\ t.user = s.user
        /\ t.via = s.via /\ t.alone = s.alone /\ t.prompt = s.prompt /\ t.action = s.action
        /\ t.stack = nav[s.user] /\ t.view = s.view /\ t.list = s.list
    BY <2>n, <1>s DEF TaskTypes
  <2> HIDE DEF t
  <2>2. TaskShape(t) /\ (Grants(t) => Grants(s))
    BY <2>0, <2>1, <1>s DEF TaskShape, Carries, Grants
  <2>3. Grants(t) => Entitled(t)
    BY <2>0, <2>1, <2>2, <1>s DEF TaskRights, Entitled, Reaches
  <2>4. \A i \in 1..Len(t.stack) : Admitted(t.user, t.stack[i].to)
    BY <2>0, <2>1, <1>u DEF MenusAdmitted
  <2>5. Sound(t) /\ SameUpdate(t, s)
    BY <2>0, <2>1, <2>2, <2>3, <2>4, <1>s, MovesOn
  <2> QED
    BY <2>0, <2>5 DEF Moves
<1>9. CASE Save(k) /\ s.how = "push"
  <2> DEFINE t == [s EXCEPT !.at = "render", !.stack = <<>>]
  <2>0. s.at = "save" /\ Goes(k, t)
    BY <1>9 DEF Save
  <2>1. /\ t \in TaskTypes /\ t.at = "render" /\ t.go = s.go /\ t.how = s.how /\ t.user = s.user
        /\ t.via = s.via /\ t.alone = s.alone /\ t.prompt = s.prompt /\ t.action = s.action
        /\ t.stack = <<>> /\ t.view = s.view /\ t.list = s.list
    BY <1>s, <1>x DEF TaskTypes
  <2> HIDE DEF t
  <2>2. TaskShape(t) /\ Grants(s)
    BY <2>0, <2>1, <1>9, <1>s DEF TaskShape, Carries, Grants
  <2>3. Entitled(t)
    BY <2>0, <2>1, <2>2, <1>s DEF TaskRights, Entitled, Reaches
  <2>4. Sound(t) /\ SameUpdate(t, s)
    BY <2>0, <2>1, <2>2, <2>3, <1>s, MovesOn
  <2> QED
    BY <2>0, <2>4 DEF Moves
<1>10. CASE Save(k) /\ s.how # "push"
  <2> DEFINE t == [s EXCEPT !.at = "check", !.stack = <<>>, !.go = Top(Saved(s))]
  <2>0. s.at = "save" /\ Goes(k, t)
    BY <1>10 DEF Save
  <2>f. Top(Saved(s)) \in Frames
    <3>1. s.how \in {"pop", "prune"}
      BY <1>t, <1>s, <1>10, <2>0 DEF TaskShape
    <3>2. Saved(s) \in Seq(Frames)
      BY <3>1, <1>t, SavedFrames
    <3> QED
      BY <3>2, TopOfFrames
  <2>g. Top(Saved(s)) \in Targets /\ Top(Saved(s)).to \in Screens
    BY <2>f, FramesAre
  <2>1. /\ t \in TaskTypes /\ t.at = "check" /\ t.go = Top(Saved(s)) /\ t.how = s.how
        /\ t.user = s.user
        /\ t.via = s.via /\ t.alone = s.alone /\ t.prompt = s.prompt /\ t.action = s.action
        /\ t.stack = <<>> /\ t.view = s.view /\ t.list = s.list
    BY <2>g, <1>s, <1>x DEF TaskTypes
  <2> HIDE DEF t
  <2>2. TaskShape(t) /\ ~ Grants(t)
    BY <2>0, <2>1, <2>g, <1>s DEF TaskShape, Carries, Grants
  <2>3. t.go.to # "a_int_del"
    BY <2>1, <2>g DEF Screens
  <2>4. Sound(t) /\ SameUpdate(t, s)
    BY <2>0, <2>1, <2>2, <2>3, <1>s, MovesOn
  <2> QED
    BY <2>0, <2>4 DEF Moves
<1>11. CASE Render(k)
  <2> DEFINE back == IF Len(nav[s.user]) > 1 THEN {Back} ELSE {}
             view == [of |-> s.go.to, buttons |-> Drawn(s.user, s.go) \cup back]
             t == [s EXCEPT !.at = "show", !.view = view]
  <2>0. s.at = "render" /\ Goes(k, t)
    BY <1>11 DEF Render
  <2>f. s.go.to \in Screens /\ s.go \in Frames
    BY <2>0, <1>s, <1>t DEF TaskShape, Frames
  <2>v. view \in Views /\ view.of = s.go.to
    <3>1. Drawn(s.user, s.go) \subseteq Targets /\ back \subseteq Targets
      BY <2>f, DrawnTargets, KnownTargets
    <3>2. s.go.to \notin {"unsent", "gone"}
      BY <2>f DEF Screens
    <3> HIDE DEF back
    <3> QED
      BY <3>1, <3>2, <2>f DEF Views
  <2>h. Goes(k, t)
    BY <2>0
  <2> HIDE DEF view
  <2>1. /\ t \in TaskTypes /\ t.at = "show" /\ t.go = s.go /\ t.how = s.how /\ t.user = s.user
        /\ t.via = s.via /\ t.alone = s.alone /\ t.prompt = s.prompt /\ t.action = s.action
        /\ t.stack = s.stack /\ t.view = view /\ t.list = s.list
    BY <2>v, <1>s DEF TaskTypes
  <2> HIDE DEF t
  <2>2. TaskShape(t) /\ Grants(t) /\ Grants(s)
    BY <2>0, <2>1, <2>f, <2>v, <1>s DEF TaskShape, Carries, Grants
  <2>3. Entitled(s) /\ Entitled(t)
    BY <2>0, <2>1, <2>2, <1>s DEF TaskRights, Entitled, Reaches
  <2>4. Admitted(t.user, t.view.of)
    BY <2>1, <2>2, <2>3, <2>v, <1>c, EntitledIsAdmitted
  <2>5. Sound(t) /\ SameUpdate(t, s)
    BY <2>0, <2>1, <2>2, <2>3, <2>4, <1>s, MovesOn
  <2> QED
    BY <2>h, <2>5 DEF Moves
<1>12. CASE RenderFails(k) \/ Edit(k) \/ Send(k) \/ Fail(k)
  BY <1>12, <1>e DEF RenderFails, Edit, Send, Fail
<1>13. CASE ConnectFails(k)
  <2>1. s.at # "idle" /\ Reopen(k, Result("error"))
    BY <1>13 DEF ConnectFails, Acts
  <2> QED
    BY <2>1, KnownTargets, ReopenMoves
<1> QED
  BY <1>1, <1>2, <1>3, <1>4, <1>5, <1>6, <1>7, <1>8, <1>9, <1>10, <1>11, <1>12, <1>13 DEF Handle

(***************************************************************************)
(* What a step leaves alone, and the rows.                                 *)
(***************************************************************************)
\* What no action changes: the stack, the menus and the rights; only startInput sends prompts.
LEMMA ActLeaves ==
  ASSUME NEW k \in Tasks, Act(k)
  PROVE  /\ UNCHANGED <<nav, anchor, menus, roles, updates, changes>>
         /\ StartInput(k) \/ UNCHANGED <<pending, prompts>>
<1>1. CASE ConnectRepo(k) \/ ApplyMute(k) \/ ApplySetting(k)
  BY <1>1 DEF ConnectRepo, ApplyMute, ApplySetting, roles, bounds
<1>2. CASE DeleteFilter(k) \/ StartInput(k) \/ Refresh(k)
  BY <1>2 DEF DeleteFilter, StartInput, Refresh, roles, bounds
<1>3. CASE DeleteRefLink(k) \/ DecideBroadcast(k) \/ NewConnection(k)
  BY <1>3 DEF DeleteRefLink, DecideBroadcast, NewConnection, roles, bounds
<1>4. CASE ForgetConnection(k) \/ DeleteIntegration(k)
  BY <1>4 DEF ForgetConnection, DeleteIntegration, roles, bounds
<1>5. CASE UseAnswer(k) \/ RowGone(k)
  BY <1>5 DEF UseAnswer, RowGone, roles, bounds
<1> QED
  BY <1>1, <1>2, <1>3, <1>4, <1>5 DEF Act

\* What a handler's steps change of the rest, and which of them.
LEMMA HandleLeaves ==
  ASSUME NEW k \in Tasks, Handle(k)
  PROVE  /\ UNCHANGED <<admins, since, updates>>
         /\ Act(k) \/ UNCHANGED menuRows
         /\ Store(k) \/ UNCHANGED cache
         /\ Save(k) \/ UNCHANGED nav
         /\ Resolve(k) \/ ResolveForgotten(k) \/ Send(k) \/ UNCHANGED anchor
         /\ Edit(k) \/ Send(k) \/ UNCHANGED menus
         /\ (Act(k) /\ StartInput(k)) \/ UNCHANGED <<pending, prompts>>
         /\ UNCHANGED changes \/ (changes < MaxChanges /\ changes' = changes + 1)
<1>1. CASE Resolve(k) \/ ResolveForgotten(k)
  BY <1>1 DEF Resolve, ResolveForgotten, menuRows, roles, bounds
<1>2. CASE Decide(k) \/ Unresolved(k) \/ Fetch(k)
  BY <1>2 DEF Decide, Unresolved, Fetch, menuRows, roles, bounds
<1>3. CASE Store(k)
  BY <1>3 DEF Store, menuRows, roles, bounds
<1>4. CASE Act(k)
  BY <1>4, ActLeaves DEF roles
<1>5. CASE Load(k) \/ Save(k)
  BY <1>5 DEF Load, Save, menuRows, roles, bounds
<1>6. CASE Render(k) \/ RenderFails(k)
  BY <1>6 DEF Render, RenderFails, menuRows, roles, bounds
<1>7. CASE Edit(k) \/ Send(k) \/ Fail(k) \/ ConnectFails(k)
  BY <1>7 DEF Edit, Send, Fail, ConnectFails, menuRows, roles, bounds
<1> QED
  BY <1>1, <1>2, <1>3, <1>4, <1>5, <1>6, <1>7 DEF Handle

\* An update that begins changes no row, right or menu; it takes its user's prompt at most.
LEMMA UpdateLeaves ==
  ASSUME NEW k \in Tasks, NEW u \in People, Update(k, u)
  PROVE  /\ UNCHANGED <<menuRows, roles, nav, anchor, menus, prompts, changes>>
         /\ updates < MaxUpdates /\ updates' = updates + 1
         /\ \/ UNCHANGED pending
            \/ pending[u] # NoPrompt /\ pending' = [pending EXCEPT ![u] = NoPrompt]
BY DEF Update, Tap, Start, Answer, Begin, Taken, roles

\* A row that was made is not made again.
RowsStay == \A o \in Rows : by[o] # NoOne => by'[o] \in {by[o], Deleted}
\* Nor is a message unsent.
SentStay == \A u \in People : \A m \in Messages : menus[u][m] # Unsent => menus'[u][m] # Unsent

\* Rows that are dropped do not come back.
LEMMA Dropping ==
  ASSUME RowTypes, NEW gone, by' = Drop(gone)
  PROVE  by' \in [Rows -> People \cup {NoOne, Deleted}] /\ RowsStay
BY DEF RowTypes, Drop, RowsStay

\* A row that is made had not been anybody else's.
LEMMA Making ==
  ASSUME RowTypes, NEW o, NEW u \in People, by' = [by EXCEPT ![o] = u], by[o] \in {NoOne, u}
  PROVE  by' \in [Rows -> People \cup {NoOne, Deleted}] /\ RowsStay
BY DEF RowTypes, RowsStay

\* Rows that are left alone stay.
LEMMA RowsUntouched ==
  ASSUME RowTypes, UNCHANGED by
  PROVE  by' \in [Rows -> People \cup {NoOne, Deleted}] /\ RowsStay
BY DEF RowTypes, RowsStay

\* No action makes a row again that was dropped, nor gives it to somebody else.
LEMMA ActRows ==
  ASSUME RowTypes, NEW k \in Tasks, tasks[k].user \in People, Act(k)
  PROVE  RowTypes' /\ RowsStay
<1> DEFINE Good == by' \in [Rows -> People \cup {NoOne, Deleted}] /\ RowsStay
<1>d. \A gone : by' = Drop(gone) => Good
  BY Dropping
<1>m. \A o : by' = [by EXCEPT ![o] = tasks[k].user] /\ by[o] \in {NoOne, tasks[k].user} => Good
  BY Making
<1>u. UNCHANGED by => Good
  BY RowsUntouched
<1> HIDE DEF Good
<1>1. CASE ConnectRepo(k)
  <2> DEFINE i == IntegrationOf[tasks[k].go.obj]
  <2>1. /\ by[i] # Deleted /\ UNCHANGED <<muted, status>>
        /\ \/ UNCHANGED by
           \/ ~ Exists(i) /\ by' = [by EXCEPT ![i] = tasks[k].user]
    BY <1>1 DEF ConnectRepo
  <2>2. ~ Exists(i) => by[i] = NoOne
    BY <2>1 DEF Exists
  <2>3. Good
    BY <2>1, <2>2, <1>m, <1>u
  <2> QED
    BY <2>1, <2>3 DEF RowTypes, Good
<1>2. CASE ApplyMute(k)
  <2>1. Good
    BY <1>2, <1>u DEF ApplyMute
  <2> QED
    BY <1>2, <2>1 DEF RowTypes, Good, ApplyMute
<1>3. CASE ApplySetting(k) \/ StartInput(k) \/ Refresh(k) \/ RowGone(k)
  <2>1. UNCHANGED menuRows
    BY <1>3 DEF ApplySetting, StartInput, Refresh, RowGone, menuRows
  <2>2. Good
    BY <2>1, <1>u DEF menuRows
  <2> QED
    BY <2>1, <2>2 DEF RowTypes, Good, menuRows
<1>4. CASE DeleteFilter(k) \/ DeleteRefLink(k) \/ DeleteIntegration(k)
  <2>1. UNCHANGED <<muted, status>> /\ \E gone : by' = Drop(gone)
    BY <1>4 DEF DeleteFilter, DeleteRefLink, DeleteIntegration
  <2>2. Good
    BY <2>1, <1>d
  <2> QED
    BY <2>1, <2>2 DEF RowTypes, Good
<1>5. CASE ForgetConnection(k)
  <2>1. UNCHANGED <<muted, status>> /\ (UNCHANGED by \/ \E gone : by' = Drop(gone))
    BY <1>5 DEF ForgetConnection
  <2>2. Good
    BY <2>1, <1>d, <1>u
  <2> QED
    BY <2>1, <2>2 DEF RowTypes, Good
<1>6. CASE DecideBroadcast(k)
  <2>1. UNCHANGED <<by, muted>> /\ status' \in {status, "running", "cancelled"}
    BY <1>6 DEF DecideBroadcast
  <2>2. Good
    BY <2>1, <1>u
  <2> QED
    BY <2>1, <2>2 DEF RowTypes, Good
<1>7. CASE NewConnection(k)
  <2>1. Good
    BY <1>7, <1>m DEF NewConnection
  <2> QED
    BY <1>7, <2>1 DEF RowTypes, Good, NewConnection
<1>8. CASE UseAnswer(k)
  <2>1. /\ UNCHANGED muted /\ status' \in {status, "draft"}
        /\ UNCHANGED by \/ \E o : New(o) /\ by' = [by EXCEPT ![o] = tasks[k].user]
    BY <1>8 DEF UseAnswer
  <2>2. Good
    BY <2>1, <1>m, <1>u DEF New
  <2> QED
    BY <2>1, <2>2 DEF RowTypes, Good
<1> QED
  BY <1>1, <1>2, <1>3, <1>4, <1>5, <1>6, <1>7, <1>8 DEF Act

\* Nor does anybody else.
LEMMA ElsewhereRows ==
  ASSUME RowTypes, Elsewhere
  PROVE  RowTypes' /\ RowsStay
<1>1. /\ UNCHANGED muted /\ status' \in {status, "done"}
      /\ UNCHANGED by \/ \E gone : by' = Drop(gone)
  BY DEF Elsewhere
<1>2. by' \in [Rows -> People \cup {NoOne, Deleted}] /\ RowsStay
  BY <1>1, Dropping, RowsUntouched
<1> QED
  BY <1>1, <1>2 DEF RowTypes

\* What everybody else changes, and which of it; never a handler that is under way.
LEMMA OthersLeave ==
  ASSUME Others
  PROVE  /\ UNCHANGED <<nav, anchor, pending, prompts, updates>>
         /\ UNCHANGED tasks
         /\ Elsewhere \/ UNCHANGED menuRows
         /\ UNCHANGED menus \/ \E u \in People : Vanish(u)
         /\ \/ UNCHANGED roles \/ TimePasses
            \/ \E u \in People : Promote(u) \/ Demote(u)
         /\ UNCHANGED changes \/ (changes < MaxChanges /\ changes' = changes + 1)
<1>1. CASE Elsewhere
  BY <1>1 DEF Elsewhere, Change, roles
<1>2. CASE TimePasses
  BY <1>2 DEF TimePasses, menuRows, bounds
<1>3. CASE \E u \in People : Promote(u) \/ Demote(u)
  BY <1>3 DEF Promote, Demote, Change, menuRows
<1>4. CASE \E u \in People : Vanish(u)
  BY <1>4 DEF Vanish, Change, menuRows
<1> QED
  BY <1>1, <1>2, <1>3, <1>4 DEF Others

\* Rows keep their types, and once made stay their maker's or are dropped.
LEMMA RowsKept ==
  ASSUME RowTypes, Shapes, [MenuNext]_menuVars
  PROVE  RowTypes' /\ RowsStay
<1>1. UNCHANGED menuRows => RowTypes' /\ RowsStay
  <2> SUFFICES ASSUME UNCHANGED menuRows
               PROVE  RowTypes' /\ RowsStay
    OBVIOUS
  <2>1. RowsStay
    BY RowsUntouched DEF menuRows
  <2> QED
    BY <2>1 DEF menuRows, RowTypes
<1>2. ASSUME NEW k \in Tasks, Handle(k)
      PROVE  RowTypes' /\ RowsStay
  <2>1. CASE Act(k)
    <3>1. tasks[k].at = "act"
      BY <2>1 DEF Act, Acts, ConnectRepo, ApplyMute, ApplySetting, DeleteFilter, StartInput, Refresh,
             DeleteRefLink, DecideBroadcast, NewConnection, ForgetConnection, DeleteIntegration,
             UseAnswer, RowGone
    <3>2. tasks[k].user \in People
      BY <3>1 DEF Shapes, TaskShape
    <3> QED
      BY <2>1, <3>2, ActRows
  <2>2. CASE ~ Act(k)
    BY <2>2, <1>1, <1>2, HandleLeaves
  <2> QED
    BY <2>1, <2>2
<1>3. ASSUME NEW k \in Tasks, NEW u \in People, Update(k, u)
      PROVE  RowTypes' /\ RowsStay
  <2>1. UNCHANGED menuRows
    BY <1>3, UpdateLeaves DEF menuRows
  <2> QED
    BY <1>1, <2>1
<1>4. CASE Others
  BY <1>4, <1>1, OthersLeave, ElsewhereRows
<1>5. CASE UNCHANGED menuVars
  BY <1>5, <1>1 DEF menuVars, menuRows
<1> QED
  BY <1>2, <1>3, <1>4, <1>5 DEF MenuNext

(***************************************************************************)
(* The rights, and how they age.                                           *)
(***************************************************************************)
\* Who was an administrator stays one who was; while a handler runs nobody's
\* time as one grows longer ago.
SinceStay == \A u \in People : since[u] # Never => since'[u] # Never
SinceHeld == \A u \in People : since'[u] \in {since[u], 0}

\* The rights keep their types; a list is never younger than it says: whoever is on it was an
\* administrator when it was asked for (admin.go:86-91).  They age only while nobody is served.
LEMMA RolesKept ==
  ASSUME MenuAssumption, RoleTypes, Current, MenuTypes, Rights, [MenuNext]_menuVars
  PROVE  RoleTypes' /\ Current' /\ SinceStay /\ (TimePasses \/ SinceHeld)
<1>c. /\ admins \in SUBSET People /\ ChatOwner \in admins /\ since \in [People -> 0..Never]
      /\ cache \in [asked : BOOLEAN, ids : SUBSET People, age : 0..ListTTL]
      /\ \A u \in admins : since[u] = 0
      /\ \A u \in cache.ids : since[u] <= cache.age
      /\ ListTTL \in Nat \ {0} /\ Never = ListTTL + 1
  BY DEF RoleTypes, Current, MenuAssumption, Never
<1>1. UNCHANGED roles => RoleTypes' /\ Current' /\ SinceStay /\ SinceHeld
  BY <1>c DEF roles, RoleTypes, Current, SinceStay, SinceHeld
<1>2. ASSUME NEW k \in Tasks, Handle(k)
      PROVE  RoleTypes' /\ Current' /\ SinceStay /\ SinceHeld
  <2>1. UNCHANGED <<admins, since>> /\ (Store(k) \/ UNCHANGED cache)
    BY <1>2, HandleLeaves
  <2>2. CASE Store(k)
    <3>1. tasks[k].list.ids \in SUBSET People /\ \A u \in tasks[k].list.ids : since[u] = 0
      BY TasksAre DEF MenuTypes, Rights, TaskRights
    <3>2. cache' = [asked |-> TRUE, ids |-> tasks[k].list.ids, age |-> 0]
      BY <2>2 DEF Store
    <3> QED
      BY <1>c, <2>1, <3>1, <3>2 DEF RoleTypes, Current, SinceStay, SinceHeld
  <2>3. CASE UNCHANGED cache
    BY <2>1, <2>3, <1>1 DEF roles
  <2> QED
    BY <2>1, <2>2, <2>3
<1>3. ASSUME NEW k \in Tasks, NEW u \in People, Update(k, u)
      PROVE  RoleTypes' /\ Current' /\ SinceStay /\ SinceHeld
  BY <1>3, <1>1, UpdateLeaves
<1>4. ASSUME NEW u \in People, Promote(u)
      PROVE  RoleTypes' /\ Current' /\ SinceStay /\ SinceHeld
  <2>1. /\ admins' = admins \cup {u} /\ since' = [since EXCEPT ![u] = 0] /\ UNCHANGED cache
    BY <1>4 DEF Promote
  <2> QED
    BY <1>c, <2>1 DEF RoleTypes, Current, SinceStay, SinceHeld
<1>5. ASSUME NEW u \in People, Demote(u)
      PROVE  RoleTypes' /\ Current' /\ SinceStay /\ SinceHeld
  <2>1. u # ChatOwner /\ admins' = admins \ {u} /\ UNCHANGED <<since, cache>>
    BY <1>5 DEF Demote
  <2> QED
    BY <1>c, <2>1 DEF RoleTypes, Current, SinceStay, SinceHeld
<1>6. CASE TimePasses
  <2> DEFINE a == IF cache.age < ListTTL THEN cache.age + 1 ELSE cache.age
  <2>1. /\ cache' = [cache EXCEPT !.age = a] /\ UNCHANGED admins
        /\ since' = [u \in People |-> IF u \in admins THEN 0
                                     ELSE IF since[u] < ListTTL THEN since[u] + 1 ELSE since[u]]
    BY <1>6 DEF TimePasses
  <2>2. /\ cache'.ids = cache.ids /\ cache'.age = a /\ a \in 0..ListTTL
        /\ cache' \in [asked : BOOLEAN, ids : SUBSET People, age : 0..ListTTL]
    BY <1>c, <2>1
  <2>3. \A u \in People : /\ since'[u] \in 0..Never
                          /\ since[u] # Never => since'[u] # Never
                          /\ since[u] <= cache.age => since'[u] <= a
    BY <1>c, <2>1
  <2>4. RoleTypes'
    BY <1>c, <2>1, <2>2, <2>3 DEF RoleTypes
  <2>5. Current'
    BY <1>c, <2>1, <2>2, <2>3 DEF Current
  <2> QED
    BY <1>6, <2>3, <2>4, <2>5 DEF SinceStay
<1>7. CASE Others
  BY <1>7, <1>1, <1>4, <1>5, <1>6, OthersLeave
<1>8. CASE UNCHANGED menuVars
  BY <1>8, <1>1 DEF menuVars, roles
<1> QED
  BY <1>2, <1>3, <1>7, <1>8 DEF MenuNext

\* Who is admitted stays so.
LEMMA AdmittedStays ==
  ASSUME RoleTypes, SinceStay, NEW u \in People, NEW s, Admitted(u, s)
  PROVE  Admitted(u, s)'
BY DEF Admitted, SinceStay, Never

\* What a task may do it may still do after a step of anybody else in the same tick.
LEMMA RightsStay ==
  ASSUME MenuAssumption, RowTypes, RoleTypes, RowsStay, SentStay, SinceStay, SinceHeld,
         NEW t \in TaskTypes, TaskShape(t), TaskRights(t)
  PROVE  TaskRights(t)'
<1>t. /\ t.user \in People \cup {NoOne} /\ t.via \in Messages \cup {NoMessage} /\ t.go \in Targets
      /\ t.list.ids \in SUBSET People
  BY TasksAre
<1>c. ListTTL \in Nat \ {0} /\ since \in [People -> 0..Never]
  BY DEF MenuAssumption, RoleTypes
<1>i. t.at = "idle" => t = IdleTask
  BY DEF TaskShape
<1>u. t.at # "idle" => t.user \in People
  BY DEF TaskShape
<1>1. Grants(t) => Entitled(t)'
  <2> SUFFICES ASSUME Grants(t)
               PROVE  Entitled(t)'
    OBVIOUS
  <2>1. Reaches(t) = IF t.go.to = "connect" THEN "chat" ELSE Scope(t.go.to)
    BY ReachesScope
  <2>2. Entitled(t) /\ t.user \in People
    BY <1>u DEF TaskRights, Grants, Carries
  <2>3. since[t.user] < ListTTL => since'[t.user] < ListTTL
    BY <1>c, <2>2 DEF SinceHeld
  <2>4. CASE Reaches(t) = "owner"
    <3>1. t.go.to = "a_int_del"
      BY <2>1, <2>4, Scopes
    <3>2. t.at = "act"
      <4>1. t.at \in {"render", "show"} \/ Carries(t) => t.go.to \in Screens
        BY DEF TaskShape
      <4>2. "a_int_del" \notin Screens
        BY DEF Screens
      <4> QED
        BY <3>1, <4>1, <4>2 DEF Grants
    <3>3. by[t.go.obj] # NoOne
      BY <3>1, <3>2 DEF TaskRights
    <3>4. t.go.obj \in Rows
      BY <1>t, <3>1, TargetsAre DEF OfIntegration, Integrations, Rows
    <3>5. by'[t.go.obj] \in {by[t.go.obj], Deleted}
      BY <3>3, <3>4 DEF RowsStay
    <3>6. since[t.user] < ListTTL /\ (Exists(t.go.obj) => MayRemove(t.user, t.go.obj))
      BY <2>2, <2>4 DEF Entitled
    <3>7. Exists(t.go.obj)' => MayRemove(t.user, t.go.obj)'
      BY <3>5, <3>6 DEF Exists, MayRemove
    <3> QED
      BY <2>3, <2>4, <3>6, <3>7 DEF Entitled
  <2>5. CASE Reaches(t) # "owner"
    BY <2>2, <2>3, <2>5 DEF Entitled
  <2> QED
    BY <2>4, <2>5
<1>2. (t.at = "act" \/ t.list.asked) /\ t.go.to = "a_int_del" => by'[t.go.obj] # NoOne
  <2> SUFFICES ASSUME t.at = "act" \/ t.list.asked, t.go.to = "a_int_del"
               PROVE  by'[t.go.obj] # NoOne
    OBVIOUS
  <2>1. by[t.go.obj] # NoOne
    BY DEF TaskRights
  <2>2. t.go.obj \in Rows
    BY <1>t, TargetsAre DEF OfIntegration, Integrations, Rows
  <2> QED
    BY <2>1, <2>2 DEF RowsStay, MenuAssumption
<1>3. \A u \in t.list.ids : since'[u] = 0
  BY <1>t DEF TaskRights, SinceHeld
<1>4. CASE t.at = "idle"
  <2>1. Len(t.stack) = 0 /\ t.view.of = "unsent"
    BY <1>i, <1>4, IdleIs
  <2>2. Admitted(t.user, t.view.of)'
    BY <2>1, Scopes DEF Admitted, Of
  <2> QED
    BY <1>1, <1>2, <1>3, <1>4, <2>1, <2>2 DEF TaskRights
<1>5. CASE t.at # "idle"
  <2>1. \A i \in 1..Len(t.stack) : Admitted(t.user, t.stack[i].to)'
    BY <1>u, <1>5, AdmittedStays DEF TaskRights
  <2>2. Admitted(t.user, t.view.of)'
    BY <1>u, <1>5, AdmittedStays DEF TaskRights
  <2>3. t.via # NoMessage => menus'[t.user][t.via] # Unsent
    BY <1>t, <1>u, <1>5 DEF TaskRights, SentStay
  <2> QED
    BY <1>1, <1>2, <1>3, <2>1, <2>2, <2>3 DEF TaskRights
<1> QED
  BY <1>4, <1>5

(***************************************************************************)
(* The stacks, the menus and the prompts.                                  *)
(***************************************************************************)
\* The stacks keep their frames, and only what their user is admitted to is pushed.
LEMMA NavKept ==
  ASSUME MenuAssumption, RoleTypes, MenuTypes, Shapes, Rights, MenusAdmitted, [MenuNext]_menuVars
  PROVE  /\ nav' \in [People -> Seq(Frames)]
         /\ \A u \in People : \A i \in 1..Len(nav'[u]) : Admitted(u, nav'[u][i].to)
<1> DEFINE Goal == /\ nav' \in [People -> Seq(Frames)]
                   /\ \A u \in People : \A i \in 1..Len(nav'[u]) : Admitted(u, nav'[u][i].to)
<1>n. /\ nav \in [People -> Seq(Frames)]
      /\ \A u \in People : \A i \in 1..Len(nav[u]) : Admitted(u, nav[u][i].to)
  BY DEF MenuTypes, MenusAdmitted
<1>1. UNCHANGED nav => Goal
  BY <1>n
<1>2. ASSUME NEW k \in Tasks, Save(k)
      PROVE  Goal
  <2> DEFINE s == tasks[k]
  <2>s. s \in TaskTypes /\ TaskShape(s) /\ TaskRights(s)
    BY DEF MenuTypes, Shapes, Rights
  <2>a. s.at = "save" /\ (UNCHANGED nav \/ nav' = [nav EXCEPT ![s.user] = Saved(s)])
    BY <1>2 DEF Save
  <2>u. s.user \in People /\ s.how \in {"push", "pop", "prune"} /\ s.stack \in Seq(Frames)
        /\ s.go \in Targets
    BY <2>s, <2>a, TasksAre DEF TaskShape
  <2>p. s.how = "push" => s.go \in Frames /\ Admitted(s.user, s.go.to)
    <3> SUFFICES ASSUME s.how = "push"
                 PROVE  s.go \in Frames /\ Admitted(s.user, s.go.to)
      OBVIOUS
    <3>1. Carries(s) /\ Grants(s)
      BY <2>a DEF Carries, Grants
    <3>2. s.go.to \in Screens /\ Entitled(s)
      BY <3>1, <2>s DEF TaskShape, TaskRights
    <3>3. Admitted(s.user, s.go.to)
      BY <3>1, <3>2, <2>s, EntitledIsAdmitted DEF RoleTypes
    <3> QED
      BY <3>2, <3>3, <2>u DEF Frames
  <2>h. Admitted(s.user, Home.to)
    BY KnownTargets, Scopes, AlwaysAdmitted
  <2>1. /\ Saved(s) \in Seq(Frames)
        /\ \A i \in 1..Len(Saved(s)) :
             \/ Saved(s)[i] = Home
             \/ s.how = "push" /\ Saved(s)[i] = s.go
             \/ \E j \in 1..Len(s.stack) : Saved(s)[i] = s.stack[j]
    BY <2>u, <2>p, SavedFrames
  <2>2. \A j \in 1..Len(s.stack) : Admitted(s.user, s.stack[j].to)
    BY <2>s DEF TaskRights
  <2>3. \A i \in 1..Len(Saved(s)) : Admitted(s.user, Saved(s)[i].to)
    BY <2>1, <2>2, <2>p, <2>h
  <2>4. CASE nav' = [nav EXCEPT ![s.user] = Saved(s)]
    <3> DEFINE new == Saved(s)  who == s.user
    <3>1. new \in Seq(Frames) /\ who \in People /\ nav' = [nav EXCEPT ![who] = new]
          /\ \A i \in 1..Len(new) : Admitted(who, new[i].to)
      BY <2>1, <2>3, <2>4, <2>u
    <3> HIDE DEF new, who
    <3> QED
      BY <3>1, <1>n
  <2> QED
    BY <2>a, <2>4, <1>1
<1> HIDE DEF Goal
<1>3. ASSUME NEW k \in Tasks, Handle(k)
      PROVE  Goal
  BY <1>1, <1>2, <1>3, HandleLeaves
<1>4. ASSUME NEW k \in Tasks, NEW u \in People, Update(k, u)
      PROVE  Goal
  BY <1>1, <1>4, UpdateLeaves
<1>5. ASSUME Others
      PROVE  Goal
  BY <1>1, <1>5, OthersLeave
<1>6. ASSUME UNCHANGED menuVars
      PROVE  Goal
  BY <1>1, <1>6 DEF menuVars
<1>7. Goal
  BY <1>3, <1>4, <1>5, <1>6 DEF MenuNext
<1> QED
  BY <1>7 DEF Goal

\* A message that shows a screen, or showed one, was sent.
LEMMA SentIs ==
  ASSUME NEW v \in Views, v.of \in Screens \cup {"gone"}
  PROVE  v # Unsent
<1>1. "unsent" \notin Screens \cup {"gone"}
  BY DEF Screens
<1> QED
  BY <1>1 DEF Unsent

\* The menu messages change one at a time, to something that was sent.
LEMMA ShownKept ==
  ASSUME MenuTypes, MenusAdmitted, AnchorSent,
         \/ UNCHANGED menus
         \/ \E u \in People : \E m \in Messages : \E v \in Views :
              /\ menus' = [menus EXCEPT ![u][m] = v]
              /\ v # Unsent /\ Admitted(u, v.of)
  PROVE  /\ menus' \in [People -> [Messages -> Views]]
         /\ SentStay
         /\ \A u \in People : \A m \in Messages : Admitted(u, menus'[u][m].of)
<1>m. /\ menus \in [People -> [Messages -> Views]]
      /\ \A u \in People : \A m \in Messages : Admitted(u, menus[u][m].of)
  BY DEF MenuTypes, MenusAdmitted
<1>1. CASE UNCHANGED menus
  BY <1>1, <1>m DEF SentStay
<1>2. ASSUME NEW u \in People, NEW m \in Messages, NEW v \in Views, v # Unsent, Admitted(u, v.of),
             menus' = [menus EXCEPT ![u][m] = v]
      PROVE  /\ menus' \in [People -> [Messages -> Views]]
             /\ SentStay
             /\ \A x \in People : \A n \in Messages : Admitted(x, menus'[x][n].of)
  <2>1. \A x \in People : \A n \in Messages :
          menus'[x][n] = IF x = u /\ n = m THEN v ELSE menus[x][n]
    BY <1>2, <1>m
  <2>2. menus' \in [People -> [Messages -> Views]]
    BY <1>2, <1>m
  <2> QED
    BY <1>2, <1>m, <2>1, <2>2 DEF SentStay
<1> QED
  BY <1>1, <1>2

\* A menu shows what its user is admitted to, and the anchor is a message that was sent.
LEMMA ViewsKept ==
  ASSUME MenuAssumption, MenuTypes, Shapes, Rights, MenusAdmitted, AnchorSent, [MenuNext]_menuVars
  PROVE  /\ menus' \in [People -> [Messages -> Views]]
         /\ anchor' \in [People -> Messages \cup {NoMessage}]
         /\ SentStay /\ AnchorSent'
         /\ \A u \in People : \A m \in Messages : Admitted(u, menus'[u][m].of)
<1> DEFINE Goal == /\ menus' \in [People -> [Messages -> Views]]
                   /\ anchor' \in [People -> Messages \cup {NoMessage}]
                   /\ SentStay /\ AnchorSent'
                   /\ \A u \in People : \A m \in Messages : Admitted(u, menus'[u][m].of)
<1>m. /\ menus \in [People -> [Messages -> Views]]
      /\ anchor \in [People -> Messages \cup {NoMessage}]
      /\ \A u \in People : anchor[u] # NoMessage => menus[u][anchor[u]] # Unsent
  BY DEF MenuTypes, AnchorSent
<1>g. ASSUME \/ UNCHANGED menus
             \/ \E u \in People : \E m \in Messages : \E v \in Views :
                  /\ menus' = [menus EXCEPT ![u][m] = v]
                  /\ v # Unsent /\ Admitted(u, v.of),
             \/ UNCHANGED anchor
             \/ \E u \in People : \E n \in Messages \cup {NoMessage} :
                  /\ anchor' = [anchor EXCEPT ![u] = n]
                  /\ n # NoMessage => menus'[u][n] # Unsent
      PROVE  Goal
  <2>1. /\ menus' \in [People -> [Messages -> Views]]
        /\ SentStay
        /\ \A u \in People : \A m \in Messages : Admitted(u, menus'[u][m].of)
    BY <1>g, ShownKept
  <2>2. \A u \in People : anchor[u] # NoMessage => menus'[u][anchor[u]] # Unsent
    BY <2>1, <1>m DEF SentStay
  <2>3. CASE UNCHANGED anchor
    BY <2>1, <2>2, <2>3, <1>m DEF AnchorSent
  <2>4. ASSUME NEW u \in People, NEW n \in Messages \cup {NoMessage},
               anchor' = [anchor EXCEPT ![u] = n], n # NoMessage => menus'[u][n] # Unsent
        PROVE  Goal
    <3>1. anchor' \in [People -> Messages \cup {NoMessage}]
      BY <2>4, <1>m
    <3>2. AnchorSent'
      BY <2>4, <2>2, <1>m DEF AnchorSent
    <3> QED
      BY <2>1, <3>1, <3>2
  <2> QED
    BY <1>g, <2>3, <2>4
<1>1. UNCHANGED <<menus, anchor>> => Goal
  BY <1>g
<1> HIDE DEF Goal
<1>2. ASSUME NEW k \in Tasks, Handle(k)
      PROVE  Goal
  <2> DEFINE s == tasks[k]
  <2>s. s \in TaskTypes /\ TaskShape(s) /\ TaskRights(s)
    BY DEF MenuTypes, Shapes, Rights
  <2>u. /\ s.at # "idle" => s.user \in People
        /\ s.via \in Messages \cup {NoMessage} /\ s.view \in Views
    BY <2>s, TasksAre DEF TaskShape
  <2>v. s.at = "show" => s.view # Unsent /\ Admitted(s.user, s.view.of)
    BY <2>s, <2>u, SentIs DEF TaskShape, TaskRights
  <2>1. CASE Resolve(k) \/ ResolveForgotten(k)
    <3>1. s.at = "tapped" /\ UNCHANGED menus /\ anchor' = [anchor EXCEPT ![s.user] = s.via]
      BY <2>1 DEF Resolve, ResolveForgotten, Adopt
    <3>2. s.via # NoMessage => menus'[s.user][s.via] # Unsent
      BY <3>1, <2>s DEF TaskRights
    <3>3. s.user \in People
      BY <3>1, <2>u
    <3> HIDE DEF s
    <3> QED
      BY <3>1, <3>2, <3>3, <2>u, <1>g
  <2>2. CASE Edit(k)
    <3>1. /\ s.at = "show" /\ UNCHANGED anchor /\ anchor[s.user] # NoMessage
          /\ menus' = [menus EXCEPT ![s.user][anchor[s.user]] = s.view]
      BY <2>2 DEF Edit, Editable
    <3>2. s.user \in People /\ anchor[s.user] \in Messages
      BY <3>1, <2>u, <1>m
    <3> HIDE DEF s
    <3> QED
      BY <3>1, <3>2, <2>u, <2>v, <1>g
  <2>3. CASE Send(k)
    <3>1. PICK n \in Messages : /\ s.at = "show"
                                /\ menus' = [menus EXCEPT ![s.user][n] = s.view]
                                /\ anchor' = [anchor EXCEPT ![s.user] = n]
      BY <2>3 DEF Send
    <3>2. s.user \in People /\ menus'[s.user][n] # Unsent
      BY <3>1, <2>u, <2>v, <1>m
    <3> HIDE DEF s
    <3> QED
      BY <3>1, <3>2, <2>u, <2>v, <1>g
  <2>4. CASE UNCHANGED <<menus, anchor>>
    BY <2>4, <1>1
  <2>5. CASE UNCHANGED menus /\ ~ UNCHANGED anchor
    BY <2>1, <2>2, <2>3, <2>5, <1>2, HandleLeaves
  <2> QED
    BY <2>1, <2>2, <2>3, <2>4, <2>5, <1>2, HandleLeaves
<1>3. ASSUME NEW k \in Tasks, NEW u \in People, Update(k, u)
      PROVE  Goal
  BY <1>1, <1>3, UpdateLeaves
<1>4. ASSUME NEW u \in People, Vanish(u)
      PROVE  Goal
  <2>1. PICK m \in Messages : menus' = [menus EXCEPT ![u][m] = Gone]
    BY <1>4 DEF Vanish
  <2>2. Gone \in Views /\ Gone # Unsent /\ Admitted(u, Gone.of) /\ UNCHANGED anchor
    <3>1. Gone \in Views /\ Gone # Unsent /\ Gone.of = "gone"
      BY DEF Gone, Unsent, Views
    <3>2. UNCHANGED anchor
      BY <1>4 DEF Vanish
    <3> QED
      BY <3>1, <3>2, Scopes, AlwaysAdmitted
  <2> QED
    BY <2>1, <2>2, <1>g
<1>5. ASSUME Others
      PROVE  Goal
  BY <1>1, <1>4, <1>5, OthersLeave
<1>6. ASSUME UNCHANGED menuVars
      PROVE  Goal
  BY <1>1, <1>6 DEF menuVars
<1>7. Goal
  BY <1>2, <1>3, <1>5, <1>6 DEF MenuNext
<1> QED
  BY <1>7 DEF Goal

\* A prompt asks for what its user is admitted to.
LEMMA AskedKept ==
  ASSUME MenuAssumption, RoleTypes, BoundTypes, MenuTypes, Shapes, Rights, MenusAdmitted,
         [MenuNext]_menuVars
  PROVE  /\ pending' \in [People -> Asked \cup {NoPrompt}]
         /\ \A u \in People : Admitted(u, pending'[u].go.to)
<1> DEFINE Goal == /\ pending' \in [People -> Asked \cup {NoPrompt}]
                   /\ \A u \in People : Admitted(u, pending'[u].go.to)
<1>p. /\ pending \in [People -> Asked \cup {NoPrompt}]
      /\ \A u \in People : Admitted(u, pending[u].go.to)
  BY DEF MenuTypes, MenusAdmitted
<1>g. ASSUME NEW u \in People, NEW p \in Asked \cup {NoPrompt}, Admitted(u, p.go.to),
             pending' = [pending EXCEPT ![u] = p]
      PROVE  Goal
  BY <1>g, <1>p
<1>1. UNCHANGED pending => Goal
  BY <1>p
<1> HIDE DEF Goal
<1>2. ASSUME NEW k \in Tasks, StartInput(k)
      PROVE  Goal
  <2> DEFINE s == tasks[k]
             p == [action |-> InputOf[s.go.to], go |-> s.go, prompt |-> prompts + 1]
  <2>s. s \in TaskTypes /\ TaskShape(s) /\ TaskRights(s)
    BY DEF MenuTypes, Shapes, Rights
  <2>1. s.at = "act" /\ s.go.to \in DOMAIN InputOf /\ pending' = [pending EXCEPT ![s.user] = p]
    BY <1>2 DEF StartInput, Acts
  <2>2. s.user \in People /\ s.go \in Targets
    BY <2>s, <2>1, TasksAre DEF TaskShape
  <2>3. InputOf[s.go.to] \in Inputs
    BY <2>1 DEF InputOf, Inputs
  <2>4. p \in Asked /\ p.go = s.go
    BY <2>2, <2>3 DEF Asked, BoundTypes
  <2>5. Admitted(s.user, s.go.to)
    <3>1. Grants(s) /\ Entitled(s)
      BY <2>1, <2>s DEF Grants, TaskRights
    <3> QED
      BY <3>1, <2>s, EntitledIsAdmitted DEF RoleTypes
  <2> HIDE DEF p
  <2> QED
    BY <2>1, <2>2, <2>4, <2>5, <1>g
<1>3. ASSUME NEW k \in Tasks, Handle(k)
      PROVE  Goal
  BY <1>1, <1>2, <1>3, HandleLeaves
<1>4. ASSUME NEW k \in Tasks, NEW u \in People, Update(k, u)
      PROVE  Goal
  <2>1. NoPrompt.go = Home
    BY DEF NoPrompt
  <2>2. Admitted(u, NoPrompt.go.to)
    BY <2>1, KnownTargets, Scopes, AlwaysAdmitted
  <2> QED
    BY <2>2, <1>1, <1>4, <1>g, UpdateLeaves
<1>5. ASSUME Others
      PROVE  Goal
  BY <1>1, <1>5, OthersLeave
<1>6. ASSUME UNCHANGED menuVars
      PROVE  Goal
  BY <1>1, <1>6 DEF menuVars
<1>7. Goal
  BY <1>3, <1>4, <1>5, <1>6 DEF MenuNext
<1> QED
  BY <1>7 DEF Goal

\* Stacks, menus and prompts lead nobody to what they are not admitted to.
LEMMA MenusAdmittedKept ==
  ASSUME MenuAssumption, RoleTypes, BoundTypes, MenuTypes, Shapes, Rights, MenusAdmitted,
         AnchorSent, SinceStay, [MenuNext]_menuVars
  PROVE  MenusAdmitted'
<1>1. \A u \in People : \A s : Admitted(u, s) => /\ Of(s) => since'[u] # Never
                                                 /\ Scope(s) = "bot" => u \in BotAdmins
  BY DEF Admitted, SinceStay
<1>2. \A u \in People : /\ \A i \in 1..Len(nav'[u]) : Admitted(u, nav'[u][i].to)
                        /\ \A m \in Messages : Admitted(u, menus'[u][m].of)
                        /\ Admitted(u, pending'[u].go.to)
  BY NavKept, ViewsKept, AskedKept
<1> QED
  BY <1>1, <1>2 DEF MenusAdmitted, Admitted

(***************************************************************************)
(* An update begins.                                                       *)
(***************************************************************************)
\* A task of u that has done nothing yet.
Untouched(u, t) ==
  /\ t.at \in {"tapped", "open", "answer"}
  /\ t.how = "push" /\ t.stack = <<>> /\ t.view = Unsent /\ t.list = NotAsked
  /\ t.at = "open" => t.go.to \in Screens
  /\ t.prompt = 0 <=> t.action = ""
  /\ t.at = "answer" => t.prompt # 0 /\ Answers(t.go, t.action)
  /\ t.at = "tapped" => t.prompt = 0
  /\ t.via # NoMessage => t.at = "tapped" /\ menus[u][t.via] # Unsent

\* A task that has done nothing yet is as a task may be.
LEMMA UntouchedIsSound ==
  ASSUME NEW t \in TaskTypes, t.user \in People, Untouched(t.user, t)
  PROVE  TaskShape(t) /\ TaskRights(t)
<1>1. TaskShape(t)
  BY DEF Untouched, TaskShape, Carries
<1>2. ~ Grants(t) /\ ~ (t.at = "act")
  BY DEF Untouched, Grants, Carries
<1>3. Len(<<>>) = 0 /\ NotAsked.ids = {} /\ ~ NotAsked.asked /\ Unsent.of = "unsent"
  BY DEF NotAsked, Unsent
<1>4. Len(t.stack) = 0 /\ t.list.ids = {} /\ ~ t.list.asked /\ t.view.of = "unsent"
  BY <1>3 DEF Untouched
<1>5. Admitted(t.user, t.view.of)
  BY <1>4, Scopes, AlwaysAdmitted
<1>6. \A i \in 1..Len(t.stack) : Admitted(t.user, t.stack[i].to)
  BY <1>4
<1>7. t.via # NoMessage => menus[t.user][t.via] # Unsent
  BY DEF Untouched
<1>8. TaskRights(t)
  BY <1>2, <1>4, <1>5, <1>6, <1>7 DEF TaskRights
<1> QED
  BY <1>1, <1>8

\* The task as Begin starts it.
Started(task, u, x) == [task EXCEPT !.user = u, !.alone = x]

\* It stays so when it is told whose it is.
LEMMA Begun ==
  ASSUME NEW u \in People, NEW x \in BOOLEAN, NEW task \in TaskTypes, Untouched(u, task)
  PROVE  LET t == Started(task, u, x)
         IN  /\ Sound(t) /\ t \in TaskTypes /\ t.user = u /\ t.alone = x /\ t.at = task.at
             /\ t.via = task.via /\ t.prompt = task.prompt
<1> DEFINE t == Started(task, u, x)
<1>1. /\ t \in TaskTypes /\ t.user = u /\ t.alone = x /\ t.at = task.at /\ t.via = task.via
      /\ t.prompt = task.prompt /\ t.go = task.go /\ t.how = task.how /\ t.stack = task.stack
      /\ t.view = task.view /\ t.list = task.list /\ t.action = task.action
  BY DEF TaskTypes, Started
<1> HIDE DEF t
<1>2. Untouched(t.user, t)
  BY <1>1 DEF Untouched
<1>3. TaskShape(t) /\ TaskRights(t)
  BY <1>1, <1>2, UntouchedIsSound
<1> QED
  BY <1>1, <1>3 DEF Sound, t

\* A prompt is answered, if there is one to answer.
TakesPrompt(u, prompt) ==
  \/ prompt = 0 /\ UNCHANGED pending
  \/ /\ pending[u] # NoPrompt /\ prompt = pending[u].prompt
     /\ pending' = [pending EXCEPT ![u] = NoPrompt]

\* What an update that begins is, and what it is to the ones under way.
Begins(k, u, T) ==
  /\ T \in [Tasks -> TaskTypes] /\ tasks' = T
  /\ \A j \in Tasks : Sound(T[j])
  /\ tasks[k].at = "idle" /\ T[k].user = u /\ T[k].at # "idle"
  /\ T[k].via # NoMessage => T[k].at = "tapped"
  /\ T[k].alone => \A j \in Active : tasks[j].user # u
  /\ \A j \in Tasks \ {k} :
       /\ T[j].at = tasks[j].at /\ T[j].user = tasks[j].user /\ T[j].via = tasks[j].via
       /\ T[j].prompt = tasks[j].prompt
       /\ T[j].alone /\ j \in Active => tasks[j].alone /\ tasks[j].user # u
  /\ TakesPrompt(u, T[k].prompt)

\* Begin starts such a task in an idle place, and tells those of the same user that they are
\* not alone.
LEMMA BeginBegins ==
  ASSUME MenuAssumption, MenuTypes, Shapes, Rights, NEW k \in Tasks, NEW u \in People,
         NEW task \in TaskTypes, Begin(k, u, task), Untouched(u, task),
         TakesPrompt(u, task.prompt)
  PROVE  \E T : Begins(k, u, T)
<1> DEFINE others == {j \in Active : tasks[j].user = u}
           new == [task EXCEPT !.user = u, !.alone = others = {}]
           T == [j \in Tasks |->
                   IF j = k THEN new
                   ELSE IF j \in others THEN [tasks[j] EXCEPT !.alone = FALSE] ELSE tasks[j]]
<1>1. tasks[k].at = "idle" /\ tasks' = T
  BY DEF Begin
<1>2. /\ Sound(new) /\ new \in TaskTypes /\ new.user = u /\ new.alone = (others = {})
      /\ new.at = task.at /\ new.via = task.via /\ new.prompt = task.prompt
  <2>0. PICK x \in BOOLEAN : x = (others = {})
    OBVIOUS
  <2>1. new = Started(task, u, x)
    BY <2>0 DEF Started
  <2> HIDE DEF new, others
  <2>2. /\ Sound(new) /\ new \in TaskTypes /\ new.user = u /\ new.alone = x
        /\ new.at = task.at /\ new.via = task.via /\ new.prompt = task.prompt
    BY <2>1, Begun
  <2> QED
    BY <2>0, <2>2
<1>3. ASSUME NEW j \in Tasks \ {k}
      PROVE  /\ T[j] \in TaskTypes /\ Sound(T[j])
             /\ T[j].at = tasks[j].at /\ T[j].user = tasks[j].user /\ T[j].via = tasks[j].via
             /\ T[j].prompt = tasks[j].prompt
             /\ T[j].alone /\ j \in Active => tasks[j].alone /\ tasks[j].user # u
  <2> DEFINE s == tasks[j]  t == [s EXCEPT !.alone = FALSE]
  <2>s. s \in TaskTypes /\ TaskShape(s) /\ TaskRights(s)
    BY DEF MenuTypes, Shapes, Rights
  <2>1. CASE j \notin others
    BY <2>1, <2>s DEF Sound
  <2>2. CASE j \in others
    <3>1. T[j] = t /\ s.at # "idle"
      BY <2>2 DEF Active
    <3> HIDE DEF T
    <3>2. /\ t \in TaskTypes /\ t.at = s.at /\ t.go = s.go /\ t.how = s.how /\ t.user = s.user
          /\ t.via = s.via /\ t.alone = FALSE /\ t.prompt = s.prompt /\ t.action = s.action
          /\ t.stack = s.stack /\ t.view = s.view /\ t.list = s.list
      BY <2>s DEF TaskTypes
    <3> HIDE DEF t
    <3>3. TaskShape(t) /\ (Grants(t) <=> Grants(s))
      BY <2>s, <3>1, <3>2 DEF TaskShape, Carries, Grants
    <3>4. Entitled(t) <=> Entitled(s)
      BY <3>2 DEF Entitled, Reaches
    <3>5. TaskRights(t)
      BY <2>s, <3>1, <3>2, <3>3, <3>4 DEF TaskRights
    <3> QED
      BY <3>1, <3>2, <3>3, <3>5 DEF Sound
  <2> QED
    BY <2>1, <2>2
<1>4. T[k] = new
  OBVIOUS
<1>5. new.alone => \A j \in Active : tasks[j].user # u
  BY <1>2
<1>6. T \in [Tasks -> TaskTypes] /\ \A j \in Tasks : Sound(T[j])
  <2>1. \A j \in Tasks : T[j] \in TaskTypes /\ Sound(T[j])
    <3> HIDE DEF T, new
    <3> QED
      BY <1>2, <1>3, <1>4
  <2>2. T = [j \in Tasks |-> T[j]]
    OBVIOUS
  <2> HIDE DEF T
  <2> QED
    BY <2>1, <2>2
<1> HIDE DEF T, new, others
<1>7. Begins(k, u, T)
  BY <1>1, <1>2, <1>3, <1>4, <1>5, <1>6 DEF Begins, Untouched
<1> QED
  BY <1>7

\* A tap, a command and an answer begin that way; the answer is for the action that asked.
LEMMA UpdateBegins ==
  ASSUME MenuAssumption, MenuTypes, Shapes, Rights, PromptsOnce, NEW k \in Tasks, NEW u \in People,
         Update(k, u)
  PROVE  \E T : Begins(k, u, T)
<1>i. /\ IdleTask \in TaskTypes /\ IdleTask.how = "push" /\ IdleTask.stack = <<>>
      /\ IdleTask.view = Unsent /\ IdleTask.list = NotAsked /\ IdleTask.prompt = 0
      /\ IdleTask.action = "" /\ IdleTask.via = NoMessage
  <2>1. IdleTask \in TaskTypes
    BY IdleIsSound DEF MenuAssumption
  <2> QED
    BY <2>1 DEF IdleTask
<1>1. CASE Tap(k, u)
  <2>0. PICK m \in Messages : \E b \in menus[u][m].buttons :
          Begin(k, u, [IdleTask EXCEPT !.at = "tapped", !.via = m, !.go = b])
    BY <1>1 DEF Tap
  <2>1. PICK b \in menus[u][m].buttons :
          Begin(k, u, [IdleTask EXCEPT !.at = "tapped", !.via = m, !.go = b])
    BY <2>0
  <2> DEFINE task == [IdleTask EXCEPT !.at = "tapped", !.via = m, !.go = b]
  <2>2. b \in Targets /\ menus[u][m] # Unsent
    <3>1. menus[u][m] \in Views
      BY DEF MenuTypes
    <3>2. b \in Targets
      BY <3>1 DEF Views
    <3>3. Unsent.buttons = {}
      BY DEF Unsent
    <3> QED
      BY <3>2, <3>3
  <2>3. /\ task \in TaskTypes /\ task.at = "tapped" /\ task.via = m /\ task.go = b
        /\ task.how = "push" /\ task.stack = <<>> /\ task.view = Unsent /\ task.list = NotAsked
        /\ task.prompt = 0 /\ task.action = ""
    BY <1>i, <2>2 DEF TaskTypes
  <2>4. Begin(k, u, task) /\ UNCHANGED pending
    BY <1>1, <2>1 DEF Tap
  <2> HIDE DEF task
  <2>5. Untouched(u, task)
    BY <2>2, <2>3 DEF Untouched
  <2>6. TakesPrompt(u, task.prompt)
    BY <2>3, <2>4 DEF TakesPrompt
  <2> QED
    BY <2>3, <2>4, <2>5, <2>6, BeginBegins
<1>2. CASE Start(k, u)
  <2>1. PICK f \in {Home, At("accounts", ""), At("chat_detail", "chat"), At("adm_home", "")} :
          Begin(k, u, [IdleTask EXCEPT !.at = "open", !.go = f, !.deny = f.to # "adm_home",
                                       !.post = "new"])
    BY <1>2 DEF Start
  <2> DEFINE deny == f.to # "adm_home"
             task == [IdleTask EXCEPT !.at = "open", !.go = f, !.deny = deny, !.post = "new"]
  <2>2. f \in Targets /\ f.to \in Screens
    BY <2>1, KnownTargets, FramesAre
  <2>d. deny \in BOOLEAN /\ Begin(k, u, task) /\ UNCHANGED pending
    BY <1>2, <2>1 DEF Start
  <2> HIDE DEF deny
  <2>3. /\ task \in TaskTypes /\ task.at = "open" /\ task.via = NoMessage /\ task.go = f
        /\ task.how = "push" /\ task.stack = <<>> /\ task.view = Unsent /\ task.list = NotAsked
        /\ task.prompt = 0 /\ task.action = ""
    BY <1>i, <2>2, <2>d DEF TaskTypes
  <2> HIDE DEF task
  <2>4. Untouched(u, task)
    BY <2>2, <2>3 DEF Untouched
  <2>5. TakesPrompt(u, task.prompt)
    BY <2>3, <2>d DEF TakesPrompt
  <2> QED
    BY <2>3, <2>d, <2>4, <2>5, BeginBegins
<1>3. CASE Answer(k, u)
  <2> DEFINE p == pending[u]
             go == [p.go EXCEPT !.to = PendingScope(p.action)]
             task == [IdleTask EXCEPT !.at = "answer", !.deny = TRUE, !.action = p.action,
                                      !.prompt = p.prompt, !.go = go]
  <2>1. p # NoPrompt /\ Begin(k, u, task) /\ pending' = [pending EXCEPT ![u] = NoPrompt]
    BY <1>3 DEF Answer, Taken
  <2>2. p \in Asked /\ Answers(p.go, p.action)
    BY <2>1 DEF MenuTypes, PromptsOnce
  <2>a. /\ p.action \in Inputs /\ p.go \in Targets /\ p.prompt \in Nat \ {0}
    BY <2>2 DEF Asked
  <2>3. PendingScope(p.action) = p.go.to
    BY <2>2, AnswersAre DEF PendingScope
  <2>4. go = p.go
    <3>1. p.go = To(p.go.to, p.go.obj, p.go.arg)
      BY <2>a, TargetsAre
    <3> QED
      BY <2>3, <3>1 DEF To
  <2> HIDE DEF go, p
  <2>5. /\ task \in TaskTypes /\ task.at = "answer" /\ task.via = NoMessage /\ task.go = p.go
        /\ task.how = "push" /\ task.stack = <<>> /\ task.view = Unsent /\ task.list = NotAsked
        /\ task.prompt = p.prompt /\ task.action = p.action
    BY <1>i, <2>a, <2>4 DEF TaskTypes
  <2>6. p.action # ""
    BY <2>a DEF Inputs
  <2> HIDE DEF task
  <2>7. Untouched(u, task)
    BY <2>2, <2>a, <2>5, <2>6 DEF Untouched
  <2>8. TakesPrompt(u, task.prompt)
    BY <2>1, <2>5 DEF TakesPrompt, p
  <2> QED
    BY <2>1, <2>5, <2>7, <2>8, BeginBegins
<1> QED
  BY <1>1, <1>2, <1>3 DEF Update

(***************************************************************************)
(* All the tasks.                                                          *)
(***************************************************************************)
\* Whatever step is taken, every task is as a task may be, by the rights before the step.
LEMMA TasksGo ==
  ASSUME MenuAssumption, RoleTypes, MenuTypes, Current, Shapes, Rights, MenusAdmitted, PromptsOnce,
         [MenuNext]_menuVars
  PROVE  \E T \in [Tasks -> TaskTypes] : tasks' = T /\ \A j \in Tasks : Sound(T[j])
<1> DEFINE Goal == \E T \in [Tasks -> TaskTypes] : tasks' = T /\ \A j \in Tasks : Sound(T[j])
<1>s. tasks \in [Tasks -> TaskTypes] /\ \A j \in Tasks : Sound(tasks[j])
  BY DEF MenuTypes, Shapes, Rights, Sound
<1>1. UNCHANGED tasks => Goal
  BY <1>s
<1>2. ASSUME NEW k \in Tasks, Handle(k)
      PROVE  Goal
  <2>1. Moves(k)
    BY <1>2, <1>s, HandleMoves
  <2>2. PICK t : Goes(k, t) /\ Sound(t)
    BY <2>1 DEF Moves
  <2> DEFINE T == [tasks EXCEPT ![k] = t]
  <2>3. tasks' = T /\ t \in TaskTypes
    BY <2>2 DEF Goes, Sound
  <2>4. \A j \in Tasks : T[j] = IF j = k THEN t ELSE tasks[j]
    BY <1>s
  <2>5. T \in [Tasks -> TaskTypes]
    BY <1>s, <2>3
  <2> HIDE DEF T
  <2>6. \A j \in Tasks : Sound(T[j])
    BY <1>s, <2>2, <2>4
  <2> QED
    BY <2>3, <2>5, <2>6
<1>3. ASSUME NEW k \in Tasks, NEW u \in People, Update(k, u)
      PROVE  Goal
  <2>1. PICK T : Begins(k, u, T)
    BY <1>3, UpdateBegins
  <2> QED
    BY <2>1 DEF Begins
<1>4. Others => Goal
  BY <1>1, OthersLeave
<1> HIDE DEF Goal
<1>5. ASSUME MenuNext PROVE Goal
  BY <1>2, <1>3, <1>4, <1>5 DEF MenuNext
<1>6. ASSUME UNCHANGED menuVars PROVE Goal
  BY <1>1, <1>6 DEF menuVars
<1>7. Goal
  BY <1>5, <1>6
<1> QED
  BY <1>7 DEF Goal

\* An idle task has no rights to lose.
LEMMA IdleStays ==
  ASSUME NoMessage \notin Messages
  PROVE  TaskRights(IdleTask)'
<1>1. Admitted(IdleTask.user, IdleTask.view.of)'
  BY IdleIs, Scopes DEF Admitted, Of
<1>2. ~ Grants(IdleTask) /\ IdleTask.at # "act"
  BY IdleIs DEF Grants, Carries
<1> QED
  BY <1>1, <1>2, IdleIs DEF TaskRights

\* Every task stays as a task may be, by the rights after the step: a tick, which makes lists
\* older, finds none under way.
LEMMA TasksKept ==
  ASSUME MenuAssumption, RowTypes, RoleTypes, MenuTypes, Current, Shapes, Rights, MenusAdmitted,
         PromptsOnce, RowsStay, SentStay, SinceStay, TimePasses \/ SinceHeld, [MenuNext]_menuVars
  PROVE  tasks' \in [Tasks -> TaskTypes] /\ Shapes' /\ Rights'
<1>1. PICK T \in [Tasks -> TaskTypes] : tasks' = T /\ \A j \in Tasks : Sound(T[j])
  BY TasksGo
<1>2. \A j \in Tasks : T[j] \in TaskTypes /\ TaskShape(T[j]) /\ TaskRights(T[j])
  BY <1>1 DEF Sound
<1>3. \A j \in Tasks : TaskRights(T[j])'
  <2>1. CASE SinceHeld
    BY <1>2, <2>1, RightsStay
  <2>2. CASE TimePasses
    <3>1. Active = {} /\ UNCHANGED tasks
      BY <2>2 DEF TimePasses
    <3>2. \A j \in Tasks : T[j] = IdleTask
      BY <1>1, <1>2, <3>1 DEF Active, TaskShape
    <3> QED
      BY <3>2, IdleStays DEF MenuAssumption
  <2> QED
    BY <2>1, <2>2
<1>4. Shapes'
  BY <1>1, <1>2 DEF Shapes
<1>5. Rights'
  BY <1>1, <1>3 DEF Rights
<1> QED
  BY <1>1, <1>4, <1>5

\* The bounds are kept.
LEMMA BoundsKept ==
  ASSUME MenuAssumption, BoundTypes, [MenuNext]_menuVars
  PROVE  BoundTypes'
<1>1. \/ UNCHANGED prompts
      \/ prompts < Prompts /\ prompts' = prompts + 1
  <2>1. ASSUME NEW k \in Tasks, Handle(k)
        PROVE  \/ UNCHANGED prompts
               \/ prompts < Prompts /\ prompts' = prompts + 1
    BY <2>1, HandleLeaves DEF StartInput
  <2> QED
    BY <2>1, UpdateLeaves, OthersLeave DEF MenuNext, menuVars
<1>2. \/ UNCHANGED updates
      \/ updates < MaxUpdates /\ updates' = updates + 1
  BY HandleLeaves, UpdateLeaves, OthersLeave DEF MenuNext, menuVars
<1>3. \/ UNCHANGED changes
      \/ changes < MaxChanges /\ changes' = changes + 1
  BY HandleLeaves, UpdateLeaves, OthersLeave DEF MenuNext, menuVars
<1>4. prompts' \in 0..Prompts
  BY <1>1 DEF BoundTypes, MenuAssumption
<1>5. updates' \in 0..MaxUpdates
  BY <1>2 DEF BoundTypes, MenuAssumption
<1>6. changes' \in 0..MaxChanges
  BY <1>3 DEF BoundTypes, MenuAssumption
<1> QED
  BY <1>4, <1>5, <1>6 DEF BoundTypes

(***************************************************************************)
(* Prompts and their answers.                                              *)
(***************************************************************************)
\* The prompts as they are numbered: those pending, and the one each task answers.
Numbered ==
  /\ \A u \in People : pending[u].prompt \in 0..prompts
  /\ \A u, v \in People : u # v /\ pending[u].prompt # 0 => pending[v].prompt # pending[u].prompt
  /\ \A k \in Tasks : tasks[k].prompt # 0 =>
       /\ tasks[k].prompt <= prompts
       /\ \A j \in Tasks \ {k} : tasks[j].prompt # tasks[k].prompt
       /\ \A u \in People : pending[u].prompt # tasks[k].prompt
\* Every pending prompt is one whose answer is handled.
Answered ==
  \A u \in People : pending[u] # NoPrompt => Answers(pending[u].go, pending[u].action)

\* A prompt has a number from 1 on; no prompt has 0.
LEMMA PromptsAre ==
  ASSUME NEW p \in Asked \cup {NoPrompt}
  PROVE  p.prompt \in Nat /\ (p # NoPrompt <=> p.prompt # 0)
<1>1. NoPrompt.prompt = 0
  BY DEF NoPrompt
<1>2. p \in Asked => p.prompt \in Nat \ {0}
  BY DEF Asked
<1> QED
  BY <1>1, <1>2

\* PromptsOnce by the numbers alone.
LEMMA NumberedIs ==
  ASSUME MenuTypes, prompts \in Nat
  PROVE  PromptsOnce <=> Numbered /\ Answered
<1>1. \A u \in People : /\ pending[u] \in Asked \cup {NoPrompt}
                        /\ pending[u] # NoPrompt <=> pending[u].prompt # 0
                        /\ pending[u].prompt \in Nat
  BY PromptsAre DEF MenuTypes
<1> QED
  BY <1>1 DEF PromptsOnce, Numbered, Answered

\* Every task keeps the prompt it answers, or answers none any more.
LEMMA NumbersStay ==
  ASSUME MenuTypes, Numbered, Answered, prompts \in Nat,
         \A j \in Tasks : tasks'[j].prompt \in {tasks[j].prompt, 0},
         UNCHANGED <<pending, prompts>>
  PROVE  Numbered' /\ Answered'
BY DEF Numbered, Answered

\* A new prompt has a number nobody has.
LEMMA NumberMade ==
  ASSUME MenuTypes, Numbered, Answered, prompts \in Nat,
         \A j \in Tasks : tasks'[j].prompt \in {tasks[j].prompt, 0},
         \A j \in Tasks : tasks[j].prompt \in Nat,
         NEW u \in People, NEW p, pending' = [pending EXCEPT ![u] = p],
         p.prompt = prompts + 1, Answers(p.go, p.action), prompts' = prompts + 1
  PROVE  Numbered' /\ Answered'
<1>1. \A v \in People : pending'[v] = IF v = u THEN p ELSE pending[v]
  BY DEF MenuTypes
<1>2. \A v \in People : pending[v].prompt \in 0..prompts
  BY DEF Numbered
<1>3. Answered'
  BY <1>1 DEF Answered
<1>4. \A v \in People : pending'[v].prompt \in 0..prompts'
  BY <1>1, <1>2
<1>5. \A v, w \in People : v # w /\ pending'[v].prompt # 0 => pending'[w].prompt # pending'[v].prompt
  BY <1>1, <1>2 DEF Numbered
<1>6. ASSUME NEW k \in Tasks, tasks'[k].prompt # 0
      PROVE  /\ tasks'[k].prompt <= prompts'
             /\ \A j \in Tasks \ {k} : tasks'[j].prompt # tasks'[k].prompt
             /\ \A v \in People : pending'[v].prompt # tasks'[k].prompt
  <2>1. tasks'[k].prompt = tasks[k].prompt /\ tasks[k].prompt <= prompts /\ tasks[k].prompt # 0
    BY <1>6 DEF Numbered
  <2>2. \A j \in Tasks \ {k} : tasks[j].prompt # tasks[k].prompt
    BY <2>1 DEF Numbered
  <2>3. \A v \in People : pending[v].prompt # tasks[k].prompt
    BY <2>1 DEF Numbered
  <2> QED
    BY <1>1, <1>6, <2>1, <2>2, <2>3
<1> QED
  BY <1>3, <1>4, <1>5, <1>6 DEF Numbered

\* A prompt that is answered passes to the task that answers it.
LEMMA NumberTaken ==
  ASSUME MenuTypes, Numbered, Answered, prompts \in Nat,
         NEW k \in Tasks, NEW u \in People, tasks[k].prompt = 0, pending[u].prompt # 0,
         tasks'[k].prompt = pending[u].prompt,
         \A j \in Tasks \ {k} : tasks'[j].prompt = tasks[j].prompt,
         pending' = [pending EXCEPT ![u] = NoPrompt], UNCHANGED prompts
  PROVE  Numbered' /\ Answered'
<1>0. NoPrompt.prompt = 0
  BY DEF NoPrompt
<1>1. \A v \in People : pending'[v] = IF v = u THEN NoPrompt ELSE pending[v]
  BY DEF MenuTypes
<1>2. \A v \in People : pending[v].prompt \in 0..prompts
  BY DEF Numbered
<1>3. Answered'
  BY <1>1 DEF Answered
<1>4. \A v \in People : pending'[v].prompt \in 0..prompts'
  BY <1>0, <1>1, <1>2
<1>5. \A v, w \in People : v # w /\ pending'[v].prompt # 0 => pending'[w].prompt # pending'[v].prompt
  BY <1>0, <1>1, <1>2 DEF Numbered
<1>6. ASSUME NEW j \in Tasks, tasks'[j].prompt # 0
      PROVE  /\ tasks'[j].prompt <= prompts'
             /\ \A i \in Tasks \ {j} : tasks'[i].prompt # tasks'[j].prompt
             /\ \A v \in People : pending'[v].prompt # tasks'[j].prompt
  <2>1. \A i \in Tasks : tasks[i].prompt # 0 => pending[u].prompt # tasks[i].prompt
    BY DEF Numbered
  <2>2. CASE j = k
    <3>1. \A i \in Tasks \ {k} : tasks[i].prompt # pending[u].prompt
      BY <2>1
    <3>2. \A v \in People \ {u} : pending[v].prompt # pending[u].prompt
      BY DEF Numbered
    <3> QED
      BY <1>0, <1>1, <1>2, <2>2, <3>1, <3>2
  <2>3. CASE j # k
    <3>1. tasks'[j].prompt = tasks[j].prompt
      BY <2>3
    <3>2. /\ tasks[j].prompt <= prompts
          /\ \A i \in Tasks \ {j} : tasks[i].prompt # tasks[j].prompt
          /\ \A v \in People : pending[v].prompt # tasks[j].prompt
      BY <1>6, <3>1 DEF Numbered
    <3> QED
      BY <1>0, <1>1, <1>6, <2>1, <2>3, <3>1, <3>2
  <2> QED
    BY <2>2, <2>3
<1> QED
  BY <1>3, <1>4, <1>5, <1>6 DEF Numbered

\* A prompt is pending or being answered, and by one task.
LEMMA PromptsKept ==
  ASSUME MenuAssumption, BoundTypes, RoleTypes, MenuTypes, Current, Shapes, Rights, MenusAdmitted,
         PromptsOnce, [MenuNext]_menuVars,
         BoundTypes', MenuTypes'
  PROVE  PromptsOnce'
<1> DEFINE Goal == Numbered' /\ Answered'
<1>n. prompts \in Nat /\ prompts' \in Nat
  BY DEF BoundTypes, MenuAssumption
<1>m. Numbered /\ Answered
  BY <1>n, NumberedIs
<1>s. /\ tasks \in [Tasks -> TaskTypes] /\ \A j \in Tasks : Sound(tasks[j]) /\ TaskShape(tasks[j])
      /\ \A j \in Tasks : tasks[j].prompt \in Nat
  BY TasksAre DEF MenuTypes, Shapes, Rights, Sound
<1>1. UNCHANGED <<tasks, pending, prompts>> => Goal
  BY <1>m, <1>n, NumbersStay
<1>2. ASSUME NEW k \in Tasks, Handle(k)
      PROVE  Goal
  <2>1. PICK t : Goes(k, t) /\ (t = IdleTask \/ SameUpdate(t, tasks[k]))
    BY <1>2, <1>s, HandleMoves DEF Moves
  <2>2. t.prompt \in {tasks[k].prompt, 0}
    BY <2>1, IdleIs DEF SameUpdate
  <2>3. \A j \in Tasks : tasks'[j].prompt \in {tasks[j].prompt, 0}
    BY <1>s, <2>1, <2>2 DEF Goes
  <2>4. CASE UNCHANGED <<pending, prompts>>
    BY <1>m, <1>n, <2>3, <2>4, NumbersStay
  <2>5. CASE StartInput(k)
    <3> DEFINE u == tasks[k].user
               p == [action |-> InputOf[tasks[k].go.to], go |-> tasks[k].go, prompt |-> prompts + 1]
    <3>1. u \in People
      BY <1>s, <2>5 DEF StartInput, Acts, TaskShape
    <3>2. /\ pending' = [pending EXCEPT ![u] = p] /\ prompts' = prompts + 1
          /\ p.prompt = prompts + 1 /\ Answers(p.go, p.action)
      BY <2>5 DEF StartInput, Acts, Answers
    <3> HIDE DEF p, u
    <3> QED
      BY <1>m, <1>n, <1>s, <2>3, <3>1, <3>2, NumberMade
  <2> QED
    BY <1>2, <2>4, <2>5, HandleLeaves
<1>3. ASSUME NEW k \in Tasks, NEW u \in People, Update(k, u)
      PROVE  Goal
  <2>1. PICK T : Begins(k, u, T)
    BY <1>3, UpdateBegins
  <2>2. /\ \A j \in Tasks \ {k} : tasks'[j].prompt = tasks[j].prompt
        /\ tasks[k].at = "idle" /\ TakesPrompt(u, tasks'[k].prompt)
    BY <2>1 DEF Begins
  <2>3. tasks[k].prompt = 0 /\ UNCHANGED prompts
    BY <1>3, <1>s, <2>2, IdleIs, UpdateLeaves DEF TaskShape
  <2>4. CASE tasks'[k].prompt = 0 /\ UNCHANGED pending
    BY <1>m, <1>n, <2>2, <2>3, <2>4, NumbersStay
  <2>5. CASE /\ pending[u] # NoPrompt /\ tasks'[k].prompt = pending[u].prompt
             /\ pending' = [pending EXCEPT ![u] = NoPrompt]
    <3>1. pending[u].prompt # 0
      BY <2>5 DEF MenuTypes, Asked
    <3> QED
      BY <1>m, <1>n, <2>2, <2>3, <2>5, <3>1, NumberTaken
  <2> QED
    BY <2>2, <2>4, <2>5 DEF TakesPrompt
<1>4. Others => Goal
  BY <1>1, OthersLeave
<1> HIDE DEF Goal
<1>5. ASSUME MenuNext PROVE Goal
  BY <1>2, <1>3, <1>4, <1>5 DEF MenuNext
<1>6. ASSUME UNCHANGED menuVars PROVE Goal
  BY <1>1, <1>6 DEF menuVars
<1>7. Numbered' /\ Answered'
  BY <1>5, <1>6 DEF Goal
<1>8. MenuTypes' /\ prompts' \in Nat => (PromptsOnce' <=> Numbered' /\ Answered')
  <2>1. MenuTypes' => \A u \in People : /\ pending'[u] \in Asked \cup {NoPrompt}
                                        /\ pending'[u] # NoPrompt <=> pending'[u].prompt # 0
                                        /\ pending'[u].prompt \in Nat
    BY PromptsAre DEF MenuTypes
  <2> QED
    BY <2>1 DEF PromptsOnce, Numbered, Answered
<1> QED
  BY <1>n, <1>7, <1>8

(***************************************************************************)
(* The anchor of a task that is alone.                                     *)
(***************************************************************************)
\* A handler changes the anchor of its own user only, and not unless it has begun.
LEMMA AnchorOfOne ==
  ASSUME NEW k \in Tasks, Handle(k)
  PROVE  /\ UNCHANGED anchor \/ \E m : anchor' = [anchor EXCEPT ![tasks[k].user] = m]
         /\ tasks[k].at = "tapped" => \/ anchor' = [anchor EXCEPT ![tasks[k].user] = tasks[k].via]
                                      \/ End(k)
         /\ tasks[k].at # "tapped" => UNCHANGED anchor \/ End(k)
         /\ tasks[k].at # "idle"
<1>1. CASE Resolve(k) \/ ResolveForgotten(k)
  BY <1>1 DEF Resolve, ResolveForgotten, Adopt
<1>2. CASE Decide(k) \/ Unresolved(k) \/ Fetch(k) \/ Store(k)
  BY <1>2 DEF Decide, Unresolved, Fetch, Store, Checks
<1>3. CASE Act(k)
  <2>1. tasks[k].at = "act"
    BY <1>3 DEF Act, ConnectRepo, ApplyMute, ApplySetting, DeleteFilter, StartInput, Refresh,
                DeleteRefLink, DecideBroadcast, NewConnection, ForgetConnection,
                DeleteIntegration, UseAnswer, RowGone, Acts
  <2> QED
    BY <1>3, <2>1, ActLeaves
<1>4. CASE Load(k) \/ Save(k) \/ Render(k) \/ RenderFails(k)
  BY <1>4 DEF Load, Save, Render, RenderFails
<1>5. CASE Edit(k)
  BY <1>5 DEF Edit
<1>6. CASE Send(k)
  BY <1>6 DEF Send
<1>7. CASE Fail(k) \/ ConnectFails(k)
  BY <1>7 DEF Fail, ConnectFails, Acts
<1> QED
  BY <1>1, <1>2, <1>3, <1>4, <1>5, <1>6, <1>7 DEF Handle

\* A task whose user has no other keeps the anchor it has adopted.
LEMMA SoloKept ==
  ASSUME MenuAssumption, RoleTypes, MenuTypes, Current, Shapes, Rights, MenusAdmitted,
         PromptsOnce, Solo, [MenuNext]_menuVars
  PROVE  Solo'
<1> DEFINE Goal == Solo'
<1>s. /\ tasks \in [Tasks -> TaskTypes] /\ \A j \in Tasks : Sound(tasks[j]) /\ TaskShape(tasks[j])
      /\ \A j \in Active : tasks[j].user \in People
      /\ anchor \in [People -> Messages \cup {NoMessage}]
  BY DEF MenuTypes, Shapes, Rights, Sound, Active, TaskShape
<1>1. UNCHANGED <<tasks, anchor>> => Goal
  BY DEF Solo, Active
<1>2. ASSUME NEW k \in Tasks, Handle(k)
      PROVE  Goal
  <2>1. PICK t : Goes(k, t) /\ (t = IdleTask \/ SameUpdate(t, tasks[k]))
    BY <1>2, <1>s, HandleMoves DEF Moves
  <2>2. \A j \in Tasks : tasks'[j] = IF j = k THEN t ELSE tasks[j]
    BY <1>s, <2>1 DEF Goes
  <2>3. k \in Active
    BY <1>2, AnchorOfOne DEF Active
  <2>4. Active' \subseteq Active
    BY <2>2, <2>3 DEF Active
  <2>5. k \in Active' => /\ t.user = tasks[k].user /\ t.via = tasks[k].via
                         /\ t.alone = tasks[k].alone /\ t.at # "tapped" /\ ~ End(k)
    <3>1. k \in Active' => t # IdleTask /\ t.at # "idle"
      BY <2>2, IdleIs DEF Active
    <3>2. End(k) => tasks'[k] = IdleTask
      BY <1>s DEF End, Goes
    <3> QED
      BY <2>1, <2>2, <3>1, <3>2 DEF SameUpdate
  <2>6. \A j \in Active' : tasks'[j].user = tasks[j].user /\ tasks'[j].via = tasks[j].via
                           /\ tasks'[j].alone = tasks[j].alone
    BY <2>2, <2>5 DEF Active
  <2>7. ASSUME NEW i \in Active', tasks'[i].alone
        PROVE  /\ \A j \in Active' \ {i} : tasks'[j].user # tasks'[i].user
               /\ tasks'[i].via # NoMessage /\ tasks'[i].at # "tapped" =>
                    anchor'[tasks'[i].user] = tasks'[i].via
    <3>1. i \in Active /\ tasks[i].alone
      BY <2>4, <2>6, <2>7
    <3>2. /\ \A j \in Active \ {i} : tasks[j].user # tasks[i].user
          /\ tasks[i].via # NoMessage /\ tasks[i].at # "tapped" =>
                    anchor[tasks[i].user] = tasks[i].via
      BY <3>1 DEF Solo
    <3>3. \A j \in Active' \ {i} : tasks'[j].user # tasks'[i].user
      BY <2>4, <2>6, <3>2
    <3>4. CASE i = k
      BY <1>2, <1>s, <2>5, <2>6, <3>1, <3>2, <3>3, <3>4, AnchorOfOne
    <3>5. CASE i # k
      <4>1. tasks'[i] = tasks[i]
        BY <2>2, <3>1, <3>5 DEF Active
      <4>2. tasks[k].user # tasks[i].user
        BY <2>3, <3>2, <3>5
      <4>3. anchor'[tasks[i].user] = anchor[tasks[i].user]
        BY <1>2, <1>s, <3>1, <4>2, AnchorOfOne
      <4> QED
        BY <3>2, <3>3, <4>1, <4>3
    <3> QED
      BY <3>4, <3>5
  <2> QED
    BY <2>7 DEF Solo
<1>3. ASSUME NEW k \in Tasks, NEW u \in People, Update(k, u)
      PROVE  Goal
  <2>1. PICK T : Begins(k, u, T)
    BY <1>3, UpdateBegins
  <2>2. UNCHANGED anchor
    BY <1>3, UpdateLeaves
  <2>3. /\ tasks' = T
        /\ tasks[k].at = "idle" /\ T[k].user = u /\ T[k].at # "idle"
        /\ T[k].via # NoMessage => T[k].at = "tapped"
        /\ T[k].alone => \A j \in Active : tasks[j].user # u
        /\ \A j \in Tasks \ {k} :
             /\ T[j].at = tasks[j].at /\ T[j].user = tasks[j].user /\ T[j].via = tasks[j].via
             /\ T[j].alone /\ j \in Active => tasks[j].alone /\ tasks[j].user # u
    BY <2>1 DEF Begins
  <2>4. Active' = Active \cup {k} /\ k \notin Active
    BY <2>3 DEF Active
  <2>5. ASSUME NEW i \in Active', tasks'[i].alone
        PROVE  /\ \A j \in Active' \ {i} : tasks'[j].user # tasks'[i].user
               /\ tasks'[i].via # NoMessage /\ tasks'[i].at # "tapped" =>
                    anchor'[tasks'[i].user] = tasks'[i].via
    <3>0. \A j \in Active : j \in Tasks \ {k}
      BY <2>4 DEF Active
    <3>1. CASE i = k
      BY <2>3, <2>4, <2>5, <3>0, <3>1
    <3>2. CASE i # k
      <4>1. i \in Active /\ tasks[i].alone /\ tasks[i].user # u
        BY <2>3, <2>4, <2>5, <3>0, <3>2
      <4>2. /\ \A j \in Active \ {i} : tasks[j].user # tasks[i].user
            /\ tasks[i].via # NoMessage /\ tasks[i].at # "tapped" =>
                    anchor[tasks[i].user] = tasks[i].via
        BY <4>1 DEF Solo
      <4> QED
        BY <2>2, <2>3, <2>4, <3>0, <3>2, <4>1, <4>2
    <3> QED
      BY <3>1, <3>2
  <2> QED
    BY <2>5 DEF Solo
<1>4. Others => Goal
  BY <1>1, OthersLeave
<1> HIDE DEF Goal
<1>5. ASSUME MenuNext PROVE Goal
  BY <1>2, <1>3, <1>4, <1>5 DEF MenuNext
<1>6. ASSUME UNCHANGED menuVars PROVE Goal
  BY <1>1, <1>6 DEF menuVars
<1>7. Goal
  BY <1>5, <1>6
<1> QED
  BY <1>7 DEF Goal

(***************************************************************************)
(* The invariant, and the theorems.                                        *)
(***************************************************************************)
\* All of it.
Inv ==
  /\ RowTypes /\ RoleTypes /\ BoundTypes /\ MenuTypes
  /\ Current /\ Shapes /\ Rights /\ MenusAdmitted /\ AnchorSent /\ PromptsOnce /\ Solo

\* A bot nobody has talked to yet is as it may be.
LEMMA InvStarts ==
  ASSUME MenuAssumption, MenuInit
  PROVE  Inv
<1>1. /\ by = [o \in Rows |-> IF o = "chat" THEN ChatOwner ELSE NoOne]
      /\ muted = FALSE /\ status = "draft"
      /\ nav = [u \in People |-> <<>>]
      /\ pending = [u \in People |-> NoPrompt]
      /\ menus = [u \in People |-> [m \in Messages |-> Unsent]]
      /\ anchor = [u \in People |-> NoMessage]
      /\ admins = {ChatOwner}
      /\ since = [u \in People |-> IF u \in {ChatOwner} THEN 0 ELSE Never]
      /\ cache = [asked |-> FALSE, ids |-> {}, age |-> ListTTL]
      /\ tasks = [k \in Tasks |-> IdleTask]
      /\ prompts = 0 /\ updates = 0 /\ changes = 0
  BY DEF MenuInit, InitWith
<1>2. ChatOwner \in People /\ ListTTL \in Nat /\ Never = ListTTL + 1 /\ NoMessage \notin Messages
      /\ Prompts \in Nat /\ MaxUpdates \in Nat /\ MaxChanges \in Nat
  BY DEF MenuAssumption, Never
<1>3. RowTypes
  BY <1>1, <1>2 DEF RowTypes
<1>4. RoleTypes
  <2>1. since \in [People -> 0..Never]
    BY <1>1, <1>2
  <2>2. cache \in [asked : BOOLEAN, ids : SUBSET People, age : 0..ListTTL]
    BY <1>1, <1>2
  <2> QED
    BY <1>1, <1>2, <2>1, <2>2 DEF RoleTypes
<1>5. BoundTypes
  BY <1>1, <1>2 DEF BoundTypes
<1>6. IdleTask \in TaskTypes /\ TaskShape(IdleTask) /\ TaskRights(IdleTask)
  BY <1>2, IdleIsSound
<1>7. MenuTypes
  <2>1. <<>> \in Seq(Frames) /\ Unsent \in Views
    BY DEF Unsent, Views
  <2> QED
    BY <1>1, <1>6, <2>1 DEF MenuTypes
<1>8. Current
  BY <1>1, <1>2 DEF Current
<1>9. Shapes /\ Rights
  BY <1>1, <1>6 DEF Shapes, Rights
<1>10. MenusAdmitted
  <2>1. /\ Unsent.of = "unsent" /\ NoPrompt.go = Home /\ Home.to = "home"
        /\ Scope("unsent") = "" /\ Scope("home") = ""
    BY Scopes, KnownTargets DEF Unsent, NoPrompt
  <2>2. \A u \in People : /\ nav[u] = <<>> /\ pending[u] = NoPrompt
                          /\ \A m \in Messages : menus[u][m] = Unsent
    BY <1>1
  <2>3. \A u \in People : Admitted(u, "unsent") /\ Admitted(u, "home")
    BY <2>1, AlwaysAdmitted
  <2>4. ASSUME NEW u \in People
        PROVE  /\ Len(nav[u]) = 0 /\ pending[u].go.to = "home"
               /\ \A m \in Messages : menus[u][m].of = "unsent"
    <3>1. nav[u] = <<>> /\ pending[u] = NoPrompt /\ \A m \in Messages : menus[u][m] = Unsent
      BY <2>2
    <3>2. Len(nav[u]) = 0
      BY <3>1
    <3>3. pending[u].go.to = "home"
      BY <2>1, <3>1
    <3>4. \A m \in Messages : menus[u][m].of = "unsent"
      BY <2>1, <3>1
    <3> QED
      BY <3>2, <3>3, <3>4
  <2> QED
    BY <2>3, <2>4 DEF MenusAdmitted
<1>11. AnchorSent
  BY <1>1 DEF AnchorSent
<1>12. PromptsOnce
  BY <1>1, IdleIs DEF PromptsOnce
<1>13. Solo
  BY <1>1, IdleIs DEF Solo, Active
<1> QED
  BY <1>3, <1>4, <1>5, <1>7, <1>8, <1>9, <1>10, <1>11, <1>12, <1>13 DEF Inv

\* Every step keeps it so.
LEMMA InvStays ==
  ASSUME MenuAssumption, Inv, [MenuNext]_menuVars
  PROVE  Inv'
<1>1. /\ RowTypes /\ RoleTypes /\ BoundTypes /\ MenuTypes
      /\ Current /\ Shapes /\ Rights /\ MenusAdmitted /\ AnchorSent /\ PromptsOnce /\ Solo
  BY DEF Inv
<1>2. RowTypes' /\ RowsStay
  BY <1>1, RowsKept
<1>3. RoleTypes' /\ Current' /\ SinceStay /\ (TimePasses \/ SinceHeld)
  BY <1>1, RolesKept
<1>4. BoundTypes'
  BY <1>1, BoundsKept
<1>5. /\ menus' \in [People -> [Messages -> Views]]
      /\ anchor' \in [People -> Messages \cup {NoMessage}]
      /\ SentStay /\ AnchorSent'
  BY <1>1, ViewsKept
<1>6. tasks' \in [Tasks -> TaskTypes] /\ Shapes' /\ Rights'
  BY <1>1, <1>2, <1>3, <1>5, TasksKept
<1>7. MenuTypes'
  <2>1. nav' \in [People -> Seq(Frames)]
    BY <1>1, NavKept
  <2>2. pending' \in [People -> Asked \cup {NoPrompt}]
    BY <1>1, AskedKept
  <2> QED
    BY <1>5, <1>6, <2>1, <2>2 DEF MenuTypes
<1>8. MenusAdmitted'
  BY <1>1, <1>3, MenusAdmittedKept
<1>9. PromptsOnce'
  BY <1>1, <1>4, <1>7, PromptsKept
<1>10. Solo'
  BY <1>1, SoloKept
<1> QED
  BY <1>2, <1>3, <1>4, <1>5, <1>6, <1>7, <1>8, <1>9, <1>10 DEF Inv

\* The inductive invariant of the interface: every target, stack, menu and prompt is one the
\* program makes; whatever a task is about to do or show it is entitled to by a list of the last
\* ListTTL, and nobody was ever led to what they were never admitted to.  For any users, updates at
\* once, messages and lifetime of a list.
THEOREM MenuInvariance ==
  ASSUME MenuAssumption
  PROVE  MenuSpec => []Inv
<1>1. MenuInit => Inv
  BY InvStarts
<1>2. Inv /\ [MenuNext]_menuVars => Inv'
  BY InvStays
<1> QED
  BY <1>1, <1>2, PTL DEF MenuSpec

\* The types: stacks hold screens only, buttons lead to a registered screen or a handled action,
\* an anchor was sent, and a pending prompt is one the answer's handler knows
\* (handlers.go:263-374, engine.go:84-100).
THEOREM MenuTypeCorrect ==
  ASSUME MenuAssumption
  PROVE  MenuSpec => []MenuTypeOK
<1>1. ASSUME Inv PROVE MenuTypeOK
  <2>1. RowTypes /\ RoleTypes /\ BoundTypes /\ MenuTypes /\ Shapes /\ AnchorSent /\ PromptsOnce
    BY <1>1 DEF Inv
  <2>2. ASSUME NEW u \in People
        PROVE  /\ \A i \in 1..Len(nav[u]) : IsTarget(nav[u][i]) /\ nav[u][i].to \in Screens
               /\ \A m \in Messages : \A b \in menus[u][m].buttons : IsTarget(b)
    <3>1. nav[u] \in Seq(Frames) /\ \A m \in Messages : menus[u][m] \in Views
      BY <2>1 DEF MenuTypes
    <3>2. \A i \in 1..Len(nav[u]) : nav[u][i] \in Frames
      BY <3>1
    <3>3. \A m \in Messages : \A b \in menus[u][m].buttons : b \in Targets
      BY <3>1 DEF Views
    <3>4. \A t \in Targets : IsTarget(t)
      BY TargetsAre
    <3> QED
      BY <3>2, <3>3, <3>4, FramesAre
  <2>3. ASSUME NEW u \in People
        PROVE  /\ anchor[u] \in Messages \cup {NoMessage}
               /\ anchor[u] # NoMessage => menus[u][anchor[u]] # Unsent
               /\ pending[u] # NoPrompt => /\ pending[u].prompt \in 1..prompts
                                           /\ InputOf[pending[u].go.to] = pending[u].action
    <3>1. pending[u] \in Asked \cup {NoPrompt} /\ prompts \in Nat
      BY <2>1 DEF MenuTypes, BoundTypes, MenuAssumption
    <3>2. pending[u] # NoPrompt => /\ pending[u].prompt <= prompts
                                   /\ Answers(pending[u].go, pending[u].action)
      BY <2>1 DEF PromptsOnce
    <3>3. pending[u] # NoPrompt => pending[u].prompt \in 1..prompts
      BY <3>1, <3>2, PromptsAre
    <3> QED
      BY <2>1, <3>2, <3>3 DEF MenuTypes, AnchorSent, Answers
  <2>4. ASSUME NEW k \in Tasks
        PROVE  /\ tasks[k].at # "idle" => tasks[k].user \in People
               /\ tasks[k].at \in {"save", "render", "show"} =>
                    tasks[k].go.to \in Screens \/ tasks[k].how # "push"
    BY <2>1 DEF Shapes, TaskShape, Carries
  <2>5. /\ by \in [Rows -> People \cup {NoOne, Deleted}]
        /\ muted \in BOOLEAN
        /\ status \in {"draft", "running", "cancelled", "done"}
    BY <2>1 DEF RowTypes
  <2>6. /\ admins \subseteq People /\ ChatOwner \in admins
        /\ since \in [People -> 0..Never]
        /\ cache.ids \subseteq People /\ cache.age \in 0..ListTTL
    BY <2>1 DEF RoleTypes
  <2>7. prompts \in 0..Prompts /\ updates \in 0..MaxUpdates /\ changes \in 0..MaxChanges
    BY <2>1 DEF BoundTypes
  <2> QED
    BY <2>2, <2>3, <2>4, <2>5, <2>6, <2>7 DEF MenuTypeOK
<1>2. MenuSpec => []Inv
  BY MenuInvariance
<1> QED
  BY <1>1, <1>2, PTL

\* And so do those of all the interface: the installations, callers and redirects in service beside
\* them (installations.go, jwt.go, setup.go), however the steps of the two interleave.
THEOREM TypesCorrect ==
  ASSUME MenuAssumption
  PROVE  Spec /\ MenuSpec => []TypesOK
<1>1. TypeOK /\ MenuTypeOK => TypesOK
  BY DEF TypesOK
<1>2. MenuSpec => []MenuTypeOK
  BY MenuTypeCorrect
<1> QED
  BY <1>1, <1>2, TypeCorrect, PTL

\* Who never had a right to it finds no screen of the chat nor of the admin panel on the stack,
\* in a menu or behind a prompt (engine.go:99): so Back and old menus cannot lead there.
THEOREM OnlyTheAdmitted ==
  ASSUME MenuAssumption
  PROVE  MenuSpec => []AdmittedOnly
<1>1. ASSUME Inv PROVE AdmittedOnly
  <2>1. MenusAdmitted
    BY <1>1 DEF Inv
  <2>2. ASSUME NEW u \in People, NEW s, Admitted(u, s)
        PROVE  ~ \/ Scope(s) \in {"chat", "integration", "owner", "filter"} /\ since[u] = Never
                 \/ Scope(s) = "bot" /\ u \notin BotAdmins
    BY <2>2 DEF Admitted, Of
  <2> QED
    BY <2>1, <2>2 DEF MenusAdmitted, AdmittedOnly
<1>2. MenuSpec => []Inv
  BY MenuInvariance
<1> QED
  BY <1>1, <1>2, PTL

\* Of any number of messages sent at once only one is taken for the answer to a prompt
\* (star.go:64-65).
THEOREM PromptsAnsweredOnce ==
  ASSUME MenuAssumption
  PROVE  MenuSpec => []PromptAnsweredOnce
<1>1. Inv => PromptAnsweredOnce
  BY DEF Inv, PromptsOnce, PromptAnsweredOnce, Active
<1>2. MenuSpec => []Inv
  BY MenuInvariance
<1> QED
  BY <1>1, <1>2, PTL

\* Whatever is done or shown is for somebody who was entitled to it within the last ListTTL, by every
\* way there is: an old menu, Back, a typed link, an answer sent long after the prompt
\* (guard.go:88-91, handlers.go:562-563).
THEOREM RightsAreFresh ==
  ASSUME MenuAssumption
  PROVE  MenuSpec => FreshRights
<1>1. ASSUME Inv
      PROVE  \A k \in Tasks :
               (tasks[k].at \in {"act", "show"} /\ tasks'[k] # tasks[k]) => Entitled(tasks[k])
  BY <1>1 DEF Inv, Rights, TaskRights, Grants
<1>2. MenuSpec => []Inv
  BY MenuInvariance
<1> QED
  BY <1>1, <1>2, PTL DEF FreshRights, MenuSpec

\* The menu tapped is the one that changes, unless Telegram edits it no more, for as long as no
\* other update of its user is handled (handlers.go:220-221, anchor.go:92-103).
THEOREM TappedMenuChanges ==
  ASSUME MenuAssumption
  PROVE  MenuSpec => TappedIsTheOneThatChanges
<1>1. ASSUME Inv, [MenuNext]_menuVars, NEW k \in Tasks,
             tasks[k].at = "show", tasks[k].via # NoMessage, tasks[k].alone,
             tasks'[k].at = "idle", tasks[k].post = "edit",
             NEW m \in Messages, menus'[tasks[k].user][m] # menus[tasks[k].user][m]
      PROVE  m = tasks[k].via \/ menus[tasks[k].user][tasks[k].via] = Gone
  <2> DEFINE u == tasks[k].user
  <2>i. /\ RoleTypes /\ MenuTypes /\ Current /\ Shapes /\ Rights /\ MenusAdmitted /\ PromptsOnce
        /\ Solo
    BY <1>1 DEF Inv
  <2>s. tasks \in [Tasks -> TaskTypes] /\ \A j \in Tasks : Sound(tasks[j])
    BY <2>i DEF MenuTypes, Shapes, Rights, Sound
  <2>u. u \in People
    BY <1>1, <2>i DEF Shapes, TaskShape
  <2>1. anchor[u] = tasks[k].via
    BY <1>1, <2>i DEF Solo, Active
  <2>2. tasks'[k] # tasks[k] /\ ~ UNCHANGED menus
    BY <1>1
  <2>3. ~ Others
    <3>1. Others => UNCHANGED tasks
      BY OthersLeave
    <3> QED
      BY <2>2, <3>1
  <2>4. ~ UNCHANGED menuVars
    BY <2>2 DEF menuVars
  <2>5. \A i \in Tasks, v \in People : ~ Update(i, v)
    <3>1. \A i \in Tasks, v \in People : Update(i, v) => UNCHANGED menus
      BY UpdateLeaves
    <3> QED
      BY <2>2, <3>1
  <2>6. PICK i \in Tasks : Handle(i)
    BY <1>1, <2>3, <2>4, <2>5 DEF MenuNext
  <2>7. i = k
    <3>1. PICK t : Goes(i, t)
      BY <2>6, <2>i, <2>s, HandleMoves DEF Moves
    <3> QED
      BY <2>2, <2>s, <3>1 DEF Goes
  <2>8. Edit(k) \/ Send(k)
    BY <2>2, <2>6, <2>7, HandleLeaves
  <2>9. CASE Edit(k)
    <3>1. menus' = [menus EXCEPT ![u][anchor[u]] = tasks[k].view]
      BY <2>9 DEF Edit
    <3>2. menus \in [People -> [Messages -> Views]]
      BY <2>i DEF MenuTypes
    <3> HIDE DEF u
    <3>3. m # anchor[u] => menus'[u][m] = menus[u][m]
      BY <2>u, <3>1, <3>2
    <3> QED
      BY <1>1, <2>1, <3>3 DEF u
  <2>10. CASE Send(k)
    <3>1. ~ Editable(tasks[k])
      BY <2>10 DEF Send
    <3> QED
      BY <1>1, <2>1, <3>1 DEF Editable
  <2> QED
    BY <2>8, <2>9, <2>10
<1>2. Inv /\ [MenuNext]_menuVars =>
        \A k \in Tasks :
          (tasks[k].at = "show" /\ tasks[k].via # NoMessage /\ tasks[k].alone
             /\ tasks'[k].at = "idle" /\ tasks[k].post = "edit")
          => \A m \in Messages :
               menus'[tasks[k].user][m] # menus[tasks[k].user][m] =>
                 m = tasks[k].via \/ menus[tasks[k].user][tasks[k].via] = Gone
  BY <1>1
<1>3. MenuSpec => []Inv
  BY MenuInvariance
<1> QED
  BY <1>2, <1>3, PTL DEF TappedIsTheOneThatChanges, MenuSpec
===========================================================================
