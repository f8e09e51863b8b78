----------------------------- MODULE MCInterface -----------------------------
(***************************************************************************)
(* An instance for TLC of Interface, of its two parts side by side: scene  *)
(* says which of them a behaviour moves and where it starts.               *)
(*                                                                         *)
(* Installations: the setup redirect, the tokens and the webhook           *)
(* connections share no variable but GitHub's side and the rows it has, so *)
(* each behaviour looks at one of them.  Tokens of two installations never *)
(* meet, so there one of them moves; in the setup either one moves and     *)
(* time passes, or both move at once.                                      *)
(*                                                                         *)
(* Menu: one user taps and writes, starting from a menu that shows the top *)
(* of a stack the screens lead to; the others are the chat's creator and   *)
(* whoever made the rows.                                                  *)
(***************************************************************************)
EXTENDS Interface, TLC

CONSTANTS ann, bob, cat, m1

VARIABLE scene

ASSUME TheMenu == MenuAssumption

Path(name) ==
  CASE name = "new" -> <<>>
    [] name = "home" -> <<Home>>
    [] name = "settings" -> <<Home, At("settings", "")>>
    [] name = "chat" -> <<Home, At("chats", ""), At("chat_detail", "chat")>>
    [] name = "topics" -> <<Home, At("chats", ""), At("chat_detail", "chat"), At("topics", "chat")>>
    [] name = "integration" -> <<Home, At("chat_detail", "chat"), At("integration_detail", "hint")>>
    [] name = "filters" -> <<Home, At("integration_detail", "hint"), At("filters", "hint")>>
    [] name = "health" -> <<Home, At("integration_detail", "hint"), At("health", "hint")>>
    [] name = "repos" -> <<Home, At("accounts", ""), At("repos", "gh")>>
    [] name = "picker" -> <<Home, At("repos", "gh"), At("repo_detail", "gh"), At("chat_picker", "gh")>>
    [] name = "forge" -> <<Home, At("accounts", ""), At("forge_projects", "hook"), At("hook_setup", "hook")>>
    [] name = "connect" -> <<Home, At("forge_connect", "")>>
    [] name = "delete" -> <<Home, At("forge_projects", "hook"), At("forge_delete", "hook")>>
    [] name = "refs" -> <<Home, At("adm_home", ""), At("adm_refs", "")>>
    [] name = "ref" -> <<Home, At("adm_refs", ""), At("adm_ref", "ref")>>
    [] name = "bc" -> <<Home, At("adm_bcs", ""), At("adm_bc", "bc")>>
    [] name = "bcs" -> <<Home, At("adm_home", ""), At("adm_bcs", "")>>
    [] name = "status" -> <<Home, At("status", "")>>

Names == {"new", "home", "settings", "chat", "topics", "integration", "filters", "health",
          "repos", "picker", "forge", "connect", "delete", "refs", "bcs", "status", "ref", "bc"}

Made(name) ==
  [o \in Rows |->
     CASE o = "chat" -> bob
       [] o \in {"gh", "hint"} -> IF name = "new" THEN bob ELSE ann
       [] o \in {"hook", "project"} -> IF name \in {"connect", "new"} THEN NoOne ELSE ann
       [] o = "hfilter" -> IF name = "filters" THEN ann ELSE NoOne
       [] o \in {"ref", "bc"} -> IF name \in {"ref", "bc"} THEN bob ELSE NoOne
       [] OTHER -> NoOne]

Posted(u, name) ==
  [m \in Messages |->
     IF u = ann /\ m = m1 /\ Path(name) # <<>>
     THEN [of |-> Top(Path(name)).to,
           buttons |-> Drawn(u, Top(Path(name))) \cup
                       (IF Len(Path(name)) > 1 THEN {Back} ELSE {})]
     ELSE Unsent]

InstallationScenes ==
  [part: {"setup", "connections"}, insts: {Insts}] \cup
  [part: {"setup", "tokens"}, insts: {{g} : g \in Insts}]
MenuScenes == [part: {"menu"}, start: Names]

MCInit ==
  /\ Init
  /\ scene \in InstallationScenes \cup MenuScenes
  /\ LET name == IF scene.part = "menu" THEN scene.start ELSE "new"
     IN  InitWith(Made(name), {ann, bob},
           [u \in People |-> IF u = ann THEN Path(name) ELSE <<>>],
           [u \in People |-> Posted(u, name)])

Outside(g) ==
  /\ gh'[g] = gh[g]
  /\ \A c \in Callers : calls'[c] # Idle => calls'[c].inst # g

InstallationsMove ==
  /\ scene.part # "menu"
  /\ \/ scene.part = "setup" /\ (Lifecycle \/ Setup)
     \/ scene.part = "tokens" /\ (Lifecycle \/ InstallationToken)
     \/ scene.part = "connections" /\ Connect
     \/ Cardinality(scene.insts) = 1 /\ Tick
  /\ \A g \in Insts \ scene.insts : Outside(g)
  /\ UNCHANGED menuVars

MenuMoves ==
  LET actor == IF scene.start = "new" THEN cat ELSE ann
  IN  /\ scene.part = "menu"
      /\ \/ \E k \in Tasks : Handle(k) \/ Update(k, actor)
         \/ Elsewhere \/ TimePasses \/ Promote(actor) \/ Demote(actor) \/ Vanish(actor)
      /\ UNCHANGED vars

MCNext == UNCHANGED scene /\ (InstallationsMove \/ MenuMoves)

MCSpec == MCInit /\ [][MCNext]_<<vars, menuVars, scene>>

\* No behaviour moves two of Redirects, Callers, Taps and Tasks, nor Tokens and
\* Messages, so the same values stand for the members of each.
Symmetry ==
  Permutations(Tasks) \cup Permutations(Tokens) \cup Permutations(Users) \cup Permutations(Insts)
=============================================================================
