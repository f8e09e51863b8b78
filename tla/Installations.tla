---------------------------- MODULE Installations ----------------------------
(***************************************************************************)
(* GitHub installations and webhook connections: the installations and     *)
(* install_states tables (internal/storage/installations.go, forge.go),    *)
(* the setup redirect that makes a user the owner (httpapi/setup.go,       *)
(* service/install.go), the cache of installation tokens in the same rows  *)
(* (ghapp/jwt.go, storage/tokencache.go), and GitHub with its lifecycle    *)
(* webhooks, which arrive in any order with the redirect and each other.   *)
(*                                                                         *)
(* A step is a statement or an HTTP call of one request.  Time is counted  *)
(* in ticks of a clock that all share.                                     *)
(*                                                                         *)
(* A definition whose name extends the name of the one it precedes is that *)
(* one with a plausible mistake; only the mutation runs use it.            *)
(***************************************************************************)
EXTENDS Integers, FiniteSets

CONSTANTS
  Insts,      \* GitHub's installation ids; never used again
  Users, NoUser,
  Tokens,     \* values of the state parameter; any may be presented
  TTL,        \* life of a state, installStateTTL
  Redirects,  \* setup redirects served at a time
  Callers,    \* users of InstallationToken at a time
  Life,       \* life of an installation token
  Margin,     \* tokenSafetyMargin
  Request,    \* bound of a request to GitHub, the client's timeout
  Conns,      \* ids of webhook connections, 1..n
  Taps,       \* taps on "Connect" served at a time
  MaxTime     \* bound of the clock

ASSUME UsersAssumption == NoUser \notin Users
ASSUME TimeAssumption ==
  /\ TTL \in Nat /\ Life \in Nat \ {0} /\ Margin \in Nat /\ MaxTime \in Nat
  /\ Request \in 0..Margin
  /\ Request < Life
ASSUME ConnsAssumption == Conns \subseteq Nat
ASSUME TapsAssumption == IsFiniteSet(Taps)

VARIABLES
  now,
  gh,         \* what GitHub knows of each installation
  hooks,      \* lifecycle webhooks on their way
  rows,       \* the installations of provider github, by GitHub's id
  states,     \* install_states
  minted,     \* the state tokens ever made: they are random
  setup,      \* what each redirect being served has found out
  brought,    \* every link brought back in time (no column)
  calls,      \* what each caller of InstallationToken is at
  conns,      \* the installations of the other providers
  taps        \* what each tap on "Connect" is at

claims == <<states, minted, setup, brought>>
vars   == <<now, gh, hooks, rows, claims, calls, conns, taps>>

Kinds == {"created", "deleted", "suspend", "unsuspend"}
Row   == [owner: Users \cup {NoUser}, suspended: BOOLEAN, expires: 0..(MaxTime + Life)]
Idle  == [at |-> "idle"]

NewRow(u) == [owner |-> u, suspended |-> FALSE, expires |-> 0]

\* f with the value v at x, which it may not have had yet.
Put(f, x, v)   == [y \in DOMAIN f \cup {x} |-> IF y = x THEN v ELSE f[y]]
Without(f, S)  == [y \in DOMAIN f \ S |-> f[y]]

Init ==
  /\ now = 0
  /\ gh = [g \in Insts |-> "none"]
  /\ hooks = {}
  /\ rows = [g \in {} |-> NewRow(NoUser)]
  /\ states = [t \in {} |-> [user |-> NoUser, expires |-> 0]]
  /\ minted = {}
  /\ setup = [r \in Redirects |-> Idle]
  /\ brought = {}
  /\ calls = [c \in Callers |-> Idle]
  /\ conns = [i \in {} |-> [owner |-> NoUser, used |-> FALSE]]
  /\ taps = [k \in Taps |-> Idle]

-----------------------------------------------------------------------------
(***************************************************************************)
(* GitHub, and the webhooks that tell of it.                               *)
(***************************************************************************)

Became == [created |-> "active", suspend |-> "suspended",
           unsuspend |-> "active", deleted |-> "gone"]

Possible(g, kind) ==
  CASE kind = "created"   -> gh[g] = "none"
    [] kind = "suspend"   -> gh[g] = "active"
    [] kind = "unsuspend" -> gh[g] = "suspended"
    [] kind = "deleted"   -> gh[g] \in {"active", "suspended"}

GitHub(g, kind) ==
  /\ Possible(g, kind)
  /\ gh' = [gh EXCEPT ![g] = Became[kind]]
  /\ hooks' = hooks \cup {<<g, kind>>}
  /\ UNCHANGED <<now, rows, claims, calls, conns, taps>>

Registered(g) == IF g \in DOMAIN rows THEN rows[g] ELSE NewRow(NoUser)

RegisterInstallation(g) == rows' = Put(rows, g, Registered(g))

DeleteInstallation(g) == rows' = Without(rows, {g})

SetInstallationSuspended(g, suspended) ==
  rows' = IF g \in DOMAIN rows THEN [rows EXCEPT ![g].suspended = suspended] ELSE rows

\* handleInstallation; of a delivery seen before nothing happens, see Ingest.
HandleInstallation(g, kind) ==
  /\ <<g, kind>> \in hooks
  /\ hooks' = hooks \ {<<g, kind>>}
  /\ CASE kind = "created" -> RegisterInstallation(g)
       [] kind = "deleted" -> DeleteInstallation(g)
       [] OTHER            -> SetInstallationSuspended(g, kind = "suspend")
  /\ UNCHANGED <<now, gh, claims, calls, conns, taps>>

-----------------------------------------------------------------------------
(***************************************************************************)
(* The setup redirect.                                                     *)
(***************************************************************************)

\* Drawing the install screen.
NewInstallState(u, t) ==
  /\ t \notin minted
  /\ minted' = minted \cup {t}
  /\ states' = Put(states, t, [user |-> u, expires |-> now + TTL])
  /\ UNCHANGED <<now, gh, hooks, rows, setup, brought, calls, conns, taps>>

Valid(t) == t \in DOMAIN states /\ states[t].expires > now

Expired == {t \in DOMAIN states : states[t].expires <= now}

AfterTakeKept(t) == Without(states, Expired)

\* The rows TakeInstallState leaves.
AfterTake(t) == Without(states, {t} \cup Expired)

\* The redirect is unauthenticated: anyone may call it, with any installation
\* and any token, again and again.
TakeInstallState(r, g, t) ==
  /\ setup[r] = Idle
  /\ Valid(t)
  /\ states' = AfterTake(t)
  /\ setup' = [setup EXCEPT ![r] = [at |-> "info", inst |-> g, user |-> states[t].user]]
  /\ brought' = brought \cup {[token |-> t, user |-> states[t].user, inst |-> g]}
  /\ UNCHANGED <<now, gh, hooks, rows, minted, calls, conns, taps>>

Rest(r) == setup' = [setup EXCEPT ![r] = Idle]

InstallationInfoTrusted(r) ==
  /\ setup[r].at = "info"
  /\ setup' = [setup EXCEPT ![r].at = "claim"]
  /\ UNCHANGED <<now, gh, hooks, rows, states, minted, brought, calls, conns, taps>>

\* ClaimInstallation first asks GitHub whose installation that is.
InstallationInfo(r) ==
  /\ setup[r].at = "info"
  /\ IF gh[setup[r].inst] \in {"active", "suspended"}
     THEN setup' = [setup EXCEPT ![r].at = "claim"]
     ELSE Rest(r)
  /\ UNCHANGED <<now, gh, hooks, rows, states, minted, brought, calls, conns, taps>>

ClaimableByAnyone(g, u) == TRUE

\* The WHERE of the upsert: a row without an owner, or with this one.
Claimable(g, u) == g \in DOMAIN rows => rows[g].owner \in {NoUser, u}

ClaimInstallationOwner(r) ==
  /\ setup[r].at = "claim"
  /\ LET g == setup[r].inst
         u == setup[r].user
     IN  rows' = IF Claimable(g, u)
                 THEN Put(rows, g, [Registered(g) EXCEPT !.owner = u, !.suspended = FALSE])
                 ELSE rows
  /\ Rest(r)
  /\ UNCHANGED <<now, gh, hooks, states, minted, brought, calls, conns, taps>>

\* A statement or call fails, or the process stops: the token stays spent and
\* the user is sent to the bot all the same.
SetupFails(r) ==
  /\ setup[r] # Idle
  /\ Rest(r)
  /\ UNCHANGED <<now, gh, hooks, rows, states, minted, brought, calls, conns, taps>>

-----------------------------------------------------------------------------
(***************************************************************************)
(* Installation tokens.                                                    *)
(***************************************************************************)

FreshToTheEnd(expires) == now < expires

Fresh(expires) == now + Margin < expires

\* The cache misses too when the row is gone or has no token.
CachedExpiry(g) == IF g \in DOMAIN rows THEN rows[g].expires ELSE 0

Using(c, g, expires) ==
  calls' = [calls EXCEPT ![c] = [at |-> "use", inst |-> g, expires |-> expires, since |-> now]]

Return(c) == calls' = [calls EXCEPT ![c] = Idle]

GetToken(c, g) ==
  /\ calls[c] = Idle
  /\ IF Fresh(CachedExpiry(g))
     THEN Using(c, g, CachedExpiry(g))
     ELSE calls' = [calls EXCEPT ![c] = [at |-> "mint", inst |-> g, since |-> now]]
  /\ UNCHANGED <<now, gh, hooks, rows, claims, conns, taps>>

\* GitHub refuses a suspended or removed installation: the call fails.
Mint(c) ==
  /\ calls[c].at = "mint"
  /\ IF gh[calls[c].inst] = "active"
     THEN calls' = [calls EXCEPT ![c] = [at |-> "put", inst |-> @.inst,
                                         expires |-> now + Life, since |-> now]]
     ELSE Return(c)
  /\ UNCHANGED <<now, gh, hooks, rows, claims, conns, taps>>

\* An UPDATE: a row deleted meanwhile does not come back.
PutToken(c) ==
  /\ calls[c].at = "put"
  /\ LET g == calls[c].inst
     IN  rows' = IF g \in DOMAIN rows
                 THEN [rows EXCEPT ![g].expires = calls[c].expires] ELSE rows
  /\ calls' = [calls EXCEPT ![c].at = "use"]
  /\ UNCHANGED <<now, gh, hooks, claims, conns, taps>>

\* The request made with the token is answered, or some step before failed.
CallEnds(c) ==
  /\ calls[c] # Idle
  /\ Return(c)
  /\ UNCHANGED <<now, gh, hooks, rows, claims, conns, taps>>

-----------------------------------------------------------------------------
(***************************************************************************)
(* Webhook connections.                                                    *)
(***************************************************************************)

Unused(u) == {i \in DOMAIN conns : conns[i].owner = u /\ ~conns[i].used}

ReusableNone(u) == {}

Reusable(u) == Unused(u)

\* Finds a connection of the user's that has received nothing, or goes on to
\* make one, in a second statement.
ConnectionForSetup(k, u) ==
  /\ taps[k] = Idle
  /\ Reusable(u) = {}
  /\ taps' = [taps EXCEPT ![k] = [at |-> "create", user |-> u]]
  /\ UNCHANGED <<now, gh, hooks, rows, claims, calls, conns>>

CreateConnection(k) ==
  /\ taps[k].at = "create"
  /\ \E i \in Conns \ DOMAIN conns :
       conns' = Put(conns, i, [owner |-> taps[k].user, used |-> FALSE])
  /\ taps' = [taps EXCEPT ![k] = Idle]
  /\ UNCHANGED <<now, gh, hooks, rows, claims, calls>>

\* A webhook with this connection's token, for a project of the forge.
RememberProject(i) ==
  /\ i \in DOMAIN conns
  /\ conns' = [conns EXCEPT ![i].used = TRUE]
  /\ UNCHANGED <<now, gh, hooks, rows, claims, calls, taps>>

\* WHERE user_id: a stranger's button deletes nothing.
DeleteConnection(i, u) ==
  /\ i \in DOMAIN conns /\ conns[i].owner = u
  /\ conns' = Without(conns, {i})
  /\ UNCHANGED <<now, gh, hooks, rows, claims, calls, taps>>

-----------------------------------------------------------------------------
\* Requests to GitHub end within the client's timeout.
Tick ==
  /\ now < MaxTime
  /\ \A c \in Callers : calls[c] # Idle => now - calls[c].since < Request
  /\ now' = now + 1
  /\ UNCHANGED <<gh, hooks, rows, claims, calls, conns, taps>>

Lifecycle ==
  \E g \in Insts, kind \in Kinds : GitHub(g, kind) \/ HandleInstallation(g, kind)

Setup ==
  \/ \E u \in Users, t \in Tokens : NewInstallState(u, t)
  \/ \E r \in Redirects :
       \/ \E g \in Insts, t \in Tokens : TakeInstallState(r, g, t)
       \/ InstallationInfo(r) \/ ClaimInstallationOwner(r) \/ SetupFails(r)

InstallationToken ==
  \E c \in Callers :
    \/ \E g \in Insts : GetToken(c, g)
    \/ Mint(c) \/ PutToken(c) \/ CallEnds(c)

Connect ==
  \/ \E k \in Taps :
       (\E u \in Users : ConnectionForSetup(k, u)) \/ CreateConnection(k)
  \/ \E i \in Conns : RememberProject(i) \/ \E u \in Users : DeleteConnection(i, u)

Next == Lifecycle \/ Setup \/ InstallationToken \/ Connect \/ Tick

Spec == Init /\ [][Next]_vars

-----------------------------------------------------------------------------
(***************************************************************************)
(* Properties.                                                             *)
(***************************************************************************)

\* Every variable stays within its type, and there is no row for an id that is
\* none of GitHub's, whatever ids the redirect is called with.
TypeOK ==
  /\ now \in 0..MaxTime
  /\ gh \in [Insts -> {"none", "active", "suspended", "gone"}]
  /\ hooks \subseteq Insts \X Kinds
  /\ DOMAIN rows \subseteq {g \in Insts : gh[g] # "none"} /\ rows \in [DOMAIN rows -> Row]
  /\ DOMAIN states \subseteq minted /\ minted \subseteq Tokens
  /\ states \in [DOMAIN states -> [user: Users, expires: 0..(MaxTime + TTL)]]
  /\ setup \in [Redirects -> {Idle} \cup
       [at: {"info", "claim"}, inst: Insts, user: Users]]
  /\ brought \subseteq [token: Tokens, user: Users, inst: Insts]
  /\ calls \in [Callers -> {Idle} \cup
       [at: {"mint"}, inst: Insts, since: 0..MaxTime] \cup
       [at: {"put", "use"}, inst: Insts, expires: 0..(MaxTime + Life), since: 0..MaxTime]]
  /\ DOMAIN conns \subseteq Conns
  /\ conns \in [DOMAIN conns -> [owner: Users, used: BOOLEAN]]
  /\ taps \in [Taps -> {Idle} \cup [at: {"create"}, user: Users]]

\* Whoever owns an installation came to it through the link made for them, and
\* no link makes two claims, however often and with whatever installation its
\* address is called again: "a leaked redirect URL cannot be replayed"
\* (storage/installations.go:109-111, httpapi/setup.go:15-17).
OwnedThroughLink ==
  /\ \A g \in DOMAIN rows : rows[g].owner # NoUser =>
       \E b \in brought : b.user = rows[g].owner /\ b.inst = g
  /\ \A a, b \in brought : a.token = b.token => a = b

\* "It never transfers" (installations.go:58-63): while the row exists nothing
\* replaces an owner, neither a second claim in flight nor a late or repeated
\* webhook (14-16 there).
OwnerNeverReplaced ==
  [][\A g \in DOMAIN rows \cap DOMAIN rows' :
       rows[g].owner # NoUser => rows'[g].owner = rows[g].owner]_vars

\* "A token never expires mid-request" (jwt.go:22-24), wherever it came from
\* and whatever other callers put into the cache in between.
TokenOutlivesRequest ==
  \A c \in Callers : calls[c].at = "use" => now < calls[c].expires

\* What the code guarantees of unused secrets: finding a connection and making
\* one are two statements (storage/forge.go:38-42 and 49), so of the taps served
\* at once each may make one, and later taps find those: never more of them than
\* taps are served at once, however the taps and the deletions follow each other.
UnusedBounded == \A u \in Users : Cardinality(Unused(u)) <= Cardinality(Taps)

\* "Tapping the button twice must not leave a trail of unused secrets behind"
\* (storage/forge.go:33-34): a user has at most one connection that has not
\* received anything.
OneUnused == \A u \in Users : Cardinality(Unused(u)) <= 1
=============================================================================
