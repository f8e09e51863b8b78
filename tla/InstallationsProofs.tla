------------------------- MODULE InstallationsProofs -------------------------
(***************************************************************************)
(* Proofs about installations, setup links, installation tokens and        *)
(* webhook connections: for any number of them, of users and of requests   *)
(* served at once, and any times that meet TimeAssumption.                 *)
(***************************************************************************)
EXTENDS Installations, FiniteSetTheorems, TLAPS

(***************************************************************************)
(* The inductive invariant: what a redirect or a caller in flight knows,   *)
(* related to the tables that others change meanwhile.                     *)
(***************************************************************************)

\* Webhooks and claims are about installations that are or were.
Known ==
  /\ \A h \in hooks : gh[h[1]] # "none"
  /\ \A r \in Redirects : setup[r].at = "claim" => gh[setup[r].inst] # "none"

\* A redirect being served, like an owner, was brought by a link.
Brought ==
  /\ \A r \in Redirects : setup[r] # Idle =>
       \E b \in brought : b.user = setup[r].user /\ b.inst = setup[r].inst
  /\ \A g \in DOMAIN rows : rows[g].owner # NoUser =>
       \E b \in brought : b.user = rows[g].owner /\ b.inst = g

\* A token that brought somebody in is spent, and it is never drawn again.
Spent ==
  /\ \A b \in brought : b.token \in minted \ DOMAIN states
  /\ \A a, b \in brought : a.token = b.token => a = b

\* A caller is within the time of its request, and its token outlives that.
InTime ==
  \A c \in Callers : calls[c] # Idle =>
    /\ calls[c].since <= now /\ now <= calls[c].since + Request
    /\ calls[c].at \in {"put", "use"} => calls[c].since + Request < calls[c].expires

\* The taps about to make a connection for u.
Creating(u) == {k \in Taps : taps[k] = [at |-> "create", user |-> u]}

\* Each of them has room for it.
TapsFit ==
  \A u \in Users :
    /\ IsFiniteSet(Unused(u))
    /\ Cardinality(Unused(u)) + Cardinality(Creating(u)) <= Cardinality(Taps)

IInv == TypeOK /\ Known /\ Brought /\ Spent /\ InTime /\ TapsFit

-----------------------------------------------------------------------------
(***************************************************************************)
(* Lemmas about the definitions.                                           *)
(***************************************************************************)

\* What a claim and a registration start from is a row, with the owner it has.
LEMMA RegisteredRow ==
  ASSUME TypeOK, NEW g
  PROVE  /\ Registered(g) \in Row
         /\ Registered(g).owner = IF g \in DOMAIN rows THEN rows[g].owner ELSE NoUser
<1>1. NewRow(NoUser) \in Row /\ NewRow(NoUser).owner = NoUser
  BY TimeAssumption DEF NewRow, Row
<1> QED
  BY <1>1 DEF TypeOK, Registered

\* The expiry a caller finds is a time.
LEMMA CachedExpiryType ==
  ASSUME TypeOK, NEW g
  PROVE  CachedExpiry(g) \in 0..(MaxTime + Life)
BY TimeAssumption DEF TypeOK, CachedExpiry, Row

\* Connections and taps have sizes.
LEMMA Sizes ==
  ASSUME NEW u
  PROVE  /\ IsFiniteSet(Creating(u)) /\ Cardinality(Creating(u)) \in Nat
         /\ Cardinality(Taps) \in Nat
         /\ Cardinality(Creating(u)) <= Cardinality(Taps)
<1>1. IsFiniteSet(Taps) /\ Creating(u) \in SUBSET Taps
  BY TapsAssumption DEF Creating
<1> QED
  BY <1>1, FS_Subset, FS_CardinalityType

\* Where the tables a part speaks of stand still, so does the part.
LEMMA KnownKept ==
  ASSUME Known, UNCHANGED <<gh, hooks, setup>>
  PROVE  Known'
BY DEF Known

LEMMA BroughtKept ==
  ASSUME Brought, UNCHANGED <<rows, setup, brought>>
  PROVE  Brought'
BY DEF Brought

LEMMA SpentKept ==
  ASSUME Spent, UNCHANGED <<states, minted, brought>>
  PROVE  Spent'
BY DEF Spent

LEMMA InTimeKept ==
  ASSUME InTime, UNCHANGED <<calls, now>>
  PROVE  InTime'
BY DEF InTime

LEMMA TapsFitKept ==
  ASSUME TapsFit, UNCHANGED <<conns, taps>>
  PROVE  TapsFit'
BY DEF TapsFit, Unused, Creating

-----------------------------------------------------------------------------
(***************************************************************************)
(* The invariant holds initially and every action keeps it.                *)
(***************************************************************************)

\* At first there is nothing of anything.
LEMMA InitHolds == Init => IInv
<1> SUFFICES ASSUME Init PROVE IInv
  OBVIOUS
<1>1. TypeOK
  <2>1. rows \in [DOMAIN rows -> Row] /\ DOMAIN rows = {}
    BY DEF Init
  <2>2. /\ states \in [DOMAIN states -> [user: Users, expires: 0..(MaxTime + TTL)]]
        /\ DOMAIN states = {}
    BY DEF Init
  <2>3. conns \in [DOMAIN conns -> [owner: Users, used: BOOLEAN]] /\ DOMAIN conns = {}
    BY DEF Init
  <2> QED
    BY <2>1, <2>2, <2>3, TimeAssumption DEF Init, TypeOK
<1>2. Known /\ Brought /\ Spent /\ InTime
  BY DEF Init, Known, Brought, Spent, InTime, Idle
<1>3. TapsFit
  <2> SUFFICES ASSUME NEW u \in Users
               PROVE  /\ IsFiniteSet(Unused(u))
                      /\ Cardinality(Unused(u)) + Cardinality(Creating(u)) <= Cardinality(Taps)
    BY DEF TapsFit
  <2>1. Unused(u) = {}
    BY DEF Init, Unused
  <2> QED
    BY <2>1, FS_EmptySet, Sizes
<1> QED
  BY <1>1, <1>2, <1>3 DEF IInv

\* GitHub's states lead away from "none" only.
LEMMA GitHubKept ==
  ASSUME IInv, NEW g \in Insts, NEW kind \in Kinds, GitHub(g, kind)
  PROVE  IInv'
<1>1. Became[kind] \in {"active", "suspended", "gone"}
  BY DEF Became, Kinds
<1>2. gh' = [gh EXCEPT ![g] = Became[kind]] /\ hooks' = hooks \cup {<<g, kind>>}
  BY DEF GitHub
<1>3. TypeOK'
  BY <1>1, <1>2 DEF IInv, TypeOK, GitHub, claims
<1>4. Known'
  BY <1>1, <1>2 DEF IInv, TypeOK, Known, GitHub, claims, Idle
<1> QED
  BY <1>3, <1>4, BroughtKept, SpentKept, InTimeKept, TapsFitKept DEF IInv, GitHub, claims

\* A webhook changes a row, deletes it, or makes one without an owner.
LEMMA HandleInstallationWrites ==
  ASSUME IInv, NEW g \in Insts, NEW kind \in Kinds, HandleInstallation(g, kind)
  PROVE  /\ rows' \in [DOMAIN rows' -> Row]
         /\ DOMAIN rows' \subseteq DOMAIN rows \cup {g}
         /\ \A h \in DOMAIN rows' : rows'[h].owner =
              IF h \in DOMAIN rows THEN rows[h].owner ELSE NoUser
<1>0. rows \in [DOMAIN rows -> Row]
  BY DEF IInv, TypeOK
<1>1. CASE kind = "created"
  <2>1. rows' = Put(rows, g, Registered(g))
    BY <1>1 DEF HandleInstallation, RegisterInstallation
  <2>2. Registered(g) \in Row
    BY RegisteredRow DEF IInv
  <2>3. /\ rows' \in [DOMAIN rows \cup {g} -> Row] /\ DOMAIN rows' = DOMAIN rows \cup {g}
        /\ rows'[g] = Registered(g)
        /\ \A h \in DOMAIN rows \ {g} : rows'[h] = rows[h]
    BY <1>0, <2>1, <2>2 DEF Put
  <2> QED
    BY <2>3, RegisteredRow DEF IInv
<1>2. CASE kind = "deleted"
  <2>1. rows' = Without(rows, {g})
    BY <1>2 DEF HandleInstallation, DeleteInstallation
  <2>2. /\ rows' \in [DOMAIN rows \ {g} -> Row] /\ DOMAIN rows' = DOMAIN rows \ {g}
        /\ \A h \in DOMAIN rows \ {g} : rows'[h] = rows[h]
    BY <1>0, <2>1 DEF Without
  <2> QED
    BY <2>2
<1>3. CASE kind \notin {"created", "deleted"}
  <2>1. SetInstallationSuspended(g, kind = "suspend")
    BY <1>3 DEF HandleInstallation
  <2>2. CASE g \in DOMAIN rows
    <3>1. rows' = [rows EXCEPT ![g].suspended = (kind = "suspend")]
      BY <2>1, <2>2 DEF SetInstallationSuspended
    <3>2. [rows[g] EXCEPT !.suspended = (kind = "suspend")] \in Row
      BY <2>2, <1>0 DEF Row
    <3>3. /\ rows' \in [DOMAIN rows -> Row] /\ DOMAIN rows' = DOMAIN rows
          /\ rows'[g].owner = rows[g].owner
          /\ \A h \in DOMAIN rows \ {g} : rows'[h] = rows[h]
      BY <3>1, <3>2, <2>2, <1>0 DEF Row
    <3> QED
      BY <3>3
  <2>3. CASE g \notin DOMAIN rows
    BY <1>0, <2>1, <2>3 DEF SetInstallationSuspended
  <2> QED
    BY <2>2, <2>3
<1> QED
  BY <1>1, <1>2, <1>3

LEMMA HandleInstallationKept ==
  ASSUME IInv, NEW g \in Insts, NEW kind \in Kinds, HandleInstallation(g, kind)
  PROVE  IInv'
<1>1. gh[g] # "none" /\ hooks' \subseteq hooks
  BY DEF IInv, Known, HandleInstallation
<1>3. TypeOK'
  BY <1>1, HandleInstallationWrites DEF IInv, TypeOK, HandleInstallation, claims
<1>4. Known'
  BY <1>1 DEF IInv, Known, HandleInstallation, claims
<1>5. Brought'
  BY HandleInstallationWrites DEF IInv, Brought, HandleInstallation, claims
<1> QED
  BY <1>3, <1>4, <1>5, SpentKept, InTimeKept, TapsFitKept DEF IInv, HandleInstallation, claims

\* A new link has a token that brought nobody in.
LEMMA NewInstallStateKept ==
  ASSUME IInv, NEW u \in Users, NEW t \in Tokens, NewInstallState(u, t)
  PROVE  IInv'
<1>1. /\ t \notin minted /\ minted' = minted \cup {t}
      /\ states' = Put(states, t, [user |-> u, expires |-> now + TTL])
      /\ brought' = brought
  BY DEF NewInstallState
<1>2. /\ DOMAIN states' = DOMAIN states \cup {t}
      /\ states' \in [DOMAIN states' -> [user: Users, expires: 0..(MaxTime + TTL)]]
  <2>1. [user |-> u, expires |-> now + TTL] \in [user: Users, expires: 0..(MaxTime + TTL)]
    BY TimeAssumption DEF IInv, TypeOK
  <2> QED
    BY <1>1, <2>1 DEF IInv, TypeOK, Put
<1>3. TypeOK'
  BY <1>1, <1>2 DEF IInv, TypeOK, NewInstallState
<1>4. Spent'
  BY <1>1, <1>2 DEF IInv, Spent
<1> QED
  BY <1>3, <1>4, KnownKept, BroughtKept, InTimeKept, TapsFitKept DEF IInv, NewInstallState

\* A link taken is one that brought nobody in, and it is gone afterwards.
LEMMA TakeInstallStateKept ==
  ASSUME IInv, NEW r \in Redirects, NEW g \in Insts, NEW t \in Tokens,
         TakeInstallState(r, g, t)
  PROVE  IInv'
<1> DEFINE link == [token |-> t, user |-> states[t].user, inst |-> g]
           next == [at |-> "info", inst |-> g, user |-> states[t].user]
<1>1. t \in DOMAIN states /\ states[t].user \in Users
  BY DEF TakeInstallState, Valid, IInv, TypeOK
<1>2. setup' = [setup EXCEPT ![r] = next] /\ brought' = brought \cup {link}
  BY DEF TakeInstallState
<1>3. /\ DOMAIN states' \subseteq DOMAIN states \ {t}
      /\ states' \in [DOMAIN states' -> [user: Users, expires: 0..(MaxTime + TTL)]]
  BY DEF TakeInstallState, AfterTake, Without, IInv, TypeOK
<1>4. TypeOK'
  BY <1>1, <1>2, <1>3 DEF IInv, TypeOK, TakeInstallState
<1>5. Known'
  BY <1>2 DEF IInv, TypeOK, Known, TakeInstallState
<1>6. Brought'
  <2>1. rows' = rows /\ link \in brought' /\ brought \subseteq brought'
    BY <1>2 DEF TakeInstallState
  <2>2. ASSUME NEW q \in Redirects, setup'[q] # Idle
        PROVE  \E b \in brought' : b.user = setup'[q].user /\ b.inst = setup'[q].inst
    <3>1. CASE q = r
      <4>1. setup'[q] = next
        BY <1>2, <3>1 DEF IInv, TypeOK
      <4> QED
        BY <4>1, <2>1
    <3>2. CASE q # r
      <4>1. setup'[q] = setup[q]
        BY <1>2, <3>2 DEF IInv, TypeOK
      <4> QED
        BY <4>1, <2>1, <2>2 DEF IInv, Brought
    <3> QED
      BY <3>1, <3>2
  <2> QED
    BY <2>1, <2>2 DEF IInv, Brought
<1>7. Spent'
  BY <1>1, <1>2, <1>3 DEF IInv, TypeOK, Spent, TakeInstallState
<1> QED
  BY <1>4, <1>5, <1>6, <1>7, InTimeKept, TapsFitKept DEF IInv, TakeInstallState

\* A redirect done, whatever became of it, is one less to speak of.
LEMMA RestKept ==
  ASSUME IInv, NEW r \in Redirects, Rest(r),
         UNCHANGED <<now, gh, hooks, rows, states, minted, brought, calls, conns, taps>>
  PROVE  IInv'
<1>1. /\ setup' = [setup EXCEPT ![r] = Idle] /\ Idle.at = "idle"
      /\ \A q \in Redirects : setup'[q] = IF q = r THEN Idle ELSE setup[q]
  BY DEF Rest, Idle, IInv, TypeOK
<1>2. TypeOK'
  BY <1>1 DEF IInv, TypeOK
<1>3. Known' /\ Brought'
  BY <1>1 DEF IInv, Known, Brought
<1> QED
  BY <1>2, <1>3, SpentKept, InTimeKept, TapsFitKept DEF IInv

LEMMA SetupFailsKept ==
  ASSUME IInv, NEW r \in Redirects, SetupFails(r)
  PROVE  IInv'
BY RestKept DEF SetupFails

\* GitHub answers for installations it has; nothing else goes on to the claim.
LEMMA InstallationInfoKept ==
  ASSUME IInv, NEW r \in Redirects, InstallationInfo(r)
  PROVE  IInv'
<1>1. CASE gh[setup[r].inst] \in {"active", "suspended"}
  <2>1. /\ setup' = [setup EXCEPT ![r].at = "claim"] /\ setup[r] # Idle
        /\ setup[r] \in [at: {"info", "claim"}, inst: Insts, user: Users]
    BY <1>1 DEF InstallationInfo, Idle, IInv, TypeOK
  <2>2. /\ setup'[r] \in [at: {"info", "claim"}, inst: Insts, user: Users]
        /\ setup'[r].inst = setup[r].inst /\ setup'[r].user = setup[r].user
        /\ \A q \in Redirects \ {r} : setup'[q] = setup[q]
    BY <2>1 DEF IInv, TypeOK
  <2>3. TypeOK'
    BY <2>1, <2>2 DEF IInv, TypeOK, InstallationInfo
  <2>4. Known'
    BY <1>1, <2>2 DEF IInv, Known, InstallationInfo
  <2>5. Brought'
    BY <2>1, <2>2 DEF IInv, Brought, InstallationInfo
  <2> QED
    BY <2>3, <2>4, <2>5, SpentKept, InTimeKept, TapsFitKept DEF IInv, InstallationInfo
<1>2. CASE gh[setup[r].inst] \notin {"active", "suspended"}
  BY <1>2, RestKept DEF InstallationInfo
<1> QED
  BY <1>1, <1>2

\* What a claim writes is the row there was, or the claimant's.
LEMMA ClaimWrites ==
  ASSUME IInv, NEW r \in Redirects, ClaimInstallationOwner(r)
  PROVE  /\ rows' \in [DOMAIN rows' -> Row]
         /\ DOMAIN rows \subseteq DOMAIN rows'
         /\ DOMAIN rows' \subseteq DOMAIN rows \cup {setup[r].inst}
         /\ \A h \in DOMAIN rows' :
              \/ h \in DOMAIN rows /\ rows'[h].owner = rows[h].owner
              \/ /\ h = setup[r].inst /\ rows'[h].owner = setup[r].user
                 /\ h \in DOMAIN rows => rows[h].owner \in {NoUser, setup[r].user}
<1> DEFINE g == setup[r].inst
           u == setup[r].user
           row == [Registered(g) EXCEPT !.owner = u, !.suspended = FALSE]
<1>1. u \in Users /\ rows \in [DOMAIN rows -> Row]
  BY DEF ClaimInstallationOwner, Idle, IInv, TypeOK
<1>2. CASE Claimable(g, u)
  <2>1. rows' = Put(rows, g, row)
    BY <1>2 DEF ClaimInstallationOwner
  <2>2. row \in Row /\ row.owner = u
    <3>1. Registered(g) \in Row
      BY RegisteredRow DEF IInv
    <3> HIDE DEF g, u
    <3> QED
      BY <1>1, <3>1 DEF Row
  <2> HIDE DEF row
  <2>3. /\ rows' \in [DOMAIN rows \cup {g} -> Row] /\ rows'[g] = row
        /\ \A h \in DOMAIN rows \ {g} : rows'[h] = rows[h]
    BY <1>1, <2>1, <2>2 DEF Put
  <2> QED
    BY <1>2, <2>2, <2>3 DEF Claimable
<1>3. CASE ~Claimable(g, u)
  BY <1>1, <1>3 DEF ClaimInstallationOwner
<1> QED
  BY <1>2, <1>3

LEMMA ClaimInstallationOwnerKept ==
  ASSUME IInv, NEW r \in Redirects, ClaimInstallationOwner(r)
  PROVE  IInv'
<1>1. /\ setup[r] \in [at: {"claim"}, inst: Insts, user: Users]
      /\ setup[r] # Idle
      /\ setup' = [setup EXCEPT ![r] = Idle] /\ Idle.at = "idle"
      /\ \A q \in Redirects : setup'[q] = IF q = r THEN Idle ELSE setup[q]
  BY DEF ClaimInstallationOwner, Rest, Idle, IInv, TypeOK
<1>2. gh[setup[r].inst] # "none"
  BY <1>1 DEF IInv, Known
<1>3. TypeOK'
  <2>1. setup' \in [Redirects -> {Idle} \cup
                     [at: {"info", "claim"}, inst: Insts, user: Users]]
    BY <1>1 DEF IInv, TypeOK
  <2>2. /\ DOMAIN rows' \subseteq {g \in Insts : gh[g] # "none"}
        /\ rows' \in [DOMAIN rows' -> Row]
    BY <1>1, <1>2, ClaimWrites DEF IInv, TypeOK
  <2> QED
    BY <2>1, <2>2 DEF IInv, TypeOK, ClaimInstallationOwner
<1>4. Known'
  BY <1>1 DEF IInv, Known, ClaimInstallationOwner
<1>5. Brought'
  <2>1. \E b \in brought : b.user = setup[r].user /\ b.inst = setup[r].inst
    BY <1>1 DEF IInv, Brought
  <2>2. \A h \in DOMAIN rows' : rows'[h].owner # NoUser =>
          \E b \in brought : b.user = rows'[h].owner /\ b.inst = h
    BY <2>1, ClaimWrites DEF IInv, Brought
  <2> QED
    BY <1>1, <2>2 DEF IInv, Brought, ClaimInstallationOwner
<1> QED
  BY <1>3, <1>4, <1>5, SpentKept, InTimeKept, TapsFitKept DEF IInv, ClaimInstallationOwner

\* A caller back with an answer, or without one.
LEMMA ReturnKept ==
  ASSUME IInv, NEW c \in Callers, Return(c),
         UNCHANGED <<now, gh, hooks, rows, claims, conns, taps>>
  PROVE  IInv'
<1>1. /\ calls' = [calls EXCEPT ![c] = Idle]
      /\ \A d \in Callers : calls'[d] = IF d = c THEN Idle ELSE calls[d]
  BY DEF Return, IInv, TypeOK
<1>2. TypeOK'
  BY <1>1 DEF IInv, TypeOK, claims
<1>3. InTime'
  BY <1>1 DEF IInv, InTime
<1> QED
  BY <1>2, <1>3, KnownKept, BroughtKept, SpentKept, TapsFitKept DEF IInv, claims

LEMMA CallEndsKept ==
  ASSUME IInv, NEW c \in Callers, CallEnds(c)
  PROVE  IInv'
BY ReturnKept DEF CallEnds

\* What a caller sets out to do, with the time it has for it.
LEMMA CallMoves ==
  ASSUME IInv, NEW c \in Callers, NEW call,
         \/ call \in [at: {"mint"}, inst: Insts, since: 0..MaxTime]
         \/ /\ call \in [at: {"put", "use"}, inst: Insts, expires: 0..(MaxTime + Life),
                         since: 0..MaxTime]
            /\ call.since + Request < call.expires,
         call.since <= now /\ now <= call.since + Request,
         calls' = [calls EXCEPT ![c] = call],
         UNCHANGED <<now, gh, hooks, claims, conns, taps>>,
         rows' \in [DOMAIN rows' -> Row], DOMAIN rows' = DOMAIN rows,
         \A g \in DOMAIN rows : rows'[g].owner = rows[g].owner
  PROVE  IInv'
<1>1. /\ calls'[c] = call
      /\ \A d \in Callers \ {c} : calls'[d] = calls[d]
  BY DEF IInv, TypeOK
<1>2. TypeOK'
  <2>1. calls' \in [Callers -> {Idle} \cup
          [at: {"mint"}, inst: Insts, since: 0..MaxTime] \cup
          [at: {"put", "use"}, inst: Insts, expires: 0..(MaxTime + Life), since: 0..MaxTime]]
    BY DEF IInv, TypeOK
  <2> QED
    BY <2>1 DEF IInv, TypeOK, claims
<1>3. InTime'
  BY <1>1 DEF IInv, InTime
<1>4. Brought'
  BY DEF IInv, Brought, claims
<1> QED
  BY <1>2, <1>3, <1>4, KnownKept, SpentKept, TapsFitKept DEF IInv, claims

\* A cached token is used with the margin a request may take.
LEMMA GetTokenKept ==
  ASSUME IInv, NEW c \in Callers, NEW g \in Insts, GetToken(c, g)
  PROVE  IInv'
<1>1. /\ UNCHANGED <<now, gh, hooks, claims, conns, taps>> /\ rows' = rows
      /\ rows \in [DOMAIN rows -> Row]
      /\ now \in 0..MaxTime
  BY DEF GetToken, IInv, TypeOK
<1>2. CASE Fresh(CachedExpiry(g))
  <2> DEFINE call == [at |-> "use", inst |-> g, expires |-> CachedExpiry(g), since |-> now]
  <2>1. calls' = [calls EXCEPT ![c] = call]
    BY <1>2 DEF GetToken, Using
  <2>2. CachedExpiry(g) \in 0..(MaxTime + Life) /\ now + Request < CachedExpiry(g)
    BY <1>1, <1>2, CachedExpiryType, TimeAssumption DEF Fresh, IInv
  <2>3. /\ call \in [at: {"put", "use"}, inst: Insts, expires: 0..(MaxTime + Life),
                     since: 0..MaxTime]
        /\ call.since + Request < call.expires
        /\ call.since <= now /\ now <= call.since + Request
    BY <1>1, <2>2, TimeAssumption
  <2> HIDE DEF call
  <2> QED
    BY <1>1, <2>1, <2>3, CallMoves
<1>3. CASE ~Fresh(CachedExpiry(g))
  <2> DEFINE call == [at |-> "mint", inst |-> g, since |-> now]
  <2>1. calls' = [calls EXCEPT ![c] = call]
    BY <1>3 DEF GetToken
  <2>2. /\ call \in [at: {"mint"}, inst: Insts, since: 0..MaxTime]
        /\ call.since <= now /\ now <= call.since + Request
    BY <1>1, TimeAssumption
  <2> HIDE DEF call
  <2> QED
    BY <1>1, <2>1, <2>2, CallMoves
<1> QED
  BY <1>2, <1>3

\* A new token lives longer than a request takes.
LEMMA MintKept ==
  ASSUME IInv, NEW c \in Callers, Mint(c)
  PROVE  IInv'
<1>1. CASE gh[calls[c].inst] = "active"
  <2> DEFINE call == [at |-> "put", inst |-> calls[c].inst, expires |-> now + Life,
                      since |-> now]
  <2>1. calls' = [calls EXCEPT ![c] = call]
    BY <1>1 DEF Mint, IInv, TypeOK
  <2>2. /\ UNCHANGED <<now, gh, hooks, claims, conns, taps>> /\ rows' = rows
        /\ rows \in [DOMAIN rows -> Row]
        /\ now \in 0..MaxTime /\ calls[c].inst \in Insts
    BY DEF Mint, Idle, IInv, TypeOK
  <2>3. /\ call \in [at: {"put", "use"}, inst: Insts, expires: 0..(MaxTime + Life),
                     since: 0..MaxTime]
        /\ call.since + Request < call.expires
        /\ call.since <= now /\ now <= call.since + Request
    BY <2>2, TimeAssumption
  <2> HIDE DEF call
  <2> QED
    BY <2>1, <2>2, <2>3, CallMoves
<1>2. CASE gh[calls[c].inst] # "active"
  BY <1>2, ReturnKept DEF Mint
<1> QED
  BY <1>1, <1>2

LEMMA PutTokenWrites ==
  ASSUME IInv, NEW c \in Callers, PutToken(c)
  PROVE  /\ rows' \in [DOMAIN rows -> Row] /\ DOMAIN rows' = DOMAIN rows
         /\ \A g \in DOMAIN rows : rows'[g].owner = rows[g].owner
<1> DEFINE g == calls[c].inst
<1>0. /\ rows \in [DOMAIN rows -> Row]
      /\ calls[c] \in [at: {"put", "use"}, inst: Insts, expires: 0..(MaxTime + Life),
                       since: 0..MaxTime]
  BY DEF PutToken, Idle, IInv, TypeOK
<1>1. CASE g \in DOMAIN rows
  <2>1. rows' = [rows EXCEPT ![g].expires = calls[c].expires]
    BY <1>1 DEF PutToken
  <2>2. [rows[g] EXCEPT !.expires = calls[c].expires] \in Row
    BY <1>0, <1>1 DEF Row
  <2> QED
    BY <1>0, <1>1, <2>1, <2>2 DEF Row
<1>2. CASE g \notin DOMAIN rows
  BY <1>0, <1>2 DEF PutToken
<1> QED
  BY <1>1, <1>2

LEMMA PutTokenKept ==
  ASSUME IInv, NEW c \in Callers, PutToken(c)
  PROVE  IInv'
<1> DEFINE call == [calls[c] EXCEPT !.at = "use"]
<1>1. /\ UNCHANGED <<now, gh, hooks, claims, conns, taps>>
      /\ rows \in [DOMAIN rows -> Row] /\ now \in 0..MaxTime
      /\ calls[c] # Idle
      /\ calls[c] \in [at: {"put", "use"}, inst: Insts, expires: 0..(MaxTime + Life),
                       since: 0..MaxTime]
  BY DEF PutToken, Idle, IInv, TypeOK
<1>2. calls' = [calls EXCEPT ![c] = call]
  BY DEF PutToken
<1>3. /\ call \in [at: {"put", "use"}, inst: Insts, expires: 0..(MaxTime + Life),
                   since: 0..MaxTime]
      /\ call.since + Request < call.expires
      /\ call.since <= now /\ now <= call.since + Request
  BY <1>1 DEF PutToken, IInv, InTime
<1> HIDE DEF call
<1> QED
  BY <1>1, <1>2, <1>3, PutTokenWrites, CallMoves

\* Fewer connections of fewer users leave no less room.
LEMMA FewerUnused ==
  ASSUME TapsFit, UNCHANGED taps, NEW u \in Users, Unused(u)' \subseteq Unused(u)
  PROVE  /\ IsFiniteSet(Unused(u)')
         /\ Cardinality(Unused(u)') + Cardinality(Creating(u)') <= Cardinality(Taps)
<1>1. /\ IsFiniteSet(Unused(u)') /\ Cardinality(Unused(u)') \in Nat
      /\ Cardinality(Unused(u)) \in Nat
      /\ Cardinality(Unused(u)') <= Cardinality(Unused(u))
  BY FS_Subset, FS_CardinalityType DEF TapsFit
<1>2. Creating(u)' = Creating(u)
  BY DEF Creating
<1> QED
  BY <1>1, <1>2, Sizes DEF TapsFit

\* A tap that sets out to make one found none.
LEMMA ConnectionForSetupKept ==
  ASSUME IInv, NEW k \in Taps, NEW u \in Users, ConnectionForSetup(k, u)
  PROVE  IInv'
<1> DEFINE tap == [at |-> "create", user |-> u]
<1>1. /\ taps' = [taps EXCEPT ![k] = tap] /\ Unused(u) = {} /\ conns' = conns
      /\ \A j \in Taps : taps'[j] = IF j = k THEN tap ELSE taps[j]
  BY DEF ConnectionForSetup, Reusable, IInv, TypeOK
<1>2. TypeOK'
  BY <1>1 DEF IInv, TypeOK, ConnectionForSetup, claims
<1>3. TapsFit'
  <2> SUFFICES ASSUME NEW v \in Users
               PROVE  /\ IsFiniteSet(Unused(v)')
                      /\ Cardinality(Unused(v)') + Cardinality(Creating(v)') <= Cardinality(Taps)
    BY DEF TapsFit
  <2>1. Unused(v)' = Unused(v)
    BY <1>1 DEF Unused
  <2>2. CASE v = u
    <3>1. /\ Creating(v)' \in SUBSET Taps /\ IsFiniteSet(Taps)
      BY TapsAssumption DEF Creating
    <3>2. Cardinality(Creating(v)') \in Nat /\ Cardinality(Creating(v)') <= Cardinality(Taps)
      BY <3>1, FS_Subset, FS_CardinalityType
    <3>3. Unused(v)' = {}
      BY <1>1, <2>1, <2>2
    <3>4. IsFiniteSet(Unused(v)') /\ Cardinality(Unused(v)') = 0
      BY <3>3, FS_EmptySet
    <3> QED
      BY <3>2, <3>4, Sizes
  <2>3. CASE v # u
    <3>1. Creating(v)' \subseteq Creating(v)
      BY <1>1, <2>3 DEF Creating
    <3>2. Cardinality(Creating(v)') \in Nat /\ Cardinality(Creating(v)') <= Cardinality(Creating(v))
      BY <3>1, Sizes, FS_Subset, FS_CardinalityType
    <3>3. Cardinality(Unused(v)) \in Nat
      BY FS_CardinalityType DEF IInv, TapsFit
    <3> QED
      BY <2>1, <3>2, <3>3, Sizes DEF IInv, TapsFit
  <2> QED
    BY <2>2, <2>3
<1> QED
  BY <1>2, <1>3, KnownKept, BroughtKept, SpentKept, InTimeKept DEF IInv, ConnectionForSetup, claims

\* A tap that makes one is no longer about to.
LEMMA CreateConnectionKept ==
  ASSUME IInv, NEW k \in Taps, CreateConnection(k)
  PROVE  IInv'
<1> DEFINE u == taps[k].user
           conn == [owner |-> u, used |-> FALSE]
<1>1. PICK i \in Conns \ DOMAIN conns : conns' = Put(conns, i, conn)
  BY DEF CreateConnection
<1>2. /\ taps[k] = [at |-> "create", user |-> u] /\ u \in Users
      /\ taps' = [taps EXCEPT ![k] = Idle] /\ Idle.at = "idle"
      /\ \A j \in Taps : taps'[j] = IF j = k THEN Idle ELSE taps[j]
  BY DEF CreateConnection, Idle, IInv, TypeOK
<1>3. /\ DOMAIN conns' = DOMAIN conns \cup {i} /\ conns'[i] = conn
      /\ \A j \in DOMAIN conns : conns'[j] = conns[j]
      /\ conns' \in [DOMAIN conns' -> [owner: Users, used: BOOLEAN]]
  BY <1>1, <1>2 DEF Put, IInv, TypeOK
<1>4. TypeOK'
  <2>1. taps' \in [Taps -> {Idle} \cup [at: {"create"}, user: Users]]
    BY <1>2 DEF IInv, TypeOK
  <2>2. DOMAIN conns' \subseteq Conns
    BY <1>3 DEF IInv, TypeOK
  <2> QED
    BY <1>3, <2>1, <2>2 DEF IInv, TypeOK, CreateConnection, claims
<1>5. TapsFit'
  <2> SUFFICES ASSUME NEW v \in Users
               PROVE  /\ IsFiniteSet(Unused(v)')
                      /\ Cardinality(Unused(v)') + Cardinality(Creating(v)') <= Cardinality(Taps)
    BY DEF TapsFit
  <2>0. /\ IsFiniteSet(Unused(v)) /\ Cardinality(Unused(v)) \in Nat
        /\ Cardinality(Unused(v)) + Cardinality(Creating(v)) <= Cardinality(Taps)
    BY FS_CardinalityType DEF IInv, TapsFit
  <2>1. CASE v = u
    <3>1. Unused(v)' = Unused(v) \cup {i} /\ i \notin Unused(v)
      BY <1>3, <2>1 DEF Unused
    <3>2. /\ IsFiniteSet(Unused(v)')
          /\ Cardinality(Unused(v)') = Cardinality(Unused(v)) + 1
      BY <2>0, <3>1, FS_AddElement
    <3>3. Creating(v)' = Creating(v) \ {k} /\ k \in Creating(v)
      BY <1>2, <2>1 DEF Creating, Idle
    <3>4. Cardinality(Creating(v)') = Cardinality(Creating(v)) - 1
      BY <3>3, Sizes, FS_RemoveElement
    <3> QED
      BY <2>0, <3>2, <3>4, Sizes
  <2>2. CASE v # u
    <3>1. Unused(v)' = Unused(v)
      BY <1>3, <2>2 DEF Unused
    <3>2. Creating(v)' = Creating(v)
      BY <1>2, <2>2 DEF Creating, Idle
    <3> QED
      BY <2>0, <3>1, <3>2
  <2> QED
    BY <2>1, <2>2
<1> QED
  BY <1>4, <1>5, KnownKept, BroughtKept, SpentKept, InTimeKept DEF IInv, CreateConnection, claims

LEMMA RememberProjectKept ==
  ASSUME IInv, NEW i \in Conns, RememberProject(i)
  PROVE  IInv'
<1>1. /\ i \in DOMAIN conns /\ conns' = [conns EXCEPT ![i].used = TRUE] /\ taps' = taps
      /\ conns' \in [DOMAIN conns' -> [owner: Users, used: BOOLEAN]]
      /\ DOMAIN conns' = DOMAIN conns
  BY DEF RememberProject, IInv, TypeOK
<1>2. TypeOK'
  BY <1>1 DEF IInv, TypeOK, RememberProject, claims
<1>3. \A u \in Users : Unused(u)' \subseteq Unused(u)
  BY <1>1 DEF Unused, IInv, TypeOK
<1>4. TapsFit'
  BY <1>1, <1>3, FewerUnused DEF IInv, TapsFit
<1> QED
  BY <1>2, <1>4, KnownKept, BroughtKept, SpentKept, InTimeKept DEF IInv, RememberProject, claims

LEMMA DeleteConnectionKept ==
  ASSUME IInv, NEW i \in Conns, NEW u \in Users, DeleteConnection(i, u)
  PROVE  IInv'
<1>1. /\ DOMAIN conns' = DOMAIN conns \ {i} /\ taps' = taps
      /\ \A j \in DOMAIN conns' : conns'[j] = conns[j]
      /\ conns' \in [DOMAIN conns' -> [owner: Users, used: BOOLEAN]]
  BY DEF DeleteConnection, Without, IInv, TypeOK
<1>2. TypeOK'
  BY <1>1 DEF IInv, TypeOK, DeleteConnection, claims
<1>3. \A v \in Users : Unused(v)' \subseteq Unused(v)
  BY <1>1 DEF Unused
<1>4. TapsFit'
  BY <1>1, <1>3, FewerUnused DEF IInv, TapsFit
<1> QED
  BY <1>2, <1>4, KnownKept, BroughtKept, SpentKept, InTimeKept DEF IInv, DeleteConnection, claims

\* Time passes only while every request may still take longer.
LEMMA TickKept ==
  ASSUME IInv, Tick
  PROVE  IInv'
<1>1. TypeOK'
  BY TimeAssumption DEF IInv, TypeOK, Tick, claims
<1>2. InTime'
  <2> SUFFICES ASSUME NEW c \in Callers, calls[c] # Idle
               PROVE  /\ calls[c].since <= now + 1 /\ now + 1 <= calls[c].since + Request
    BY DEF IInv, InTime, Tick
  <2>1. calls[c].since \in Nat /\ now \in Nat /\ Request \in Nat
    BY TimeAssumption DEF IInv, TypeOK
  <2> QED
    BY <2>1 DEF IInv, InTime, Tick
<1> QED
  BY <1>1, <1>2, KnownKept, BroughtKept, SpentKept, TapsFitKept DEF IInv, Tick, claims

LEMMA StutterKept ==
  ASSUME IInv, UNCHANGED vars
  PROVE  IInv'
BY KnownKept, BroughtKept, SpentKept, InTimeKept, TapsFitKept DEF IInv, vars, claims, TypeOK

-----------------------------------------------------------------------------
(***************************************************************************)
(* The theorems.                                                           *)
(***************************************************************************)

\* Every action keeps the invariant.
THEOREM Invariance == Spec => []IInv
<1>1. Init => IInv
  BY InitHolds
<1>2. IInv /\ [Next]_vars => IInv'
  <2> SUFFICES ASSUME IInv, [Next]_vars PROVE IInv'
    OBVIOUS
  <2>1. CASE Lifecycle
    BY <2>1, GitHubKept, HandleInstallationKept DEF Lifecycle
  <2>2. CASE Setup
    BY <2>2, NewInstallStateKept, TakeInstallStateKept, InstallationInfoKept,
       ClaimInstallationOwnerKept, SetupFailsKept DEF Setup
  <2>3. CASE InstallationToken
    BY <2>3, GetTokenKept, MintKept, PutTokenKept, CallEndsKept DEF InstallationToken
  <2>4. CASE Connect
    BY <2>4, ConnectionForSetupKept, CreateConnectionKept, RememberProjectKept,
       DeleteConnectionKept DEF Connect
  <2>5. CASE Tick
    BY <2>5, TickKept
  <2>6. CASE UNCHANGED vars
    BY <2>6, StutterKept
  <2> QED
    BY <2>1, <2>2, <2>3, <2>4, <2>5, <2>6 DEF Next
<1> QED
  BY <1>1, <1>2, PTL DEF Spec

\* The tables hold rows of their types, whatever ids the redirect is called
\* with.
THEOREM TypeCorrect == Spec => []TypeOK
<1>1. IInv => TypeOK
  BY DEF IInv
<1> QED
  BY <1>1, Invariance, PTL

\* Every owner came through a link made for them, and a link claims once.
THEOREM OwnersCameThroughLinks == Spec => []OwnedThroughLink
<1>1. IInv => OwnedThroughLink
  BY DEF IInv, Brought, Spent, OwnedThroughLink
<1> QED
  BY <1>1, Invariance, PTL

\* While an installation's row exists its owner stays.
THEOREM OwnershipNeverTransfers == Spec => OwnerNeverReplaced
<1> DEFINE Stays == \A g \in DOMAIN rows \cap DOMAIN rows' :
                      rows[g].owner # NoUser => rows'[g].owner = rows[g].owner
<1>1. IInv /\ [Next]_vars => Stays
  <2> SUFFICES ASSUME IInv, [Next]_vars PROVE Stays
    OBVIOUS
  <2>1. CASE rows' = rows
    BY <2>1
  <2>2. ASSUME NEW g \in Insts, NEW kind \in Kinds, HandleInstallation(g, kind)
        PROVE  Stays
    BY <2>2, HandleInstallationWrites
  <2>3. ASSUME NEW r \in Redirects, ClaimInstallationOwner(r)
        PROVE  Stays
    BY <2>3, ClaimWrites
  <2>4. ASSUME NEW c \in Callers, PutToken(c)
        PROVE  Stays
    BY <2>4, PutTokenWrites
  <2>5. CASE Lifecycle
    BY <2>1, <2>2, <2>5 DEF Lifecycle, GitHub
  <2>6. CASE Setup
    BY <2>1, <2>3, <2>6 DEF Setup, NewInstallState, TakeInstallState, InstallationInfo, SetupFails
  <2>7. CASE InstallationToken
    BY <2>1, <2>4, <2>7 DEF InstallationToken, GetToken, Mint, CallEnds
  <2>8. CASE Connect
    BY <2>1, <2>8 DEF Connect, ConnectionForSetup, CreateConnection, RememberProject, DeleteConnection
  <2>9. CASE Tick \/ UNCHANGED vars
    BY <2>1, <2>9 DEF Tick, vars
  <2> QED
    BY <2>5, <2>6, <2>7, <2>8, <2>9 DEF Next
<1>2. Spec => [][Next]_vars
  BY PTL DEF Spec
<1> QED
  BY <1>1, <1>2, Invariance, PTL DEF OwnerNeverReplaced

\* No token expires while a request made with it is under way.
THEOREM TokensOutliveRequests == Spec => []TokenOutlivesRequest
<1>1. IInv => TokenOutlivesRequest
  <2> SUFFICES ASSUME IInv, NEW c \in Callers, calls[c].at = "use"
               PROVE  now < calls[c].expires
    BY DEF TokenOutlivesRequest
  <2>1. calls[c] # Idle /\ now \in Nat
    BY TimeAssumption DEF Idle, IInv, TypeOK
  <2>2. calls[c].since \in Nat /\ calls[c].expires \in Nat /\ Request \in Nat
    BY <2>1, TimeAssumption DEF IInv, TypeOK
  <2> QED
    BY <2>1, <2>2 DEF IInv, InTime
<1> QED
  BY <1>1, Invariance, PTL

\* No user has more unused connections than taps are served at once.
THEOREM UnusedConnectionsBounded == Spec => []UnusedBounded
<1>1. IInv => UnusedBounded
  <2> SUFFICES ASSUME IInv, NEW u \in Users
               PROVE  Cardinality(Unused(u)) <= Cardinality(Taps)
    BY DEF UnusedBounded
  <2>1. Cardinality(Unused(u)) \in Nat
    BY FS_CardinalityType DEF IInv, TapsFit
  <2> QED
    BY <2>1, Sizes DEF IInv, TapsFit
<1> QED
  BY <1>1, Invariance, PTL

=============================================================================
