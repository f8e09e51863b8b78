---------------------------- MODULE IngestProofs ----------------------------
(***************************************************************************)
(* Proofs about what reaches the outbox: for any deliveries, connections   *)
(* and integrations, any number of requests served at once, whatever is    *)
(* changed or deleted meanwhile and whatever fails.                        *)
(***************************************************************************)
EXTENDS Ingest, FiniteSetTheorems, TLAPS

(***************************************************************************)
(* The inductive invariant.  A handler works from where its delivery was   *)
(* recorded; an integration is fresh to it until it has put a row there.   *)
(***************************************************************************)

Labels == {"idle", "remember", "dedup", "installation", "find", "loop", "filters",
           "actor", "star", "enqueue"}
AtOne  == {"filters", "actor", "star", "enqueue"}

Working(h) == pc[h] \in {"installation", "find", "loop"} \cup AtOne
Fresh(h, i) == pc[h] \in {"installation", "find"} \/ i \in todo[h] \/ at[h] = i

\* TypeOK in parts.
StoreOK ==
  /\ connections \subseteq Connections /\ live \subseteq Integrations
  /\ \A i \in live : ConnectionOf[i] \in connections
  /\ broken \subseteq live /\ muted \subseteq Chats
  /\ disabled \subseteq live \X {"event", "star"}
  /\ ignored \subseteq live \X Actors
  /\ recorded \subseteq {Key(p) : p \in Posts}
  /\ starred \subseteq live \X Actors

QueueOK == queued \in [Integrations -> [Posts -> Nat]]

ForgeOK ==
  /\ sent \in [Posts -> 0..MaxSends]
  /\ answer \in [Posts -> {"none", "ok", "error"}]

HandlersOK ==
  /\ pc \in [Handlers -> Labels]
  /\ post \in [Handlers -> Posts \cup {Nothing}]
  /\ todo \in [Handlers -> SUBSET Integrations]
  /\ at \in [Handlers -> Integrations \cup {Nothing}]
  /\ \A h \in Handlers :
       /\ pc[h] = "idle" <=> post[h] = Nothing
       /\ pc[h] \in AtOne <=> at[h] # Nothing
       /\ at[h] \notin todo[h]
       /\ pc[h] = "filters" => post[h].kind # "star"

\* Whoever works on a delivery has recorded it, and nobody else works on it.
Owned ==
  /\ \A h \in Handlers : Working(h) => Key(post[h]) \in recorded
  /\ \A g, h \in Handlers :
       Working(g) /\ Working(h) /\ Key(post[g]) = Key(post[h]) => g = h

\* A row is put only for a recorded delivery, and where it is not there yet.
Rows ==
  \A i \in Integrations, p \in Posts :
    /\ queued[i][p] <= 1
    /\ Key(p) \notin recorded => queued[i][p] = 0
    /\ \A h \in Handlers : Working(h) /\ post[h] = p /\ Fresh(h, i) => queued[i][p] = 0

\* The handlers told that the actor is new to the integration.
Asked(i, a) ==
  {h \in Handlers : /\ pc[h] \in {"star", "enqueue"} /\ at[h] = i
                    /\ post[h].kind = "star" /\ post[h].actor = a}

\* They and the rows already there are as many as handlers at most, and before
\* the actor is marked there is no row and nobody about to put one.
Stars ==
  \A i \in live, a \in Actors :
    /\ IsFiniteSet(StarRows(i, a))
    /\ Cardinality(StarRows(i, a)) + Cardinality(Asked(i, a)) <= Cardinality(Handlers)
    /\ <<i, a>> \notin starred =>
         StarRows(i, a) = {} /\ \A h \in Asked(i, a) : pc[h] = "star"

Types == StoreOK /\ QueueOK /\ HandlersOK /\ ForgeOK
IInv  == Types /\ Owned /\ Rows /\ Stars

-----------------------------------------------------------------------------
(***************************************************************************)
(* Lemmas about the parts.                                                 *)
(***************************************************************************)

\* The parts give TypeOK.
LEMMA TypesGiveTypeOK == Types => TypeOK
<1> SUFFICES ASSUME Types PROVE TypeOK
  OBVIOUS
<1>1. ASSUME NEW h \in Handlers
      PROVE  /\ pc[h] \in Labels
             /\ post[h] \in IF pc[h] = "idle" THEN {Nothing} ELSE Posts
             /\ at[h] \in IF pc[h] \in AtOne THEN Integrations ELSE {Nothing}
             /\ todo[h] \subseteq Integrations
  BY DEF Types, HandlersOK
<1> QED
  BY <1>1 DEF Types, TypeOK, StoreOK, QueueOK, ForgeOK, Labels, AtOne

\* Sets of handlers have sizes.
LEMMA Sizes ==
  ASSUME NEW S \in SUBSET Handlers
  PROVE  /\ IsFiniteSet(S) /\ Cardinality(S) \in Nat /\ Cardinality(Handlers) \in Nat
         /\ Cardinality(S) <= Cardinality(Handlers)
         /\ \A T \in SUBSET S : Cardinality(T) <= Cardinality(S) /\ Cardinality(T) \in Nat
<1>1. IsFiniteSet(S)
  BY HandlersAssumption, FS_Subset
<1> QED
  BY <1>1, HandlersAssumption, FS_Subset, FS_CardinalityType

\* Where nothing is queued or recorded and nobody has more before them.
LEMMA OwnedKept ==
  ASSUME Owned, Rows, UNCHANGED <<queued, recorded>>,
         \A h \in Handlers : Working(h)' =>
           /\ Working(h) /\ post'[h] = post[h]
           /\ \A i \in Integrations : Fresh(h, i)' => Fresh(h, i)
  PROVE  Owned' /\ Rows'
<1>1. Owned'
  BY DEF Owned, Key
<1>2. Rows'
  BY DEF Rows, Key
<1> QED
  BY <1>1, <1>2

\* Where nothing is queued, nobody more has asked, and who goes on marks.
LEMMA StarsKept ==
  ASSUME Stars, UNCHANGED queued, live' \subseteq live,
         \A i \in live', a \in Actors :
           /\ Asked(i, a)' \subseteq Asked(i, a)
           /\ <<i, a>> \notin starred' =>
                <<i, a>> \notin starred /\ \A h \in Asked(i, a)' : pc'[h] = pc[h]
  PROVE  Stars'
<1> SUFFICES ASSUME NEW i \in live', NEW a \in Actors
             PROVE  /\ IsFiniteSet(StarRows(i, a)')
                    /\ Cardinality(StarRows(i, a)') + Cardinality(Asked(i, a)')
                         <= Cardinality(Handlers)
                    /\ <<i, a>> \notin starred' =>
                         StarRows(i, a)' = {} /\ \A h \in Asked(i, a)' : pc'[h] = "star"
  BY DEF Stars, Actors
<1>1. StarRows(i, a)' = StarRows(i, a) /\ i \in live
  BY DEF StarRows
<1>2. /\ IsFiniteSet(StarRows(i, a))
      /\ Cardinality(StarRows(i, a)) + Cardinality(Asked(i, a)) <= Cardinality(Handlers)
      /\ <<i, a>> \notin starred =>
           StarRows(i, a) = {} /\ \A h \in Asked(i, a) : pc[h] = "star"
  BY <1>1 DEF Stars
<1>3. Asked(i, a) \in SUBSET Handlers /\ Asked(i, a)' \in SUBSET Asked(i, a)
  <2>1. Asked(i, a) \in SUBSET Handlers
    BY DEF Asked
  <2> QED
    BY <2>1
<1>4. /\ Cardinality(Asked(i, a)') <= Cardinality(Asked(i, a))
      /\ Cardinality(Asked(i, a)') \in Nat /\ Cardinality(Asked(i, a)) \in Nat
      /\ Cardinality(StarRows(i, a)) \in Nat /\ Cardinality(Handlers) \in Nat
  BY <1>2, <1>3, Sizes, FS_CardinalityType
<1>5. Cardinality(StarRows(i, a)) + Cardinality(Asked(i, a)') <= Cardinality(Handlers)
  BY <1>2, <1>4
<1> QED
  BY <1>1, <1>2, <1>3, <1>5

\* A handler as it was, and one that is done.
Stays(h) == pc'[h] = pc[h] /\ post'[h] = post[h] /\ todo'[h] = todo[h] /\ at'[h] = at[h]
Done(h)  == pc'[h] = "idle" /\ post'[h] = Nothing /\ todo'[h] = {} /\ at'[h] = Nothing

\* Handlers that stay or are done disturb nothing.
LEMMA Released ==
  ASSUME Owned, Rows, Stars, UNCHANGED <<queued, recorded>>, live' \subseteq live,
         \A i \in live', a \in Actors : <<i, a>> \in starred => <<i, a>> \in starred',
         \A h \in Handlers : Stays(h) \/ Done(h)
  PROVE  Owned' /\ Rows' /\ Stars'
<1>1. \A h \in Handlers : Working(h)' =>
           /\ Working(h) /\ post'[h] = post[h]
           /\ \A i \in Integrations : Fresh(h, i)' => Fresh(h, i)
  BY DEF Stays, Done, Working, Fresh, AtOne
<1>2. \A i, a : /\ Asked(i, a)' \subseteq Asked(i, a)
                /\ \A h \in Asked(i, a)' : pc'[h] = pc[h]
  BY DEF Stays, Done, Asked
<1>3. Owned' /\ Rows'
  BY <1>1, OwnedKept
<1>4. Stars'
  BY <1>2, StarsKept
<1> QED
  BY <1>3, <1>4

\* One handler goes on: where to, with which post, what is left, at which one.
Move(h, l, p, T, i) ==
  /\ pc' = [pc EXCEPT ![h] = l] /\ post' = [post EXCEPT ![h] = p]
  /\ todo' = [todo EXCEPT ![h] = T] /\ at' = [at EXCEPT ![h] = i]

\* It is the only one, and is then as it is told to be.
LEMMA Moves ==
  ASSUME HandlersOK, NEW h \in Handlers, NEW l \in Labels \ {"idle"}, NEW p \in Posts,
         NEW T \in SUBSET Integrations, NEW i \in Integrations \cup {Nothing},
         Move(h, l, p, T, i), i \notin T, l \in AtOne <=> i # Nothing,
         l = "filters" => p.kind # "star"
  PROVE  /\ HandlersOK'
         /\ \A g \in Handlers : g # h => Stays(g)
         /\ pc'[h] = l /\ post'[h] = p /\ todo'[h] = T /\ at'[h] = i
<1>1. /\ pc' \in [Handlers -> Labels] /\ post' \in [Handlers -> Posts \cup {Nothing}]
      /\ todo' \in [Handlers -> SUBSET Integrations]
      /\ at' \in [Handlers -> Integrations \cup {Nothing}]
  BY DEF Move, HandlersOK
<1>2. /\ \A g \in Handlers : g # h => Stays(g)
      /\ pc'[h] = l /\ post'[h] = p /\ todo'[h] = T /\ at'[h] = i
  BY DEF Move, HandlersOK, Stays
<1>3. p # Nothing
  BY NothingAssumption
<1>4. \A g \in Handlers :
       /\ pc'[g] = "idle" <=> post'[g] = Nothing
       /\ pc'[g] \in AtOne <=> at'[g] # Nothing
       /\ at'[g] \notin todo'[g]
       /\ pc'[g] = "filters" => post'[g].kind # "star"
  <2> TAKE g \in Handlers
  <2>1. CASE g = h
    BY <1>2, <1>3, <2>1
  <2>2. CASE g # h
    BY <1>2, <2>2 DEF HandlersOK, Stays
  <2> QED
    BY <2>1, <2>2
<1> QED
  BY <1>1, <1>2, <1>4 DEF HandlersOK

\* A handler that goes on with what it had.
LEMMA Onward ==
  ASSUME HandlersOK, NEW h \in Handlers, NEW l, pc[h] # "idle", Goto(h, l)
  PROVE  /\ post[h] \in Posts
         /\ UNCHANGED <<post, todo, at>> => Move(h, l, post[h], todo[h], at[h])
<1>1. /\ post = [post EXCEPT ![h] = post[h]] /\ todo = [todo EXCEPT ![h] = todo[h]]
      /\ at = [at EXCEPT ![h] = at[h]] /\ post[h] \in Posts
  BY DEF HandlersOK
<1> QED
  BY <1>1 DEF Goto, Move

\* A request that is answered.
LEMMA Answers ==
  ASSUME HandlersOK, ForgeOK, NEW h \in Handlers, pc[h] # "idle",
         NEW a \in {"ok", "error"}, Answer(h, a)
  PROVE  HandlersOK' /\ ForgeOK' /\ \A g \in Handlers : Stays(g) \/ Done(g)
<1>1. \A g \in Handlers : IF g = h THEN Done(g) ELSE Stays(g)
  BY DEF Answer, HandlersOK, Stays, Done
<1>2. /\ pc' \in [Handlers -> Labels] /\ post' \in [Handlers -> Posts \cup {Nothing}]
      /\ todo' \in [Handlers -> SUBSET Integrations]
      /\ at' \in [Handlers -> Integrations \cup {Nothing}]
  BY DEF Answer, HandlersOK, Labels
<1>3. HandlersOK'
  BY <1>1, <1>2 DEF HandlersOK, Stays, Done, AtOne
<1>4. post[h] \in Posts
  BY DEF HandlersOK
<1>5. ForgeOK'
  <2>1. sent' = sent
    BY DEF Answer
  <2>2. answer' = [answer EXCEPT ![post[h]] = IF @ = "ok" THEN @ ELSE a]
    BY DEF Answer
  <2>3. answer \in [Posts -> {"none", "ok", "error"}]
    BY DEF ForgeOK
  <2>4. answer' \in [Posts -> {"none", "ok", "error"}]
    BY <1>4, <2>2, <2>3
  <2> QED
    BY <2>1, <2>4 DEF ForgeOK
<1> QED
  BY <1>1, <1>3, <1>5

\* An answer that changes no table.
LEMMA JustAnswers ==
  ASSUME IInv, NEW h \in Handlers, pc[h] # "idle", NEW a \in {"ok", "error"}, Answer(h, a),
         UNCHANGED <<store, queued>>
  PROVE  IInv'
<1>1. HandlersOK' /\ ForgeOK' /\ \A g \in Handlers : Stays(g) \/ Done(g)
  BY Answers DEF IInv, Types
<1>2. UNCHANGED <<connections, live, muted, disabled, ignored, broken, recorded, starred, queued>>
  BY DEF store, settings
<1>3. StoreOK' /\ QueueOK'
  BY <1>2 DEF IInv, Types, StoreOK, QueueOK, Actors, Key
<1>4. Owned' /\ Rows' /\ Stars'
  BY <1>1, <1>2, Released DEF IInv
<1> QED
  BY <1>1, <1>3, <1>4 DEF IInv, Types

-----------------------------------------------------------------------------
(***************************************************************************)
(* The invariant holds initially, and every action keeps it.               *)
(***************************************************************************)

\* At first there is no request, and no row.
LEMMA InitHolds == Init => IInv
<1> SUFFICES ASSUME Init PROVE IInv
  OBVIOUS
<1> USE DEF Init
<1>1. StoreOK
  BY ConnectionAssumption DEF StoreOK
<1>2. QueueOK /\ ForgeOK
  BY ChangesAssumption DEF QueueOK, ForgeOK
<1>3. HandlersOK
  BY NothingAssumption DEF HandlersOK, Labels, AtOne
<1>4. Owned
  BY DEF Owned, Working, AtOne
<1>5. Rows
  BY DEF Rows, Working, AtOne
<1>6. Stars
  <2>1. \A i, a : Asked(i, a) = {}
    BY DEF Asked
  <2>2. \A i \in Integrations, a \in Actors : StarRows(i, a) = {}
    BY DEF StarRows
  <2>3. IsFiniteSet({}) /\ Cardinality({}) = 0
    BY FS_EmptySet
  <2>4. Cardinality(Handlers) \in Nat
    BY Sizes
  <2> HIDE DEF Init
  <2>5. live \subseteq Integrations
    BY <1>1 DEF StoreOK
  <2>6. \A i \in live, a \in Actors :
          /\ IsFiniteSet(StarRows(i, a))
          /\ Cardinality(StarRows(i, a)) = 0 /\ Cardinality(Asked(i, a)) = 0
          /\ StarRows(i, a) = {} /\ Asked(i, a) = {}
    BY <2>1, <2>2, <2>3, <2>5
  <2> QED
    BY <2>4, <2>6 DEF Stars
<1> QED
  BY <1>1, <1>2, <1>3, <1>4, <1>5, <1>6 DEF IInv, Types

\* Where the tables and the outbox stand still, so do their types.
LEMMA StoreKept ==
  ASSUME StoreOK, QueueOK, UNCHANGED <<store, queued>>
  PROVE  StoreOK' /\ QueueOK'
BY DEF store, settings, StoreOK, QueueOK, Actors, Key

\* A delivery sent, or sent again.
LEMMA SendKeeps ==
  ASSUME IInv, NEW h \in Handlers, NEW p \in Posts, Send(h, p)
  PROVE  IInv'
<1>0. StoreOK /\ QueueOK /\ HandlersOK /\ ForgeOK /\ Owned /\ Rows /\ Stars
  BY DEF IInv, Types
<1>1. /\ pc[h] = "idle" /\ sent[p] < MaxSends /\ sent' = [sent EXCEPT ![p] = @ + 1]
      /\ UNCHANGED <<store, queued>>
  BY DEF Send
<1>2. UNCHANGED <<live, recorded, starred, queued>>
  BY <1>1 DEF store
<1>3. StoreOK' /\ QueueOK'
  BY <1>0, <1>1, StoreKept
<1>4. ForgeOK'
  <2>1. sent' \in [Posts -> 0..MaxSends]
    <3>1. sent \in [Posts -> 0..MaxSends] /\ sent[p] + 1 \in 0..MaxSends
      BY <1>0, <1>1, ChangesAssumption DEF ForgeOK
    <3> QED
      BY <1>1, <3>1
  <2>2. answer' \in [Posts -> {"none", "ok", "error"}]
    BY <1>0 DEF Send, ForgeOK
  <2> QED
    BY <2>1, <2>2 DEF ForgeOK
<1>5. HandlersOK' /\ \A g \in Handlers : Stays(g) \/ (g = h /\ pc'[h] \in {"dedup", "remember"}
                                                        /\ todo'[h] = todo[h])
  <2>1. CASE UNCHANGED handling
    BY <1>0, <2>1 DEF HandlersOK, handling, Stays
  <2>2. CASE ~UNCHANGED handling
    <3>1. PICK l \in {"dedup", "remember"} :
            Goto(h, l) /\ post' = [post EXCEPT ![h] = p] /\ UNCHANGED <<todo, at>>
      BY <2>2 DEF Send
    <3>2. todo = [todo EXCEPT ![h] = todo[h]] /\ at = [at EXCEPT ![h] = at[h]]
      BY <1>0 DEF HandlersOK
    <3>3. Move(h, l, p, todo[h], at[h])
      BY <3>1, <3>2 DEF Move, Goto
    <3>4. /\ l \in Labels \ {"idle"} /\ todo[h] \in SUBSET Integrations
          /\ at[h] \in Integrations \cup {Nothing} /\ at[h] \notin todo[h]
          /\ l \notin AtOne /\ l # "filters" /\ at[h] = Nothing
      BY <1>0, <1>1 DEF HandlersOK, AtOne, Labels
    <3> QED
      BY <1>0, <3>3, <3>4, Moves
  <2> QED
    BY <2>1, <2>2
<1>6. Owned' /\ Rows'
  <2>1. \A g \in Handlers : Working(g)' =>
          /\ Working(g) /\ post'[g] = post[g]
          /\ \A i \in Integrations : Fresh(g, i)' => Fresh(g, i)
    BY <1>5 DEF Working, Fresh, AtOne, Stays
  <2> QED
    BY <1>0, <1>2, <2>1, OwnedKept
<1>7. Stars'
  <2>1. \A i, a : Asked(i, a)' \subseteq Asked(i, a) /\ \A g \in Asked(i, a)' : pc'[g] = pc[g]
    BY <1>5 DEF Asked, Stays
  <2> QED
    BY <1>0, <1>2, <2>1, StarsKept
<1> QED
  BY <1>3, <1>4, <1>5, <1>6, <1>7 DEF IInv, Types

\* A handler that goes on, asking nothing of anybody and putting no row.
LEMMA GoesOn ==
  ASSUME IInv, NEW h \in Handlers, NEW l \in Labels \ {"idle"},
         NEW T \in SUBSET Integrations, NEW i \in Integrations \cup {Nothing},
         Move(h, l, post[h], T, i), post[h] \in Posts,
         i \notin T, l \in AtOne <=> i # Nothing,
         l = "filters" => post[h].kind # "star",
         UNCHANGED <<store, queued, forge>>,
         l \in {"installation", "find", "loop"} \cup AtOne =>
           /\ Working(h)
           /\ l \in {"installation", "find"} => pc[h] \in {"installation", "find"}
           /\ \A j \in T : Fresh(h, j)
           /\ i # Nothing => Fresh(h, i),
         l \in {"star", "enqueue"} => post[h].kind # "star"
  PROVE  IInv'
<1>0. StoreOK /\ QueueOK /\ HandlersOK /\ ForgeOK /\ Owned /\ Rows /\ Stars
  BY DEF IInv, Types
<1>1. /\ HandlersOK' /\ \A g \in Handlers : g # h => Stays(g)
      /\ pc'[h] = l /\ post'[h] = post[h] /\ todo'[h] = T /\ at'[h] = i
  BY <1>0, Moves
<1>2. StoreOK' /\ QueueOK' /\ ForgeOK'
  BY <1>0, StoreKept DEF forge, ForgeOK
<1>3. UNCHANGED <<live, recorded, starred, queued>>
  BY DEF store
<1>4. Owned' /\ Rows'
  <2>1. ASSUME NEW g \in Handlers, Working(g)'
        PROVE  /\ Working(g) /\ post'[g] = post[g]
               /\ \A j \in Integrations : Fresh(g, j)' => Fresh(g, j)
    <3>1. CASE g # h
      BY <1>1, <2>1, <3>1 DEF Working, Fresh, Stays
    <3>2. CASE g = h
      <4>1. l \in {"installation", "find", "loop"} \cup AtOne
        BY <1>1, <2>1, <3>2 DEF Working
      <4>2. ASSUME NEW j \in Integrations, Fresh(g, j)' PROVE Fresh(g, j)
        <5>1. l \in {"installation", "find"} \/ j \in T \/ i = j
          BY <1>1, <3>2, <4>2 DEF Fresh
        <5>2. j # Nothing
          BY NothingAssumption
        <5> QED
          BY <3>2, <4>1, <5>1, <5>2 DEF Fresh
      <4> QED
        BY <1>1, <3>2, <4>1, <4>2
    <3> QED
      BY <3>1, <3>2
  <2> QED
    BY <1>0, <1>3, <2>1, OwnedKept
<1>5. Stars'
  <2>1. \A j, a : Asked(j, a)' \subseteq Asked(j, a) /\ \A g \in Asked(j, a)' : pc'[g] = pc[g]
    BY <1>1 DEF Asked, Stays
  <2> QED
    BY <1>0, <1>3, <2>1, StarsKept
<1> QED
  BY <1>1, <1>2, <1>4, <1>5 DEF IInv, Types

\* The repository of a webhook.
LEMMA RememberKeeps ==
  ASSUME IInv, NEW h \in Handlers, RememberProject(h)
  PROVE  IInv'
<1>0. HandlersOK
  BY DEF IInv, Types
<1>1. pc[h] = "remember" /\ UNCHANGED <<store, queued>>
  BY DEF RememberProject
<1>2. CASE Answer(h, "error")
  BY <1>1, <1>2, JustAnswers
<1>3. CASE Goto(h, "dedup") /\ UNCHANGED <<post, todo, at, forge>>
  <2>1. Move(h, "dedup", post[h], todo[h], at[h]) /\ post[h] \in Posts
    BY <1>0, <1>1, <1>3, Onward
  <2>2. /\ todo[h] \in SUBSET Integrations /\ at[h] = Nothing /\ at[h] \notin todo[h]
        /\ "dedup" \in Labels \ {"idle"} /\ "dedup" \notin {"installation", "find", "loop"} \cup AtOne
    BY <1>0, <1>1 DEF HandlersOK, AtOne, Labels
  <2> QED
    BY <1>1, <1>3, <2>1, <2>2, GoesOn
<1> QED
  BY <1>2, <1>3 DEF RememberProject

\* The first to record a delivery has it for itself.
LEMMA MarkDeliveredKeeps ==
  ASSUME IInv, NEW h \in Handlers, MarkDelivered(h)
  PROVE  IInv'
<1> DEFINE p == post[h]
<1>0. StoreOK /\ QueueOK /\ HandlersOK /\ ForgeOK /\ Owned /\ Rows /\ Stars
  BY DEF IInv, Types
<1>1. pc[h] = "dedup" /\ UNCHANGED <<connections, live, settings, starred, queued>>
  BY DEF MarkDelivered
<1>2. CASE Answer(h, "ok") /\ UNCHANGED recorded
  BY <1>1, <1>2, JustAnswers DEF store
<1>3. CASE ~(Answer(h, "ok") /\ UNCHANGED recorded)
  <2>1. PICK l \in {"installation", "find"} : Goto(h, l)
    BY <1>3 DEF MarkDelivered
  <2>2. /\ Key(p) \notin recorded /\ recorded' = recorded \cup {Key(p)}
        /\ UNCHANGED <<post, todo, at, forge>>
    BY <1>3 DEF MarkDelivered
  <2>3. Move(h, l, p, todo[h], at[h]) /\ p \in Posts
    BY <1>0, <1>1, <2>1, <2>2, Onward
  <2>4. /\ l \in Labels \ {"idle"} /\ todo[h] \in SUBSET Integrations
        /\ at[h] \in Integrations \cup {Nothing} /\ at[h] \notin todo[h]
        /\ l \notin AtOne /\ l # "filters" /\ at[h] = Nothing
    BY <1>0, <1>1 DEF HandlersOK, AtOne, Labels
  <2>5. /\ HandlersOK' /\ \A g \in Handlers : g # h => Stays(g)
        /\ pc'[h] = l /\ post'[h] = p
    BY <1>0, <2>3, <2>4, Moves
  <2>6. StoreOK'
    BY <1>0, <1>1, <2>2, <2>3 DEF StoreOK, settings, Actors, Key
  <2>7. QueueOK' /\ ForgeOK'
    BY <1>0, <1>1, <2>2 DEF QueueOK, ForgeOK, forge
  <2>8. \A g \in Handlers : g # h => (Working(g)' <=> Working(g)) /\ post'[g] = post[g]
    BY <2>5 DEF Working, Stays
  <2>9. \A q : Key(q)' = Key(q)
    BY DEF Key
  <2>10. Owned'
    <3>1. \A g \in Handlers : Working(g)' => Key(post'[g]) \in recorded'
      BY <1>0, <2>2, <2>5, <2>8 DEF Owned
    <3>2. \A g \in Handlers : g # h /\ Working(g)' => Key(post'[g]) # Key(p)
      BY <1>0, <2>2, <2>8 DEF Owned
    <3>3. \A f, g \in Handlers :
            Working(f)' /\ Working(g)' /\ Key(post'[f]) = Key(post'[g]) => f = g
      <4> TAKE f, g \in Handlers
      <4>1. CASE f = h \/ g = h
        BY <2>5, <3>2, <4>1
      <4>2. CASE f # h /\ g # h
        BY <1>0, <2>8, <4>2 DEF Owned
      <4> QED
        BY <4>1, <4>2
    <3> QED
      BY <3>1, <3>3 DEF Owned, Key
  <2>11. Rows'
    <3>1. ASSUME NEW i \in Integrations, NEW q \in Posts
          PROVE  /\ queued[i][q] <= 1
                 /\ Key(q) \notin recorded' => queued[i][q] = 0
                 /\ \A g \in Handlers :
                      Working(g)' /\ post'[g] = q /\ Fresh(g, i)' => queued[i][q] = 0
      <4>1. /\ queued[i][q] <= 1 /\ (Key(q) \notin recorded => queued[i][q] = 0)
            /\ \A g \in Handlers : Working(g) /\ post[g] = q /\ Fresh(g, i) => queued[i][q] = 0
        BY <1>0 DEF Rows
      <4>2. ASSUME NEW g \in Handlers, Working(g)', post'[g] = q, Fresh(g, i)'
            PROVE  queued[i][q] = 0
        <5>1. CASE g = h
          BY <2>2, <2>5, <4>1, <4>2, <5>1
        <5>2. CASE g # h
          <6>1. Fresh(g, i)
            BY <2>5, <4>2, <5>2 DEF Fresh, Stays
          <6> QED
            BY <2>8, <4>1, <4>2, <5>2, <6>1
        <5> QED
          BY <5>1, <5>2
      <4> QED
        BY <2>2, <4>1, <4>2
    <3> QED
      BY <1>1, <3>1 DEF Rows, Key
  <2>12. Stars'
    <3>1. \A i, a : Asked(i, a)' \subseteq Asked(i, a) /\ \A g \in Asked(i, a)' : pc'[g] = pc[g]
      BY <2>5 DEF Asked, Stays
    <3> QED
      BY <1>0, <1>1, <3>1, StarsKept
  <2> QED
    BY <2>5, <2>6, <2>7, <2>10, <2>11, <2>12 DEF IInv, Types
<1> QED
  BY <1>2, <1>3

\* What is deleted goes with all that is about it.
LEMMA CascadeKeeps ==
  ASSUME StoreOK, NEW I, Cascade(I),
         connections' \subseteq Connections,
         \A i \in live \ I : ConnectionOf[i] \in connections', UNCHANGED <<muted, recorded>>
  PROVE  /\ StoreOK' /\ live' \subseteq live
         /\ \A i \in live', a \in Actors : <<i, a>> \in starred => <<i, a>> \in starred'
<1>1. /\ live' = live \ I /\ broken' = broken \ I
      /\ disabled' = {s \in disabled : s[1] \notin I}
      /\ ignored' = {s \in ignored : s[1] \notin I}
      /\ starred' = {s \in starred : s[1] \notin I}
  BY DEF Cascade
<1>2. \A S : \A s \in live \X S : s[1] \notin I => s \in live' \X S
  BY <1>1
<1>3. /\ disabled' \subseteq live' \X {"event", "star"} /\ ignored' \subseteq live' \X Actors
      /\ starred' \subseteq live' \X Actors
  BY <1>1, <1>2 DEF StoreOK
<1>4. StoreOK'
  BY <1>1, <1>3 DEF StoreOK, Key, Actors
<1>5. \A i \in live', a \in Actors : <<i, a>> \in starred => <<i, a>> \in starred'
  BY <1>1
<1> QED
  BY <1>1, <1>4, <1>5

\* An installation, or what was in it, comes or goes.
LEMMA InstallationKeeps ==
  ASSUME IInv, NEW h \in Handlers, HandleInstallation(h)
  PROVE  IInv'
<1> DEFINE c == post[h].via
<1>0. StoreOK /\ QueueOK /\ HandlersOK /\ ForgeOK /\ Owned /\ Rows /\ Stars
  BY DEF IInv, Types
<1>1. pc[h] = "installation" /\ Answer(h, "ok") /\ UNCHANGED <<muted, recorded, queued>>
  BY DEF HandleInstallation
<1>2. HandlersOK' /\ ForgeOK' /\ \A g \in Handlers : Stays(g) \/ Done(g)
  BY <1>0, <1>1, Answers
<1>3. post[h] \in Posts /\ c \in Connections
  BY <1>0, <1>1, PostsAssumption DEF HandlersOK
<1>4. /\ StoreOK' /\ live' \subseteq live
      /\ \A i \in live', a \in Actors : <<i, a>> \in starred => <<i, a>> \in starred'
  <2>1. CASE post[h].kind = "installed"
    <3>1. /\ connections' = connections \cup {c}
          /\ UNCHANGED <<live, broken, disabled, ignored, starred>>
      BY <2>1 DEF HandleInstallation
    <3> QED
      BY <1>0, <1>1, <1>3, <3>1 DEF StoreOK, Key, Actors
  <2>2. CASE post[h].kind # "installed"
    <3>1. connections' = connections \ {c} /\ Cascade(OfConnection(c))
      BY <2>2 DEF HandleInstallation
    <3>2. /\ connections' \subseteq Connections
          /\ \A i \in live \ OfConnection(c) : ConnectionOf[i] \in connections'
      BY <1>0, <3>1 DEF StoreOK, OfConnection
    <3> QED
      BY <1>0, <1>1, <3>1, <3>2, CascadeKeeps
  <2> QED
    BY <2>1, <2>2
<1>5. Owned' /\ Rows' /\ Stars'
  BY <1>0, <1>1, <1>2, <1>4, Released
<1>6. QueueOK'
  BY <1>0, <1>1 DEF QueueOK
<1> QED
  BY <1>2, <1>4, <1>5, <1>6 DEF IInv, Types

\* On to the next integration: the one it was at is dropped.
LEMMA ContinueKeeps ==
  ASSUME IInv, NEW h \in Handlers, pc[h] \in AtOne, Continue(h), UNCHANGED <<store, queued>>
  PROVE  IInv'
<1>0. HandlersOK
  BY DEF IInv, Types
<1>1. UNCHANGED <<post, todo, forge>> /\ pc[h] # "idle"
  BY DEF Continue, AtOne
<1>2. Move(h, "loop", post[h], todo[h], Nothing) /\ post[h] \in Posts
  <2>1. post = [post EXCEPT ![h] = post[h]] /\ todo = [todo EXCEPT ![h] = todo[h]]
        /\ post[h] \in Posts
    BY <1>0, <1>1 DEF HandlersOK
  <2> QED
    BY <1>1, <2>1 DEF Continue, Goto, Move
<1>3. /\ todo[h] \in SUBSET Integrations /\ Nothing \notin todo[h]
      /\ "loop" \in Labels \ {"idle"} /\ "loop" \notin AtOne
  BY <1>0, NothingAssumption DEF HandlersOK, AtOne, Labels
<1>4. Working(h) /\ \A j \in todo[h] : Fresh(h, j)
  BY DEF Working, Fresh
<1> QED
  BY <1>1, <1>2, <1>3, <1>4, GoesOn

\* The integrations that listen.
LEMMA FindKeeps ==
  ASSUME IInv, NEW h \in Handlers, Find(h)
  PROVE  IInv'
<1>0. HandlersOK /\ StoreOK
  BY DEF IInv, Types
<1>1. pc[h] = "find" /\ UNCHANGED <<store, queued>>
  BY DEF Find
<1>2. CASE Answer(h, "ok")
  BY <1>1, <1>2, JustAnswers
<1>3. CASE ~Answer(h, "ok")
  <2> DEFINE T == OfConnection(post[h].via) \cap Listening
  <2>1. todo' = [todo EXCEPT ![h] = T] /\ Goto(h, "loop") /\ UNCHANGED <<post, at, forge>>
    BY <1>3 DEF Find
  <2>2. /\ post = [post EXCEPT ![h] = post[h]] /\ at = [at EXCEPT ![h] = at[h]]
        /\ post[h] \in Posts /\ at[h] = Nothing
    BY <1>0, <1>1 DEF HandlersOK, AtOne
  <2>3. Move(h, "loop", post[h], T, Nothing)
    BY <2>1, <2>2 DEF Goto, Move
  <2>4. /\ T \in SUBSET Integrations /\ Nothing \notin T
        /\ "loop" \in Labels \ {"idle"} /\ "loop" \notin AtOne
    BY <1>0, NothingAssumption DEF StoreOK, OfConnection, AtOne, Labels
  <2>5. Working(h) /\ \A j \in T : Fresh(h, j)
    BY <1>1 DEF Working, Fresh
  <2> HIDE DEF T
  <2> QED
    BY <1>1, <2>1, <2>2, <2>3, <2>4, <2>5, GoesOn
<1> QED
  BY <1>2, <1>3

\* The next integration, and whether it wants such events.
LEMMA EventEnabledKeeps ==
  ASSUME IInv, NEW h \in Handlers, NEW i \in todo[h], EventEnabled(h, i)
  PROVE  IInv'
<1>0. HandlersOK
  BY DEF IInv, Types
<1> DEFINE T == todo[h] \ {i}
           l == IF post[h].kind = "star" THEN "actor" ELSE "filters"
<1>1. /\ pc[h] = "loop" /\ todo' = [todo EXCEPT ![h] = T]
      /\ UNCHANGED <<store, queued, post, forge>>
  BY DEF EventEnabled
<1>2. /\ post = [post EXCEPT ![h] = post[h]] /\ at = [at EXCEPT ![h] = at[h]]
      /\ pc = [pc EXCEPT ![h] = pc[h]]
      /\ post[h] \in Posts /\ at[h] = Nothing
  BY <1>0, <1>1 DEF HandlersOK, AtOne
<1>3. T \in SUBSET Integrations /\ i \in Integrations /\ i # Nothing /\ Nothing \notin T
  BY <1>0, NothingAssumption DEF HandlersOK
<1>4. Working(h) /\ Fresh(h, i) /\ \A j \in T : Fresh(h, j)
  BY <1>1 DEF Working, Fresh
<1>5. CASE UNCHANGED <<pc, at>>
  <2>1. Move(h, "loop", post[h], T, Nothing)
    BY <1>1, <1>2, <1>5 DEF Move
  <2>2. "loop" \in Labels \ {"idle"} /\ "loop" \notin AtOne
    BY DEF Labels, AtOne
  <2> HIDE DEF T
  <2> QED
    BY <1>1, <1>2, <1>3, <1>4, <2>1, <2>2, GoesOn
<1>6. CASE ~UNCHANGED <<pc, at>>
  <2>1. at' = [at EXCEPT ![h] = i] /\ Goto(h, l)
    BY <1>6 DEF EventEnabled
  <2>2. Move(h, l, post[h], T, i)
    BY <1>1, <1>2, <2>1 DEF Move, Goto
  <2>3. /\ l \in Labels \ {"idle"} /\ l \in AtOne /\ l \notin {"star", "enqueue", "installation", "find"}
        /\ l = "filters" => post[h].kind # "star"
    BY DEF Labels, AtOne
  <2>4. i \notin T
    OBVIOUS
  <2> HIDE DEF T, l
  <2> QED
    BY <1>1, <1>2, <1>3, <1>4, <2>2, <2>3, <2>4, GoesOn
<1> QED
  BY <1>5, <1>6

\* Whether it ignores the author.
LEMMA FilterKeeps ==
  ASSUME IInv, NEW h \in Handlers, Filter(h)
  PROVE  IInv'
<1>0. HandlersOK
  BY DEF IInv, Types
<1>1. pc[h] = "filters" /\ pc[h] \in AtOne /\ UNCHANGED <<store, queued>>
  BY DEF Filter, AtOne
<1>2. CASE Continue(h)
  BY <1>1, <1>2, ContinueKeeps
<1>3. CASE Goto(h, "enqueue") /\ UNCHANGED <<post, todo, at, forge>>
  <2>1. Move(h, "enqueue", post[h], todo[h], at[h]) /\ post[h] \in Posts
    BY <1>0, <1>1, <1>3, Onward
  <2>2. /\ todo[h] \in SUBSET Integrations /\ at[h] \in Integrations \cup {Nothing}
        /\ at[h] # Nothing /\ at[h] \notin todo[h] /\ post[h].kind # "star"
        /\ "enqueue" \in Labels \ {"idle"} /\ "enqueue" \in AtOne
    BY <1>0, <1>1 DEF HandlersOK, AtOne, Labels
  <2>3. Working(h) /\ Fresh(h, at[h]) /\ \A j \in todo[h] : Fresh(h, j)
    BY <1>1 DEF Working, Fresh
  <2> QED
    BY <1>1, <1>3, <2>1, <2>2, <2>3, GoesOn
<1> QED
  BY <1>2, <1>3 DEF Filter

\* What moving at the same integration leaves as it is.
LEMMA StandsAtOne ==
  ASSUME IInv, NEW h \in Handlers, pc[h] \in {"actor", "star"},
         NEW l \in {"star", "enqueue"}, Goto(h, l),
         UNCHANGED <<post, todo, at, forge, queued, recorded>>
  PROVE  /\ HandlersOK' /\ ForgeOK' /\ QueueOK' /\ Owned' /\ Rows' /\ pc'[h] = l
         /\ \A g \in Handlers : g # h => Stays(g)
<1>0. HandlersOK /\ ForgeOK /\ QueueOK /\ Owned /\ Rows
  BY DEF IInv, Types
<1>1. Move(h, l, post[h], todo[h], at[h]) /\ post[h] \in Posts
  BY <1>0, Onward
<1>2. /\ todo[h] \in SUBSET Integrations /\ at[h] \in Integrations \cup {Nothing}
      /\ at[h] # Nothing /\ at[h] \notin todo[h]
      /\ l \in Labels \ {"idle"} /\ l \in AtOne /\ l # "filters"
  BY <1>0 DEF HandlersOK, AtOne, Labels
<1>3. HandlersOK' /\ pc'[h] = l /\ \A g \in Handlers : g # h => Stays(g)
  BY <1>0, <1>1, <1>2, Moves
<1>4. \A g \in Handlers : Working(g)' =>
        /\ Working(g) /\ post'[g] = post[g]
        /\ \A i \in Integrations : Fresh(g, i)' => Fresh(g, i)
  BY <1>3 DEF Working, Fresh, AtOne, Stays
<1>5. Owned' /\ Rows'
  BY <1>0, <1>4, OwnedKept
<1>6. ForgeOK' /\ QueueOK'
  BY <1>0 DEF forge, ForgeOK, QueueOK
<1> QED
  BY <1>3, <1>5, <1>6

\* Who is told that an actor is new finds no row, whoever else has asked.
LEMMA StarActorKeeps ==
  ASSUME IInv, NEW h \in Handlers, StarActorNotified(h)
  PROVE  IInv'
<1>0. StoreOK /\ QueueOK /\ HandlersOK /\ Stars
  BY DEF IInv, Types
<1>1. pc[h] = "actor" /\ pc[h] \in AtOne /\ UNCHANGED <<store, queued>>
  BY DEF StarActorNotified, AtOne
<1>2. CASE Continue(h)
  BY <1>1, <1>2, ContinueKeeps
<1>3. CASE ~Continue(h)
  <2>1. /\ <<at[h], post[h].actor>> \notin starred /\ Goto(h, "star")
        /\ UNCHANGED <<post, todo, at, forge>>
    BY <1>3 DEF StarActorNotified
  <2>2. UNCHANGED <<recorded, live, starred>>
    BY <1>1 DEF store
  <2>3. /\ HandlersOK' /\ ForgeOK' /\ Owned' /\ Rows' /\ pc'[h] = "star"
        /\ \A g \in Handlers : g # h => Stays(g)
    BY <1>1, <2>1, <2>2, StandsAtOne
  <2>4. Stars'
    <3> SUFFICES ASSUME NEW i \in live, NEW a \in Actors
                 PROVE  /\ IsFiniteSet(StarRows(i, a)')
                        /\ Cardinality(StarRows(i, a)') + Cardinality(Asked(i, a)')
                             <= Cardinality(Handlers)
                        /\ <<i, a>> \notin starred =>
                             StarRows(i, a)' = {} /\ \A g \in Asked(i, a)' : pc'[g] = "star"
      BY <2>2 DEF Stars, Actors
    <3>1. StarRows(i, a)' = StarRows(i, a)
      BY <1>1 DEF StarRows
    <3>2. /\ IsFiniteSet(StarRows(i, a))
          /\ Cardinality(StarRows(i, a)) + Cardinality(Asked(i, a)) <= Cardinality(Handlers)
          /\ <<i, a>> \notin starred =>
               StarRows(i, a) = {} /\ \A g \in Asked(i, a) : pc[g] = "star"
      BY <1>0 DEF Stars
    <3>3. Asked(i, a)' \in SUBSET Handlers /\ Asked(i, a) \in SUBSET Handlers
      BY DEF Asked
    <3>4. \A g \in Asked(i, a)' : g # h => g \in Asked(i, a) /\ pc'[g] = pc[g]
      BY <2>1, <2>3 DEF Asked, Stays
    <3>5. /\ Cardinality(Asked(i, a)') \in Nat /\ Cardinality(Asked(i, a)') <= Cardinality(Handlers)
          /\ Cardinality(StarRows(i, a)) \in Nat /\ Cardinality(Handlers) \in Nat
          /\ Cardinality(Asked(i, a)) \in Nat
      BY <3>2, <3>3, Sizes, FS_CardinalityType
    <3>6. CASE h \in Asked(i, a)'
      <4>1. <<i, a>> \notin starred
        BY <2>1, <3>6 DEF Asked
      <4>2. StarRows(i, a) = {} /\ Cardinality(StarRows(i, a)) = 0
        BY <3>2, <4>1, FS_EmptySet
      <4> QED
        BY <2>3, <3>1, <3>2, <3>4, <3>5, <4>1, <4>2
    <3>7. CASE h \notin Asked(i, a)'
      <4>1. Asked(i, a)' \in SUBSET Asked(i, a)
        BY <3>4, <3>7
      <4>2. Cardinality(Asked(i, a)') <= Cardinality(Asked(i, a))
        BY <3>3, <4>1, Sizes
      <4>3. Cardinality(StarRows(i, a)) + Cardinality(Asked(i, a)') <= Cardinality(Handlers)
        BY <3>2, <3>5, <4>2
      <4> QED
        BY <3>1, <3>2, <3>4, <3>7, <4>3
    <3> QED
      BY <3>6, <3>7
  <2>5. StoreOK' /\ QueueOK'
    BY <1>0, <1>1, StoreKept
  <2> QED
    BY <2>3, <2>4, <2>5 DEF IInv, Types
<1> QED
  BY <1>2, <1>3

\* The actor is marked: from then on rows may be there.
LEMMA MarkStarKeeps ==
  ASSUME IInv, NEW h \in Handlers, MarkStarNotified(h)
  PROVE  IInv'
<1>0. StoreOK /\ QueueOK /\ HandlersOK /\ Stars
  BY DEF IInv, Types
<1>1. pc[h] = "star" /\ UNCHANGED <<connections, live, settings, recorded, queued>>
  BY DEF MarkStarNotified
<1>2. CASE Answer(h, "error") /\ UNCHANGED starred
  BY <1>1, <1>2, JustAnswers DEF store
<1>3. CASE ~(Answer(h, "error") /\ UNCHANGED starred)
  <2>1. /\ at[h] \in live /\ starred' = starred \cup {<<at[h], post[h].actor>>}
        /\ Goto(h, "enqueue") /\ UNCHANGED <<post, todo, at, forge>>
    BY <1>3 DEF MarkStarNotified
  <2>2. /\ HandlersOK' /\ ForgeOK' /\ QueueOK' /\ Owned' /\ Rows' /\ pc'[h] = "enqueue"
        /\ \A g \in Handlers : g # h => Stays(g)
    BY <1>1, <2>1, StandsAtOne
  <2>3. post[h] \in Posts
    BY <1>0, <1>1 DEF HandlersOK
  <2>4. StoreOK'
    <3>1. post[h].actor \in Actors
      BY <2>3 DEF Actors
    <3>2. starred' \subseteq live \X Actors
      BY <1>0, <2>1, <3>1 DEF StoreOK
    <3> QED
      BY <1>0, <1>1, <3>2 DEF StoreOK, settings, Actors, Key
  <2>5. Stars'
    <3>1. ASSUME NEW i \in live, NEW a \in Actors
          PROVE  /\ Asked(i, a)' \subseteq Asked(i, a)
                 /\ <<i, a>> \notin starred' =>
                      <<i, a>> \notin starred /\ \A g \in Asked(i, a)' : pc'[g] = pc[g]
      <4>1. Asked(i, a)' \subseteq Asked(i, a)
        BY <1>1, <2>1, <2>2 DEF Asked, Stays
      <4>2. ASSUME <<i, a>> \notin starred', NEW g \in Asked(i, a)' PROVE pc'[g] = pc[g]
        <5>1. g # h
          BY <2>1, <4>2 DEF Asked
        <5> QED
          BY <2>2, <5>1, <4>2 DEF Asked, Stays
      <4> QED
        BY <2>1, <4>1, <4>2
    <3> QED
      BY <1>0, <1>1, <3>1, StarsKept
  <2> QED
    BY <2>2, <2>4, <2>5 DEF IInv, Types
<1> QED
  BY <1>2, <1>3

\* A row is put: the handler is one fewer that has asked.
LEMMA EnqueueKeeps ==
  ASSUME IInv, NEW h \in Handlers, Enqueue(h)
  PROVE  IInv'
<1> DEFINE p == post[h]
           i == at[h]
<1>0. StoreOK /\ QueueOK /\ HandlersOK /\ ForgeOK /\ Owned /\ Rows /\ Stars
  BY DEF IInv, Types
<1>1. pc[h] = "enqueue" /\ UNCHANGED store /\ UNCHANGED <<live, recorded, starred>>
  BY DEF Enqueue, store
<1>2. CASE Answer(h, "error") /\ UNCHANGED queued
  BY <1>1, <1>2, JustAnswers
<1>3. CASE ~(Answer(h, "error") /\ UNCHANGED queued)
  <2>1. queued' = [queued EXCEPT ![i][p] = @ + 1] /\ Continue(h)
    BY <1>3 DEF Enqueue
  <2>2. /\ p \in Posts /\ i \in Integrations /\ i \notin todo[h]
        /\ todo[h] \in SUBSET Integrations /\ i # Nothing
    BY <1>0, <1>1 DEF HandlersOK, AtOne
  <2>3. Move(h, "loop", p, todo[h], Nothing)
    <3>1. post = [post EXCEPT ![h] = post[h]] /\ todo = [todo EXCEPT ![h] = todo[h]]
      BY <1>0 DEF HandlersOK
    <3> QED
      BY <2>1, <3>1 DEF Continue, Goto, Move
  <2>4. "loop" \in Labels \ {"idle"} /\ "loop" \notin AtOne /\ Nothing \notin todo[h]
    BY <2>2, NothingAssumption DEF Labels, AtOne
  <2>5. /\ HandlersOK' /\ \A g \in Handlers : g # h => Stays(g)
        /\ pc'[h] = "loop" /\ post'[h] = p /\ todo'[h] = todo[h] /\ at'[h] = Nothing
    <3> HIDE DEF p, i
    <3>1. "loop" # "filters" /\ Nothing \in Integrations \cup {Nothing}
      OBVIOUS
    <3> QED
      BY <1>0, <2>2, <2>3, <2>4, <3>1, Moves
  <2>6. /\ Working(h) /\ Fresh(h, i) /\ Working(h)'
        /\ \A j \in Integrations : Fresh(h, j)' => Fresh(h, j) /\ j # i
    <3>1. \A j \in Integrations : Fresh(h, j)' => j \in todo[h]
      BY <2>5, NothingAssumption DEF Fresh
    <3> QED
      BY <1>1, <2>2, <2>5, <3>1 DEF Working, Fresh, AtOne
  <2>7. queued[i][p] = 0 /\ Key(p) \in recorded
    BY <1>0, <2>2, <2>6 DEF Rows, Owned
  <2>8. /\ queued' \in [Integrations -> [Posts -> Nat]]
        /\ \A j \in Integrations, q \in Posts :
             queued'[j][q] = IF j = i /\ q = p THEN 1 ELSE queued[j][q]
    BY <1>0, <2>1, <2>2, <2>7 DEF QueueOK
  <2>9. \A g \in Handlers : (Working(g)' <=> Working(g)) /\ post'[g] = post[g]
    BY <2>5, <2>6 DEF Working, Stays
  <2>10. Owned'
    BY <1>0, <1>1, <2>9 DEF Owned, Key
  <2>11. Rows'
    <3>1. ASSUME NEW j \in Integrations, NEW q \in Posts
          PROVE  /\ queued'[j][q] <= 1
                 /\ Key(q) \notin recorded => queued'[j][q] = 0
                 /\ \A g \in Handlers :
                      Working(g)' /\ post'[g] = q /\ Fresh(g, j)' => queued'[j][q] = 0
      <4>1. /\ queued[j][q] <= 1 /\ (Key(q) \notin recorded => queued[j][q] = 0)
            /\ \A g \in Handlers : Working(g) /\ post[g] = q /\ Fresh(g, j) => queued[j][q] = 0
        BY <1>0 DEF Rows
      <4>2. ASSUME NEW g \in Handlers, Working(g)', post'[g] = q, Fresh(g, j)'
            PROVE  queued'[j][q] = 0
        <5>1. CASE g = h
          BY <2>6, <2>8, <2>9, <4>1, <4>2, <5>1
        <5>2. CASE g # h
          <6>1. Fresh(g, j)
            BY <2>5, <4>2, <5>2 DEF Fresh, Stays
          <6>2. q # p
            BY <1>0, <2>6, <2>9, <4>2, <5>2 DEF Owned
          <6> QED
            BY <2>8, <2>9, <4>1, <4>2, <6>1, <6>2
        <5> QED
          BY <5>1, <5>2
      <4> QED
        BY <2>7, <2>8, <4>1, <4>2
    <3> QED
      BY <1>1, <3>1 DEF Rows, Key
  <2>12. Stars'
    <3> SUFFICES ASSUME NEW j \in live, NEW a \in Actors
                 PROVE  /\ IsFiniteSet(StarRows(j, a)')
                        /\ Cardinality(StarRows(j, a)') + Cardinality(Asked(j, a)')
                             <= Cardinality(Handlers)
                        /\ <<j, a>> \notin starred =>
                             StarRows(j, a)' = {} /\ \A g \in Asked(j, a)' : pc'[g] = "star"
      BY <1>1 DEF Stars, Actors
    <3>1. /\ IsFiniteSet(StarRows(j, a))
          /\ Cardinality(StarRows(j, a)) + Cardinality(Asked(j, a)) <= Cardinality(Handlers)
          /\ <<j, a>> \notin starred =>
               StarRows(j, a) = {} /\ \A g \in Asked(j, a) : pc[g] = "star"
      BY <1>0 DEF Stars
    <3>2. j \in Integrations
      BY <1>0 DEF StoreOK
    <3>3. Asked(j, a)' = Asked(j, a) \ {h}
      <4>1. h \notin Asked(j, a)'
        BY <2>5 DEF Asked
      <4>2. \A g \in Handlers : g # h => (g \in Asked(j, a)' <=> g \in Asked(j, a))
        BY <2>5 DEF Asked, Stays
      <4>3. Asked(j, a)' \subseteq Handlers /\ Asked(j, a) \subseteq Handlers
        BY DEF Asked
      <4> QED
        BY <4>1, <4>2, <4>3
    <3>4. Asked(j, a) \in SUBSET Handlers /\ IsFiniteSet(Asked(j, a))
          /\ Cardinality(Asked(j, a)) \in Nat /\ Cardinality(Handlers) \in Nat
          /\ Cardinality(StarRows(j, a)) \in Nat
      <4>1. Asked(j, a) \in SUBSET Handlers
        BY DEF Asked
      <4> QED
        BY <3>1, <4>1, Sizes, FS_CardinalityType
    <3>5. \A g \in Asked(j, a)' : pc'[g] = pc[g] /\ g \in Asked(j, a)
      BY <2>5, <3>3 DEF Asked, Stays
    <3>6. \A q \in Posts : queued[j][q] \in Nat
      BY <1>0, <3>2 DEF QueueOK
    <3>7. CASE h \in Asked(j, a)
      <4>1. StarRows(j, a)' = StarRows(j, a) \cup {p} /\ <<j, a>> \in starred
        <5>1. j = i /\ p.kind = "star" /\ p.actor = a
          BY <3>7 DEF Asked
        <5>2. <<j, a>> \in starred
          BY <1>1, <3>1, <3>7
        <5> QED
          BY <2>2, <2>8, <3>2, <5>1, <5>2 DEF StarRows
      <4>2. Cardinality(Asked(j, a)') = Cardinality(Asked(j, a)) - 1
        <5>1. Cardinality(Asked(j, a) \ {h})
                = IF h \in Asked(j, a) THEN Cardinality(Asked(j, a)) - 1
                  ELSE Cardinality(Asked(j, a))
          BY <3>4, FS_RemoveElement
        <5> QED
          BY <3>3, <3>7, <5>1
      <4>3. /\ IsFiniteSet(StarRows(j, a)')
            /\ Cardinality(StarRows(j, a)')
                 = IF p \in StarRows(j, a) THEN Cardinality(StarRows(j, a))
                   ELSE Cardinality(StarRows(j, a)) + 1
        <5>1. /\ IsFiniteSet(StarRows(j, a) \cup {p})
              /\ Cardinality(StarRows(j, a) \cup {p})
                   = IF p \in StarRows(j, a) THEN Cardinality(StarRows(j, a))
                     ELSE Cardinality(StarRows(j, a)) + 1
          BY <3>1, FS_AddElement
        <5> QED
          BY <4>1, <5>1
      <4>4. Cardinality(StarRows(j, a)') <= Cardinality(StarRows(j, a)) + 1
            /\ Cardinality(StarRows(j, a)') \in Nat
        BY <3>4, <4>3
      <4>5. Cardinality(StarRows(j, a)') + Cardinality(Asked(j, a)') <= Cardinality(Handlers)
        BY <3>1, <3>4, <4>2, <4>4
      <4> QED
        BY <4>1, <4>3, <4>5
    <3>8. CASE h \notin Asked(j, a)
      <4>1. ~(j = i /\ p.kind = "star" /\ p.actor = a)
        BY <1>1, <3>8 DEF Asked
      <4>2. StarRows(j, a)' = StarRows(j, a)
        BY <2>8, <3>2, <4>1 DEF StarRows
      <4>3. Asked(j, a)' = Asked(j, a)
        BY <3>3, <3>8
      <4> QED
        BY <3>1, <3>5, <4>2, <4>3
    <3> QED
      BY <3>7, <3>8
  <2>13. StoreOK' /\ ForgeOK' /\ QueueOK'
    <3>1. ForgeOK'
      BY <1>0, <2>1 DEF Continue, forge, ForgeOK
    <3>2. StoreOK'
      BY <1>0, <1>1 DEF store, settings, StoreOK, Actors, Key
    <3> QED
      BY <2>8, <3>1, <3>2 DEF QueueOK
  <2> QED
    BY <2>5, <2>10, <2>11, <2>12, <2>13 DEF IInv, Types
<1> QED
  BY <1>2, <1>3

\* The settings of live integrations.
LEMMA ChangeKeeps ==
  ASSUME IInv, Change
  PROVE  IInv'
<1>0. StoreOK /\ QueueOK /\ HandlersOK /\ ForgeOK /\ Owned /\ Rows /\ Stars
  BY DEF IInv, Types
<1>1. UNCHANGED <<connections, live, recorded, starred, queued, pc, post, todo, at, sent, answer>>
  BY DEF Change, handling, forge
<1>2. broken' \subseteq live /\ muted' \subseteq Chats
  BY <1>0 DEF Change, SetChatMute, SetEventEnabled, ChangeFilter, MarkIntegrationBroken,
              ClearChatIntegrationsBroken, Flip, StoreOK
<1>3. disabled' \subseteq live \X {"event", "star"}
  <2>1. CASE UNCHANGED disabled
    BY <1>0, <2>1 DEF StoreOK
  <2>2. ASSUME NEW i \in Integrations, NEW p \in Posts, SetEventEnabled(i, Setting(p))
        PROVE  disabled' \subseteq live \X {"event", "star"}
    <3>1. Setting(p) \in {"event", "star"} /\ i \in live
      BY <2>2 DEF Setting, SetEventEnabled
    <3> QED
      BY <1>0, <2>2, <3>1 DEF SetEventEnabled, Flip, StoreOK
  <2> QED
    BY <2>1, <2>2 DEF Change, SetChatMute, ChangeFilter, MarkIntegrationBroken,
                      ClearChatIntegrationsBroken
<1>4. ignored' \subseteq live \X Actors
  <2>1. CASE UNCHANGED ignored
    BY <1>0, <2>1 DEF StoreOK
  <2>2. ASSUME NEW i \in Integrations, NEW a \in Actors, ChangeFilter(i, a)
        PROVE  ignored' \subseteq live \X Actors
    BY <1>0, <2>2 DEF ChangeFilter, Flip, StoreOK
  <2> QED
    BY <2>1, <2>2 DEF Change, SetChatMute, SetEventEnabled, MarkIntegrationBroken,
                      ClearChatIntegrationsBroken
<1>5. StoreOK'
  BY <1>0, <1>1, <1>2, <1>3, <1>4 DEF StoreOK, Actors, Key
<1>6. QueueOK' /\ ForgeOK' /\ HandlersOK'
  BY <1>0, <1>1 DEF QueueOK, ForgeOK, HandlersOK
<1>7. \A h \in Handlers : Stays(h)
  BY <1>1 DEF Stays
<1>8. Owned' /\ Rows' /\ Stars'
  BY <1>0, <1>1, <1>7, Released
<1> QED
  BY <1>5, <1>6, <1>8 DEF IInv, Types

\* An integration deleted, or a connection with all of its own.
LEMMA DeleteKeeps ==
  ASSUME IInv, Delete
  PROVE  IInv'
<1>0. StoreOK /\ QueueOK /\ HandlersOK /\ ForgeOK /\ Owned /\ Rows /\ Stars
  BY DEF IInv, Types
<1>1. UNCHANGED <<muted, recorded, queued, pc, post, todo, at, sent, answer>>
  BY DEF Delete, handling, forge
<1>2. PICK I : /\ Cascade(I) /\ connections' \subseteq Connections
               /\ \A i \in live \ I : ConnectionOf[i] \in connections'
  <2>1. CASE \E i \in live : Cascade({i}) /\ UNCHANGED connections
    BY <1>0, <2>1 DEF StoreOK
  <2>2. ASSUME NEW c \in connections, connections' = connections \ {c}, Cascade(OfConnection(c))
        PROVE  /\ Cascade(OfConnection(c)) /\ connections' \subseteq Connections
               /\ \A i \in live \ OfConnection(c) : ConnectionOf[i] \in connections'
    BY <1>0, <2>2 DEF StoreOK, OfConnection
  <2> QED
    BY <2>1, <2>2 DEF Delete
<1>3. /\ StoreOK' /\ live' \subseteq live
      /\ \A i \in live', a \in Actors : <<i, a>> \in starred => <<i, a>> \in starred'
  BY <1>0, <1>1, <1>2, CascadeKeeps
<1>4. QueueOK' /\ ForgeOK' /\ HandlersOK'
  BY <1>0, <1>1 DEF QueueOK, ForgeOK, HandlersOK
<1>5. \A h \in Handlers : Stays(h)
  BY <1>1 DEF Stays
<1>6. Owned' /\ Rows' /\ Stars'
  BY <1>0, <1>1, <1>3, <1>5, Released
<1> QED
  BY <1>3, <1>4, <1>6 DEF IInv, Types

\* A crash: every request is gone.
LEMMA CrashKeeps ==
  ASSUME IInv, Crash
  PROVE  IInv'
<1>0. StoreOK /\ QueueOK /\ HandlersOK /\ ForgeOK /\ Owned /\ Rows /\ Stars
  BY DEF IInv, Types
<1>1. UNCHANGED <<store, queued, sent>> /\ UNCHANGED <<recorded, live, starred>>
  BY DEF Crash, store
<1>2. \A h \in Handlers : Done(h)
  BY DEF Crash, Done
<1>3. HandlersOK'
  BY <1>2 DEF Crash, HandlersOK, Done, Labels, AtOne
<1>4. ForgeOK'
  BY <1>0 DEF Crash, ForgeOK
<1>5. StoreOK' /\ QueueOK'
  BY <1>0, <1>1, StoreKept
<1>6. Owned' /\ Rows' /\ Stars'
  BY <1>0, <1>1, <1>2, Released
<1> QED
  BY <1>3, <1>4, <1>5, <1>6 DEF IInv, Types

\* Every step keeps the invariant.
LEMMA NextKeeps == IInv /\ [Next]_vars => IInv'
<1> SUFFICES ASSUME IInv, [Next]_vars PROVE IInv'
  OBVIOUS
<1>1. CASE UNCHANGED vars
  <2>1. UNCHANGED <<store, queued, pc, post, todo, at, sent, answer, live, recorded, starred>>
    BY <1>1 DEF vars, store, handling, forge
  <2>2. StoreOK' /\ QueueOK' /\ HandlersOK' /\ ForgeOK'
    BY <2>1, StoreKept DEF IInv, Types, HandlersOK, ForgeOK
  <2>3. \A h \in Handlers : Stays(h)
    BY <2>1 DEF Stays
  <2>4. Owned' /\ Rows' /\ Stars'
    BY <2>1, <2>3, Released DEF IInv
  <2> QED
    BY <2>2, <2>4 DEF IInv, Types
<1>2. ASSUME NEW h \in Handlers, NEW p \in Posts, Send(h, p) PROVE IInv'
  BY <1>2, SendKeeps
<1>3. ASSUME NEW h \in Handlers, Handle(h) PROVE IInv'
  <2>1. CASE AllDone(h)
    BY <2>1, JustAnswers DEF AllDone
  <2> QED
    BY <1>3, <2>1, RememberKeeps, MarkDeliveredKeeps, InstallationKeeps, FindKeeps,
       EventEnabledKeeps, FilterKeeps, StarActorKeeps, MarkStarKeeps, EnqueueKeeps DEF Handle
<1>4. ASSUME NEW h \in Handlers, DbError(h) PROVE IInv'
  BY <1>4, JustAnswers DEF DbError
<1> QED
  BY <1>1, <1>2, <1>3, <1>4, ChangeKeeps, DeleteKeeps, CrashKeeps DEF Next

-----------------------------------------------------------------------------
(***************************************************************************)
(* The theorems.                                                           *)
(***************************************************************************)

\* The inductive invariant holds throughout.
THEOREM Invariance == Spec => []IInv
BY InitHolds, NextKeeps, PTL DEF Spec

\* Every variable has its type, and a handler has a post and an integration in
\* hand exactly where it uses them.
THEOREM TypeCorrect == Spec => []TypeOK
<1>1. IInv => TypeOK
  BY TypesGiveTypeOK DEF IInv
<1> QED
  BY <1>1, Invariance, PTL

\* However often and however concurrently a delivery is sent, whatever fails, an
\* integration gets one row of it at most: MarkDelivered keeps one push from
\* producing two messages.
THEOREM OneRowOfADelivery == Spec => []QueuedOnce
<1>1. IInv => QueuedOnce
  BY DEF IInv, Rows, QueuedOnce
<1> QED
  BY <1>1, Invariance, PTL

\* A user who stars and unstars makes no more notifications than requests are
\* served at a time.
THEOREM StarsAreBounded == Spec => []StarsBounded
<1>1. IInv => StarsBounded
  <2> SUFFICES ASSUME IInv, NEW i \in live, NEW a \in Actors
               PROVE  Cardinality(StarRows(i, a)) <= Cardinality(Handlers)
    BY DEF StarsBounded
  <2>1. /\ IsFiniteSet(StarRows(i, a))
        /\ Cardinality(StarRows(i, a)) + Cardinality(Asked(i, a)) <= Cardinality(Handlers)
    BY DEF IInv, Stars
  <2>2. Asked(i, a) \in SUBSET Handlers
    BY DEF Asked
  <2>3. /\ Cardinality(StarRows(i, a)) \in Nat /\ Cardinality(Asked(i, a)) \in Nat
        /\ Cardinality(Handlers) \in Nat
    BY <2>1, <2>2, Sizes, FS_CardinalityType
  <2> QED
    BY <2>1, <2>3
<1> QED
  BY <1>1, Invariance, PTL
=============================================================================
