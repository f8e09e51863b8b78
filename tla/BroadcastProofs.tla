--------------------------- MODULE BroadcastProofs ---------------------------
(***************************************************************************)
(* Proofs about broadcasts: for any number of users, of broadcasts and of  *)
(* links, any batch, any number of interruptions and whatever fails.       *)
(***************************************************************************)
EXTENDS Broadcast, FiniteSetTheorems, SequenceTheorems, TLAPS

(***************************************************************************)
(* The inductive invariant.  It splits the users at what the sender holds: *)
(* those the batch in hand is past, those left of it, those ahead.         *)
(***************************************************************************)

Holding == pc \in {"copy", "mark"}
Members(s) == {s[i] : i \in 1..Len(s)}
Left == Members(todo)
Past == {u \in Users : u <= tally.last /\ u \notin Left}
Behind(b) == {u \in Users : u <= bcs[b].last}

\* TypeOK in four parts.
Row == [status: Statuses, total: 0..MaxUser, sent: Nat, failed: Nat, last: 0..MaxUser]
Count == [sent: Nat, failed: Nat, last: 0..MaxUser]

UsersOK ==
  /\ registered \subseteq Users /\ blockedAt \subseteq registered
  /\ blocks \subseteq registered
  /\ links \subseteq Links /\ starts \in [Links -> 0..MaxStarts]
  /\ refOf \in [Users -> links \cup {NoLink}]

RowsOK == bcs \in [Broadcasts -> Row]

SenderOK ==
  /\ pc \in {"idle", "targets", "copy", "mark", "finish", "notice"}
  /\ job \in 0..MaxBroadcast /\ (pc = "idle" <=> job = 0)
  /\ todo \in Seq(Users) /\ tally \in Count /\ flooded \in BOOLEAN

SeenOK ==
  /\ copies \in [Broadcasts -> [Users -> Nat]]
  /\ tried \in [Broadcasts -> SUBSET Users]
  /\ owed \in [Broadcasts -> SUBSET Users]
  /\ lost \in [Broadcasts -> 0..MaxLost]
  /\ late \in [Broadcasts -> Nat] /\ told \in [Broadcasts -> Nat]

\* The batch in hand is of a broadcast that was running when it was read, and
\* stands, in order, between the cursor and the cursor to come.
InHand ==
  /\ pc \in {"targets", "copy", "mark", "finish"} => Status(job) \in {"running", "cancelled"}
  /\ pc = "notice" => Status(job) = "done"
  /\ Holding =>
       /\ \A i, j \in 1..Len(todo) : i < j => todo[i] < todo[j]
       /\ \A i \in 1..Len(todo) : bcs[job].last < todo[i] /\ todo[i] <= tally.last
       /\ bcs[job].last <= tally.last
  /\ pc = "mark" => todo # << >> /\ Head(todo) \in tried[job]

\* Whom a copy is owed is in reach still, and who is in the batch registered.
Reach ==
  /\ Holding => Left \subseteq registered
  /\ \A b \in Broadcasts : owed[b] \subseteq BroadcastAudience
  /\ \A b \in Broadcasts : Status(b) \in {"none", "draft"} => bcs[b].last = 0

\* Nobody owed a copy is passed over untried, in hand as in the table.
Covered ==
  /\ NobodySkipped
  /\ Holding => owed[job] \cap Past \subseteq tried[job]
  /\ pc = "finish" => owed[job] \subseteq tried[job]

\* Those who may still get the copy this pass has for them.
Ahead(b) ==
  IF b = job /\ Holding THEN Users \ Past
  ELSE IF b = job \/ Status(b) # "cancelled" THEN Users \ Behind(b)
  ELSE {}

\* They have got one for each batch given up at most, the others one more.
Once ==
  \A b \in Broadcasts : \A u \in Users :
    copies[b][u] <= lost[b] + (IF u \in Ahead(b) THEN 0 ELSE 1)

Got(b) == {u \in Users : copies[b][u] > 0}

\* What is counted is about users behind the cursor, or past the batch.
Numbers ==
  /\ \A b \in Broadcasts :
       /\ bcs[b].sent <= Cardinality(Got(b) \cap Behind(b))
       /\ bcs[b].sent + bcs[b].failed <= Cardinality(tried[b] \cap Behind(b))
  /\ Holding =>
       /\ bcs[job].sent + tally.sent <= Cardinality(Got(job) \cap Past)
       /\ bcs[job].sent + tally.sent + bcs[job].failed + tally.failed
            <= Cardinality(tried[job] \cap Past)

\* What is left of the batch is all that can still arrive.
Late ==
  /\ \A b \in Broadcasts : late[b] <= Batch /\ (Status(b) # "cancelled" => late[b] = 0)
  /\ Holding => late[job] + Len(todo) <= Batch
  /\ pc = "targets" => late[job] = 0

Told == ToldOnceDone /\ (pc = "notice" => told[job] = 0)

Sending == InHand /\ Reach /\ Covered /\ Once /\ Numbers /\ Late /\ Told

IInv == TypeOK /\ Sending /\ FunnelNarrows

-----------------------------------------------------------------------------
(***************************************************************************)
(* Lemmas about sets of users and about Page.                              *)
(***************************************************************************)

Below(S, u) == {v \in S : v < u}
First(S) == {u \in S : Cardinality(Below(S, u)) < Batch}

\* Sets of users have sizes, and smaller ones are smaller.
LEMMA Counting ==
  ASSUME NEW S \in SUBSET Users
  PROVE  /\ IsFiniteSet(S) /\ Cardinality(S) \in Nat
         /\ \A T \in SUBSET S : /\ IsFiniteSet(T) /\ Cardinality(T) \in Nat
                                /\ Cardinality(T) <= Cardinality(S)
                                /\ Cardinality(T) = Cardinality(S) => T = S
<1>1. IsFiniteSet(Users)
  BY FS_Interval, BoundsAssumption DEF Users
<1>2. IsFiniteSet(S)
  BY <1>1, FS_Subset
<1> QED
  BY <1>2, FS_Subset, FS_CardinalityType

\* Who stands further up has more below.
LEMMA RankGrows ==
  ASSUME NEW S \in SUBSET Users, NEW u \in S, NEW v \in S, u < v
  PROVE  Cardinality(Below(S, u)) < Cardinality(Below(S, v))
<1>0. \A w \in S : w \in Int
  BY DEF Users
<1>1. Below(S, u) \subseteq Below(S, v) /\ u \in Below(S, v) /\ u \notin Below(S, u)
  BY <1>0 DEF Below
<1>2. Below(S, v) \in SUBSET Users /\ Below(S, u) \in SUBSET Below(S, v)
  BY <1>1 DEF Below
<1> QED
  BY <1>1, <1>2, Counting

\* The ranks in a set are the numbers below its size.
LEMMA Ranks ==
  ASSUME NEW S \in SUBSET Users
  PROVE  /\ \A u \in S : Cardinality(Below(S, u)) \in 0..(Cardinality(S) - 1)
         /\ \A n \in 0..(Cardinality(S) - 1) :
              \E u \in S : Cardinality(Below(S, u)) = n
<1> DEFINE rank == [u \in S |-> Cardinality(Below(S, u))]
           n == Cardinality(S)
<1>1. n \in Nat /\ IsFiniteSet(S)
  BY Counting
<1>2. \A u \in S : rank[u] \in 0..(n - 1)
  <2> TAKE u \in S
  <2>1. Below(S, u) \in SUBSET S /\ Below(S, u) # S
    BY DEF Below, Users
  <2> QED
    BY <2>1, <1>1, Counting
<1>3. \A u, v \in S : rank[u] = rank[v] => u = v
  <2> SUFFICES ASSUME NEW u \in S, NEW v \in S, u # v PROVE rank[u] # rank[v]
    OBVIOUS
  <2>1. u < v \/ v < u
    BY DEF Users
  <2>2. \A x \in S : Cardinality(Below(S, x)) \in Nat
    BY <1>2, <1>1
  <2> QED
    BY <2>1, <2>2, RankGrows
<1>4. rank \in Injection(S, 0..(n - 1))
  BY <1>2, <1>3 DEF Injection, IsInjective
<1>5. IsFiniteSet(0..(n - 1)) /\ Cardinality(0..(n - 1)) = n
  <2>1. n - 1 \in Int /\ 0 \in Int
    BY <1>1
  <2>2. IsFiniteSet(0..(n - 1)) /\ Cardinality(0..(n - 1)) = IF 0 > n - 1 THEN 0 ELSE n - 1 - 0 + 1
    BY <2>1, FS_Interval
  <2> QED
    BY <2>2, <1>1
<1>6. rank \in Surjection(S, 0..(n - 1))
  BY <1>4, <1>5, FS_Injection
<1> QED
  BY <1>2, <1>6 DEF Surjection

\* The first of a set: they lie below the others, and are there if any is.
LEMMA FirstOfSet ==
  ASSUME NEW S \in SUBSET Users
  PROVE  /\ First(S) \in SUBSET S
         /\ \A u \in First(S) : Below(First(S), u) = Below(S, u)
         /\ \A u \in S \ First(S) : \A v \in First(S) : v < u
         /\ First(S) = {} => S = {}
         /\ Cardinality(First(S)) <= Batch
<1>0. \A u \in S : Cardinality(Below(S, u)) \in Nat
  BY Ranks, Counting
<1>1. \A u \in S, v \in First(S) : u < v => u \in First(S)
  BY <1>0, RankGrows, BoundsAssumption DEF First
<1>2. First(S) \in SUBSET S
  BY DEF First
<1>3. \A u \in First(S) : Below(First(S), u) = Below(S, u)
  BY <1>1, <1>2 DEF Below
<1>4. \A u \in S \ First(S) : \A v \in First(S) : v < u
  <2>1. \A w \in S : w \in Int
    BY DEF Users
  <2> QED
    BY <1>1, <1>2, <2>1
<1>5. First(S) = {} => S = {}
  <2> SUFFICES ASSUME S # {} PROVE First(S) # {}
    OBVIOUS
  <2>1. Cardinality(S) \in Nat \ {0}
    BY Counting, FS_EmptySet
  <2>2. 0 \in 0..(Cardinality(S) - 1)
    BY <2>1
  <2>3. PICK u \in S : Cardinality(Below(S, u)) = 0
    BY <2>2, Ranks
  <2> QED
    BY <2>3, BoundsAssumption DEF First
<1>6. Cardinality(First(S)) <= Batch
  <2> DEFINE n == Cardinality(First(S))
  <2>1. First(S) \in SUBSET Users /\ n \in Nat /\ Batch \in Nat
    BY <1>2, Counting, BoundsAssumption
  <2> SUFFICES ASSUME n > Batch PROVE FALSE
    BY <2>1
  <2>2. n - 1 \in 0..(n - 1)
    BY <2>1
  <2>3. PICK u \in First(S) : Cardinality(Below(First(S), u)) = n - 1
    BY <2>1, <2>2, Ranks
  <2>4. Cardinality(Below(S, u)) < Batch
    BY DEF First
  <2> QED
    BY <2>1, <2>3, <2>4, <1>3
<1> QED
  BY <1>2, <1>3, <1>4, <1>5, <1>6

\* Page: at most Batch of the set, in order, and those that come first.
LEMMA PageFacts ==
  ASSUME NEW S \in SUBSET Users
  PROVE  LET p == Page(S)
         IN  /\ p \in Seq(Users) /\ Len(p) <= Batch
             /\ \A i \in 1..Len(p) : p[i] \in S
             /\ \A i, j \in 1..Len(p) : i < j => p[i] < p[j]
             /\ p = << >> => S = {}
             /\ \A u \in S : u \in {p[i] : i \in 1..Len(p)}
                               \/ \A i \in 1..Len(p) : p[i] < u
<1> DEFINE F == First(S)
           n == Cardinality(F)
           At(i) == CHOOSE u \in F : Cardinality(Below(F, u)) = i - 1
           p == Page(S)
<1>1. F \in SUBSET Users /\ F \in SUBSET S /\ n \in Nat
  BY FirstOfSet, Counting
<1>2. p = [i \in 1..n |-> At(i)]
  BY DEF Page, First, Below
<1>3. \A i \in 1..n : At(i) \in F /\ Cardinality(Below(F, At(i))) = i - 1
  <2> TAKE i \in 1..n
  <2>1. i - 1 \in 0..(n - 1)
    BY <1>1
  <2> QED
    BY <2>1, <1>1, Ranks
<1>4. p \in Seq(Users) /\ Len(p) = n /\ \A i \in 1..n : p[i] = At(i)
  <2> HIDE DEF At, n, p
  <2> QED
    BY <1>1, <1>2, <1>3
<1>5. \A i, j \in 1..n : i < j => p[i] < p[j]
  <2> SUFFICES ASSUME NEW i \in 1..n, NEW j \in 1..n, i < j PROVE p[i] < p[j]
    OBVIOUS
  <2> DEFINE a == At(i)
             b == At(j)
  <2>1. a \in F /\ b \in F /\ Cardinality(Below(F, a)) < Cardinality(Below(F, b))
    BY <1>1, <1>3
  <2>2. Cardinality(Below(F, a)) \in Nat /\ Cardinality(Below(F, b)) \in Nat
    BY <1>3, <1>1
  <2>3. a \in Int /\ b \in Int
    BY <2>1, <1>1 DEF Users
  <2> HIDE DEF a, b
  <2>4. ~(b < a) /\ a # b
    BY <2>1, <2>2, <1>1, RankGrows
  <2>5. p[i] = a /\ p[j] = b
    BY <1>4 DEF a, b
  <2> QED
    BY <2>3, <2>4, <2>5
<1>6. \A u \in F : u \in {p[i] : i \in 1..n}
  <2> TAKE u \in F
  <2> DEFINE i == Cardinality(Below(F, u)) + 1
  <2>1. i \in 1..n /\ Cardinality(Below(F, u)) = i - 1
    BY <1>1, Ranks
  <2>2. At(i) \in F /\ Cardinality(Below(F, At(i))) = i - 1
    BY <2>1, <1>3
  <2>3. At(i) = u
    <3>1. ~(At(i) < u) /\ ~(u < At(i))
      BY <2>1, <2>2, <1>1, RankGrows
    <3> QED
      BY <3>1, <2>2, <1>1 DEF Users
  <2> QED
    BY <2>1, <2>3, <1>4
<1>7. n <= Batch /\ (p = << >> => S = {})
  <2>1. n <= Batch /\ (F = {} => S = {})
    BY FirstOfSet
  <2>2. p = << >> => F = {}
    BY <1>6, <1>4
  <2> QED
    BY <2>1, <2>2
<1>8. \A u \in S : u \in {p[i] : i \in 1..n} \/ \A i \in 1..n : p[i] < u
  <2>1. \A u \in S \ F : \A v \in F : v < u
    BY FirstOfSet
  <2>2. \A i \in 1..n : p[i] \in F
    BY <1>3, <1>4
  <2> QED
    BY <2>1, <2>2, <1>6
<1>9. \A i \in 1..n : p[i] \in S
  BY <1>1, <1>3, <1>4
<1> HIDE DEF p, n, F, At
<1> QED
  BY <1>4, <1>5, <1>7, <1>8, <1>9 DEF p
-----------------------------------------------------------------------------
(***************************************************************************)
(* Lemmas about the sender.                                                *)
(***************************************************************************)

\* A larger set of users is no smaller, and larger by one where one is new.
LEMMA Growing ==
  ASSUME NEW B \in SUBSET Users, NEW A \in SUBSET B
  PROVE  /\ Cardinality(A) \in Nat /\ Cardinality(B) \in Nat
         /\ Cardinality(A) <= Cardinality(B)
         /\ \A x \in B \ A : Cardinality(A) + 1 <= Cardinality(B)
<1>1. A \in SUBSET Users /\ IsFiniteSet(A)
  BY Counting
<1>2. ASSUME NEW x \in B \ A PROVE Cardinality(A) + 1 <= Cardinality(B)
  <2>1. Cardinality(A \cup {x}) = Cardinality(A) + 1
    BY <1>1, <1>2, FS_AddElement
  <2>2. A \cup {x} \in SUBSET B
    BY <1>2
  <2> QED
    BY <2>1, <2>2, Counting
<1> QED
  BY <1>1, <1>2, Counting

\* The parts of TypeOK, and that each stands while its variables do.
LEMMA TypeParts ==
  /\ TypeOK <=> UsersOK /\ RowsOK /\ SenderOK /\ SeenOK
  /\ TypeOK' <=> UsersOK' /\ RowsOK' /\ SenderOK' /\ SeenOK'
BY DEF TypeOK, UsersOK, RowsOK, SenderOK, SeenOK, Row, Count

LEMMA PartsKept ==
  /\ UsersOK /\ UNCHANGED users => UsersOK'
  /\ RowsOK /\ UNCHANGED bcs => RowsOK'
  /\ SenderOK /\ UNCHANGED sender => SenderOK'
  /\ SeenOK /\ UNCHANGED seen => SeenOK'
BY DEF UsersOK, RowsOK, SenderOK, SeenOK, users, sender, seen

\* A sender that is not idle has a broadcast.
LEMMA JobIsOne ==
  ASSUME TypeOK, pc # "idle"
  PROVE  job \in Broadcasts
BY DEF TypeOK, Broadcasts

\* The row of a broadcast, and what is recorded of it.
LEMMA Rows ==
  ASSUME TypeOK, NEW b \in Broadcasts
  PROVE  /\ bcs[b] \in Row
         /\ bcs[b].last \in 0..MaxUser /\ bcs[b].sent \in Nat /\ bcs[b].failed \in Nat
         /\ bcs[b].status \in Statuses
         /\ copies[b] \in [Users -> Nat] /\ tried[b] \in SUBSET Users
         /\ owed[b] \in SUBSET Users /\ lost[b] \in 0..MaxLost
         /\ late[b] \in Nat /\ told[b] \in Nat
BY DEF TypeOK, Row

\* One step further: the batch is past one more.
LEMMA OneFurther ==
  ASSUME TypeOK, InHand, Holding, todo # << >>,
         todo' = Tail(todo), tally'.last = tally.last
  PROVE  /\ Head(todo) \in Users /\ Head(todo) \notin Past
         /\ todo' \in Seq(Users) /\ Len(todo') = Len(todo) - 1
         /\ \A i, j \in 1..Len(todo') : i < j => todo'[i] < todo'[j]
         /\ \A i \in 1..Len(todo') : bcs[job].last < todo'[i] /\ todo'[i] <= tally.last
         /\ Past' = Past \cup {Head(todo)} /\ Left' \subseteq Left
         /\ Head(todo) <= tally.last
<1> DEFINE u == Head(todo)
<1>1. /\ todo \in Seq(Users) /\ u \in Users /\ u = todo[1] /\ Len(todo) \in Nat \ {0}
      /\ todo' \in Seq(Users) /\ Len(todo') = Len(todo) - 1
      /\ \A i \in 1..Len(todo') : todo'[i] = todo[i + 1]
  BY DEF TypeOK
<1>2. /\ \A i, j \in 1..Len(todo) : i < j => todo[i] < todo[j]
      /\ \A i \in 1..Len(todo) : bcs[job].last < todo[i] /\ todo[i] <= tally.last
  BY DEF InHand
<1>3. \A i \in 1..Len(todo') : i + 1 \in 1..Len(todo) /\ 1 \in 1..Len(todo) /\ 1 < i + 1
  BY <1>1
<1>4. Left' = Left \ {u} /\ u \in Left
  <2>1. Left' = {todo'[i] : i \in 1..Len(todo')} /\ Left = {todo[i] : i \in 1..Len(todo)}
    BY DEF Left, Members
  <2>2. Left' \subseteq Left \ {u}
    <3> SUFFICES ASSUME NEW i \in 1..Len(todo') PROVE todo'[i] \in Left \ {u}
      BY <2>1
    <3>1. todo[1] < todo[i + 1] /\ todo[i + 1] \in Users
      BY <1>1, <1>2, <1>3
    <3>2. todo[1] # todo[i + 1]
      BY <3>1, <1>1 DEF Users
    <3> QED
      BY <3>2, <1>1, <1>3, <2>1
  <2>3. Left \ {u} \subseteq Left'
    <3> SUFFICES ASSUME NEW i \in 1..Len(todo), todo[i] # u PROVE todo[i] \in Left'
      BY <2>1
    <3>1. i - 1 \in 1..Len(todo') /\ todo'[i - 1] = todo[i]
      BY <1>1
    <3> QED
      BY <3>1, <2>1
  <2>4. u \in Left
    BY <1>1, <2>1
  <2> QED
    BY <2>2, <2>3, <2>4
<1>5. u <= tally.last
  BY <1>1, <1>2
<1>6. Past' = Past \cup {u} /\ u \notin Past
  BY <1>1, <1>4, <1>5 DEF Past
<1>7. \A i, j \in 1..Len(todo') : i < j => todo'[i] < todo'[j]
  BY <1>1, <1>2, <1>3
<1>8. \A i \in 1..Len(todo') : bcs[job].last < todo'[i] /\ todo'[i] <= tally.last
  BY <1>1, <1>2, <1>3
<1> QED
  BY <1>1, <1>4, <1>5, <1>6, <1>7, <1>8

\* A new batch: past it are only those behind the cursor and those not in reach.
LEMMA NewBatch ==
  ASSUME TypeOK, job \in Broadcasts, todo' = Page(After(job)), todo' # << >>,
         tally'.last = todo'[Len(todo')]
  PROVE  /\ todo' \in Seq(Users) /\ Len(todo') <= Batch /\ tally'.last \in Users
         /\ \A i, j \in 1..Len(todo') : i < j => todo'[i] < todo'[j]
         /\ \A i \in 1..Len(todo') : bcs[job].last < todo'[i] /\ todo'[i] <= tally'.last
         /\ bcs[job].last <= tally'.last
         /\ Behind(job) \subseteq Past'
         /\ BroadcastAudience \cap Past' \subseteq Behind(job)
         /\ Left' \subseteq registered
<1>0. After(job) \in SUBSET Users /\ bcs[job].last \in Int
  <2>1. registered \subseteq Users
    BY DEF TypeOK
  <2> QED
    BY <2>1, Rows DEF After, BroadcastAudience
<1>1. /\ todo' \in Seq(Users) /\ Len(todo') <= Batch
      /\ \A i \in 1..Len(todo') : todo'[i] \in After(job)
      /\ \A i, j \in 1..Len(todo') : i < j => todo'[i] < todo'[j]
      /\ \A u \in After(job) : u \in Members(todo') \/ \A i \in 1..Len(todo') : todo'[i] < u
  BY <1>0, PageFacts DEF Members
<1>2. Len(todo') \in 1..Len(todo') /\ \A i \in 1..Len(todo') : todo'[i] \in Users
  BY <1>1
<1>3. \A i \in 1..Len(todo') : bcs[job].last < todo'[i]
  BY <1>1 DEF After
<1>4. \A i \in 1..Len(todo') : todo'[i] <= tally'.last
  <2> TAKE i \in 1..Len(todo')
  <2>1. i = Len(todo') \/ i < Len(todo')
    BY <1>2
  <2>2. todo'[i] \in Int /\ todo'[Len(todo')] \in Int
    BY <1>2 DEF Users
  <2> QED
    BY <2>1, <2>2, <1>1, <1>2
<1>5. tally'.last \in Users /\ tally'.last \in Int /\ bcs[job].last < tally'.last
  BY <1>2, <1>3 DEF Users
<1>6. Left' = Members(todo')
  BY DEF Left
<1>7. \A u \in Behind(job) : u \in Past'
  <2> TAKE u \in Behind(job)
  <2>1. u \in Users /\ u \in Int /\ u <= bcs[job].last
    BY DEF Behind, Users
  <2>2. u \notin Left'
    BY <2>1, <1>0, <1>2, <1>3, <1>6 DEF Members, Users
  <2> QED
    BY <2>1, <2>2, <1>0, <1>5 DEF Past
<1>8. \A u \in BroadcastAudience \cap Past' : u \in Behind(job)
  <2> TAKE u \in BroadcastAudience \cap Past'
  <2>1. u \in Users /\ u \in Int /\ u <= tally'.last /\ u \notin Left'
    BY DEF Past, Users
  <2>2. u \notin After(job)
    BY <2>1, <1>1, <1>2, <1>5, <1>6
  <2> QED
    BY <2>1, <2>2, <1>0 DEF After, Behind
<1>9. Left' \subseteq registered
  BY <1>1, <1>6 DEF Members, After, BroadcastAudience
<1> QED
  BY <1>0, <1>1, <1>3, <1>4, <1>5, <1>7, <1>8, <1>9

\* What the users do, and whoever waits, leaves the broadcasts as they are.
LEMMA Elsewhere ==
  ASSUME InHand, Covered, Once, Numbers, Late, Told, UNCHANGED <<bcs, sender, seen>>
  PROVE  (InHand /\ Covered /\ Once /\ Numbers /\ Late /\ Told)'
<1> USE DEF sender, seen, Status, Holding, Left, Past, Behind
<1>1. InHand' /\ Late' /\ Told'
  BY DEF InHand, Late, Told, ToldOnceDone
<1>2. Covered' /\ Once'
  BY DEF Covered, NobodySkipped, Once, Ahead
<1>3. Numbers'
  BY DEF Numbers, Got
<1> QED
  BY <1>1, <1>2, <1>3

-----------------------------------------------------------------------------
(***************************************************************************)
(* The invariant holds initially.                                          *)
(***************************************************************************)

\* At first there is no broadcast and nobody to send one to.
LEMMA InitHolds == Init => IInv
<1> SUFFICES ASSUME Init PROVE IInv
  OBVIOUS
<1> USE DEF Init
<1>1. TypeOK
  <2>1. RowsOK
    BY BoundsAssumption DEF RowsOK, Row, Statuses
  <2>2. SenderOK
    <3>1. todo \in Seq(Users) /\ (pc = "idle" <=> job = 0)
      OBVIOUS
    <3>2. tally \in Count /\ job \in 0..MaxBroadcast
      BY BoundsAssumption DEF NoBatch, Count
    <3> QED
      BY <3>1, <3>2 DEF SenderOK
  <2>3. UsersOK /\ SeenOK
    BY BoundsAssumption DEF UsersOK, SeenOK
  <2> QED
    BY <2>1, <2>2, <2>3, TypeParts
<1>2. InHand /\ Reach /\ Late /\ Told
  BY BoundsAssumption DEF InHand, Reach, Late, Told, ToldOnceDone, Holding, Status
<1>3. Covered /\ Once
  <2>1. \A b \in Broadcasts : \A u \in Users : 0 <= lost[b] + (IF u \in Ahead(b) THEN 0 ELSE 1)
    OBVIOUS
  <2>2. Once
    BY <2>1 DEF Once
  <2> QED
    BY <2>2 DEF Covered, NobodySkipped, Holding
<1>4. Numbers
  <2>1. \A b \in Broadcasts : Got(b) \cap Behind(b) = {} /\ tried[b] \cap Behind(b) = {}
    BY DEF Got
  <2>2. Cardinality({}) = 0
    BY FS_EmptySet
  <2>3. \A b \in Broadcasts : bcs[b].sent = 0 /\ bcs[b].failed = 0
    OBVIOUS
  <2>4. ~Holding
    BY DEF Holding
  <2>5. ASSUME NEW b \in Broadcasts
        PROVE  /\ bcs[b].sent <= Cardinality(Got(b) \cap Behind(b))
               /\ bcs[b].sent + bcs[b].failed <= Cardinality(tried[b] \cap Behind(b))
    <3>1. Got(b) \cap Behind(b) = {} /\ tried[b] \cap Behind(b) = {}
      BY <2>1
    <3>2. bcs[b].sent = 0 /\ bcs[b].failed = 0
      BY <2>3
    <3> HIDE DEF Init
    <3> QED
      BY <3>1, <3>2, <2>2
  <2> HIDE DEF Init
  <2> QED
    BY <2>4, <2>5 DEF Numbers
<1>5. FunnelNarrows
  BY DEF FunnelNarrows
<1> QED
  BY <1>1, <1>2, <1>3, <1>4, <1>5 DEF IInv, Sending

-----------------------------------------------------------------------------
(***************************************************************************)
(* Type correctness.                                                       *)
(***************************************************************************)

\* A sender back at idle.
LEMMA IdleTypes ==
  ASSUME Idle
  PROVE  SenderOK'
<1>1. todo' \in Seq(Users) /\ (pc' = "idle" <=> job' = 0)
  BY DEF Idle
<1>2. tally' \in Count /\ job' \in 0..MaxBroadcast
  BY BoundsAssumption DEF Idle, NoBatch, Count
<1> QED
  BY <1>1, <1>2 DEF Idle, SenderOK

\* The handlers of what the users do.
LEMMA UsersTypes ==
  ASSUME UsersOK,
         \/ \E u \in Users : \E l \in Links \cup {NoLink} : UpsertUser(u, l)
         \/ \E u \in Users : BlockBot(u)
         \/ \E l \in Links : CreateRefLink(l) \/ DeleteRefLink(l)
  PROVE  UsersOK' /\ UNCHANGED <<bcs, sender, seen>>
<1>1. ASSUME NEW u \in Users, NEW l \in Links \cup {NoLink}, UpsertUser(u, l)
      PROVE  UsersOK' /\ UNCHANGED <<bcs, sender, seen>>
  <2>1. Attribution(u, l) \in links \cup {NoLink}
    BY DEF Attribution, UsersOK
  <2>2. refOf' \in [Users -> links \cup {NoLink}]
    BY <1>1, <2>1 DEF UpsertUser, UsersOK
  <2>3. starts' \in [Links -> 0..MaxStarts]
    <3>1. \A k \in Links : starts[k] + (IF k = l /\ Counted(u, l) THEN 1 ELSE 0) \in 0..MaxStarts
      BY <1>1, BoundsAssumption DEF UpsertUser, UsersOK
    <3> QED
      BY <1>1, <3>1 DEF UpsertUser
  <2> QED
    BY <1>1, <2>2, <2>3 DEF UpsertUser, UsersOK
<1>2. ASSUME NEW u \in Users, BlockBot(u)
      PROVE  UsersOK' /\ UNCHANGED <<bcs, sender, seen>>
  BY <1>2 DEF BlockBot, UsersOK
<1>3. ASSUME NEW l \in Links, CreateRefLink(l)
      PROVE  UsersOK' /\ UNCHANGED <<bcs, sender, seen>>
  BY <1>3 DEF CreateRefLink, UsersOK
<1>4. ASSUME NEW l \in Links, DeleteRefLink(l)
      PROVE  UsersOK' /\ UNCHANGED <<bcs, sender, seen>>
  <2>1. refOf' \in [Users -> links' \cup {NoLink}]
    BY <1>4 DEF DeleteRefLink, UsersOK
  <2> QED
    BY <1>4, <2>1 DEF DeleteRefLink, UsersOK
<1> QED
  BY <1>1, <1>2, <1>3, <1>4

\* The administrator's.
LEMMA AdminTypes ==
  ASSUME TypeOK, NEW b \in Broadcasts,
         CreateBroadcast(b) \/ StartBroadcast(b) \/ CancelBroadcast(b)
  PROVE  TypeOK'
<1>0. UsersOK /\ RowsOK /\ SenderOK /\ SeenOK
  BY TypeParts
<1>1. RowsOK'
  <2>1. CASE CreateBroadcast(b)
    BY <1>0, <2>1 DEF CreateBroadcast, RowsOK, Row, Statuses
  <2>2. CASE StartBroadcast(b)
    <3>1. BroadcastAudience \in SUBSET Users
      BY <1>0 DEF BroadcastAudience, UsersOK
    <3>2. Cardinality(Users) = MaxUser
      BY FS_Interval, BoundsAssumption DEF Users
    <3>3. Cardinality(BroadcastAudience) \in 0..MaxUser
      <4>1. Users \in SUBSET Users
        OBVIOUS
      <4>2. Cardinality(BroadcastAudience) \in Nat
        BY <3>1, Counting
      <4>3. Cardinality(BroadcastAudience) <= Cardinality(Users)
        BY <3>1, <4>1, Counting
      <4> QED
        BY <3>2, <4>2, <4>3, BoundsAssumption
    <3> QED
      BY <1>0, <2>2, <3>3 DEF StartBroadcast, RowsOK, Row, Statuses
  <2>3. CASE CancelBroadcast(b)
    BY <1>0, <2>3 DEF CancelBroadcast, RowsOK, Row, Statuses
  <2> QED
    BY <2>1, <2>2, <2>3
<1>2. SeenOK'
  <2>1. CASE StartBroadcast(b)
    <3>1. BroadcastAudience \in SUBSET Users
      BY <1>0 DEF BroadcastAudience, UsersOK
    <3> QED
      BY <1>0, <2>1, <3>1 DEF StartBroadcast, SeenOK
  <2>2. CASE UNCHANGED seen
    BY <1>0, <2>2, PartsKept
  <2> QED
    BY <2>1, <2>2 DEF CreateBroadcast, CancelBroadcast
<1>3. UNCHANGED users /\ UNCHANGED sender
  BY DEF CreateBroadcast, StartBroadcast, CancelBroadcast
<1> QED
  BY <1>0, <1>1, <1>2, <1>3, PartsKept, TypeParts

\* A user of the batch dealt with.
LEMMA HandledTypes ==
  ASSUME SenderOK, NEW field \in {"sent", "failed"}, Handled(field), todo # << >>
  PROVE  /\ todo' = Tail(todo) /\ todo' \in Seq(Users) /\ flooded' \in BOOLEAN
         /\ tally' \in Count /\ tally'.last = tally.last
         /\ tally'.sent = tally.sent + (IF field = "sent" THEN 1 ELSE 0)
         /\ tally'.failed = tally.failed + (IF field = "failed" THEN 1 ELSE 0)
<1>1. tally \in Count /\ tally' = [tally EXCEPT ![field] = @ + 1]
  BY DEF SenderOK, Handled
<1>2. todo' = Tail(todo) /\ todo' \in Seq(Users) /\ flooded' \in BOOLEAN
  <2>1. todo \in Seq(Users)
    BY DEF SenderOK
  <2>2. todo' = Tail(todo) /\ flooded' = FALSE
    BY DEF Handled
  <2>3. Tail(todo) \in Seq(Users)
    BY <2>1, HeadTailProperties
  <2> QED
    BY <2>2, <2>3
<1>3. CASE field = "sent"
  BY <1>1, <1>2, <1>3 DEF Count
<1>4. CASE field = "failed"
  BY <1>1, <1>2, <1>4 DEF Count
<1> QED
  BY <1>3, <1>4

\* What a copy that arrives, or does not, adds to.
LEMMA ArrivesTypes ==
  ASSUME SeenOK, job \in Broadcasts, NEW u \in Users,
         Arrives(u) \/ UNCHANGED <<copies, late>>
  PROVE  /\ copies' \in [Broadcasts -> [Users -> Nat]] /\ late' \in [Broadcasts -> Nat]
         /\ \A b \in Broadcasts : \A v \in Users :
              /\ copies[b][v] <= copies'[b][v]
              /\ ~(b = job /\ v = u) => copies'[b][v] = copies[b][v]
         /\ copies'[job][u] <= copies[job][u] + 1
         /\ \A b \in Broadcasts : b # job => late'[b] = late[b]
         /\ late'[job] <= late[job] + 1
         /\ Status(job) # "cancelled" => late'[job] = late[job]
<1>1. copies \in [Broadcasts -> [Users -> Nat]] /\ late \in [Broadcasts -> Nat]
  BY DEF SeenOK
<1>2. CASE Arrives(u)
  <2>1. copies' = [copies EXCEPT ![job][u] = @ + 1]
    BY <1>2 DEF Arrives
  <2>2. late' = [late EXCEPT ![job] = @ + IF Status(job) = "cancelled" THEN 1 ELSE 0]
    BY <1>2 DEF Arrives
  <2>3. copies[job][u] \in Nat /\ late[job] \in Nat
    BY <1>1
  <2>4. /\ copies' \in [Broadcasts -> [Users -> Nat]]
        /\ \A b \in Broadcasts : \A v \in Users :
              copies'[b][v] = IF b = job /\ v = u THEN copies[b][v] + 1 ELSE copies[b][v]
    BY <1>1, <2>1, <2>3
  <2>5. /\ late' \in [Broadcasts -> Nat] /\ \A b \in Broadcasts : b # job => late'[b] = late[b]
        /\ late'[job] = late[job] + IF Status(job) = "cancelled" THEN 1 ELSE 0
    BY <1>1, <2>2, <2>3
  <2>6. \A b \in Broadcasts : \A v \in Users : copies[b][v] \in Nat
    BY <1>1
  <2> QED
    BY <2>3, <2>4, <2>5, <2>6
<1>3. CASE UNCHANGED <<copies, late>>
  <2>1. \A b \in Broadcasts : \A v \in Users : copies[b][v] \in Nat /\ late[b] \in Nat
    BY <1>1
  <2> QED
    BY <1>1, <1>3, <2>1
<1> QED
  BY <1>2, <1>3

\* One call of CopyMessage.
LEMMA CopyTypes ==
  ASSUME TypeOK, Copy
  PROVE  SenderOK' /\ SeenOK'
<1>0. UsersOK /\ RowsOK /\ SenderOK /\ SeenOK
  BY TypeParts
<1>1. pc = "copy" /\ todo # << >> /\ Head(todo) \in Users /\ job \in Broadcasts /\ job' = job
  BY <1>0, JobIsOne DEF Copy, SenderOK
<1> DEFINE u == Head(todo)
<1>2. Tried(u) => tried' \in [Broadcasts -> SUBSET Users]
  <2>1. tried \in [Broadcasts -> SUBSET Users] /\ tried[job] \cup {u} \in SUBSET Users
    BY <1>0, <1>1 DEF SeenOK
  <2> QED
    BY <2>1 DEF Tried
<1>3. CASE CopyOk(u) \/ CopyFails(u)
  <2>1. todo' \in Seq(Users) /\ flooded' \in BOOLEAN /\ tally' \in Count
    BY <1>0, <1>1, <1>3, HandledTypes DEF CopyOk, CopyFails
  <2>2. copies' \in [Broadcasts -> [Users -> Nat]] /\ late' \in [Broadcasts -> Nat]
    BY <1>0, <1>1, <1>3, ArrivesTypes DEF CopyOk, CopyFails
  <2>3. Tried(u) /\ UNCHANGED <<pc, owed, lost, told>>
    BY <1>3 DEF CopyOk, CopyFails
  <2>4. SenderOK'
    BY <1>0, <1>1, <2>1, <2>3 DEF SenderOK
  <2>5. SeenOK'
    BY <1>0, <1>2, <2>2, <2>3 DEF SeenOK
  <2> QED
    BY <2>4, <2>5
<1>4. CASE CopyFlood(u)
  BY <1>0, <1>1, <1>4, PartsKept DEF CopyFlood, SenderOK
<1>5. CASE CopyRefused(u)
  <2>1. SenderOK'
    BY <1>0, <1>1, <1>5 DEF CopyRefused, SenderOK
  <2>2. SeenOK'
    BY <1>0, <1>2, <1>5 DEF CopyRefused, SeenOK
  <2> QED
    BY <2>1, <2>2
<1> QED
  BY <1>3, <1>4, <1>5 DEF Copy

\* Every step of the sender.
LEMMA SenderTypes ==
  ASSUME TypeOK, InHand, Reach, Step \/ Interrupt
  PROVE  TypeOK'
<1>0. UsersOK /\ RowsOK /\ SenderOK /\ SeenOK
  BY TypeParts
<1>1. CASE NextRunningBroadcast
  <2>1. SenderOK'
    BY <1>0, <1>1, BoundsAssumption DEF NextRunningBroadcast, SenderOK, Broadcasts
  <2> QED
    BY <2>1, <1>0, <1>1, PartsKept, TypeParts DEF NextRunningBroadcast
<1>2. CASE BroadcastTargets
  <2>1. pc = "targets" /\ job \in Broadcasts /\ After(job) \in SUBSET Users
    BY <1>0, <1>2, JobIsOne DEF BroadcastTargets, After, BroadcastAudience, UsersOK
  <2>2. todo' = Page(After(job)) /\ todo' \in Seq(Users)
    BY <1>2, <2>1, PageFacts DEF BroadcastTargets
  <2>3. tally' \in Count
    <3>1. CASE todo' = << >>
      BY <1>0, <1>2, <3>1 DEF BroadcastTargets, SenderOK
    <3>2. CASE todo' # << >>
      <4>1. tally' = [NoBatch EXCEPT !.last = todo'[Len(todo')]]
        BY <1>2, <3>2 DEF BroadcastTargets
      <4>2. todo'[Len(todo')] \in Users
        BY <2>2, <3>2
      <4> QED
        BY <4>1, <4>2, BoundsAssumption DEF NoBatch, Users, Count
    <3> QED
      BY <3>1, <3>2
  <2>4. pc' \in {"finish", "copy"} /\ job' = job /\ flooded' = flooded
    BY <1>2 DEF BroadcastTargets
  <2>5. SenderOK'
    BY <1>0, <2>1, <2>2, <2>3, <2>4 DEF SenderOK
  <2> QED
    BY <2>5, <1>0, <1>2, PartsKept, TypeParts DEF BroadcastTargets
<1>3. CASE Copy
  BY <1>0, <1>3, CopyTypes, PartsKept, TypeParts DEF Copy
<1>4. CASE MarkUserBlocked
  <2>0. pc = "mark" /\ todo # << >> /\ Head(todo) \in Users
    BY <1>0, <1>4 DEF MarkUserBlocked, InHand, SenderOK
  <2>1. todo' \in Seq(Users) /\ flooded' \in BOOLEAN /\ tally' \in Count
    BY <1>0, <2>0, <1>4, HandledTypes DEF MarkUserBlocked
  <2>2. SenderOK'
    BY <1>0, <1>4, <2>0, <2>1 DEF MarkUserBlocked, SenderOK
  <2>3. RowsOK'
    BY <1>0, <1>4, PartsKept DEF MarkUserBlocked
  <2>4. UsersOK' /\ SeenOK'
    <3> DEFINE u == Head(todo)
    <3>1. /\ \/ blockedAt' = blockedAt \cup {u} /\ owed' = [b \in Broadcasts |-> owed[b] \ {u}]
             \/ UNCHANGED <<blockedAt, owed>>
          /\ UNCHANGED <<registered, blocks, links, starts, refOf,
                         copies, tried, lost, late, told>>
      BY <1>4 DEF MarkUserBlocked
    <3>2. u \in registered
      <4>1. 1 \in 1..Len(todo) /\ u = todo[1]
        BY <1>0, <2>0 DEF SenderOK
      <4> QED
        BY <2>0, <4>1 DEF Reach, Holding, Left, Members
    <3>3. owed' \in [Broadcasts -> SUBSET Users]
      BY <1>0, <3>1 DEF SeenOK
    <3> QED
      BY <1>0, <3>1, <3>2, <3>3 DEF UsersOK, SeenOK
  <2> QED
    BY <2>2, <2>3, <2>4, TypeParts
<1>5. CASE AdvanceBroadcast
  <2>1. pc = "copy" /\ job \in Broadcasts
    BY <1>0, <1>5, JobIsOne DEF AdvanceBroadcast
  <2>2. bcs[job] \in Row /\ tally \in Count
    BY <1>0, <2>1 DEF RowsOK, SenderOK
  <2>3. Progress(job) \in Row
    <3>1. /\ bcs[job].sent + tally.sent \in Nat /\ bcs[job].failed + tally.failed \in Nat
          /\ tally.last \in 0..MaxUser
      BY <2>2 DEF Row, Count
    <3> QED
      BY <2>2, <3>1 DEF Progress, Row
  <2>4. RowsOK'
    BY <1>0, <2>3, <1>5 DEF AdvanceBroadcast, RowsOK
  <2> QED
    BY <1>0, <2>4, <1>5, IdleTypes, PartsKept, TypeParts DEF AdvanceBroadcast
<1>6. CASE FinishBroadcast
  <2>1. CASE StillRunning(job)
    <3>1. RowsOK'
      BY <1>0, <1>6, <2>1 DEF FinishBroadcast, RowsOK, Row, Statuses
    <3>2. SenderOK'
      BY <1>0, <1>6, <2>1 DEF FinishBroadcast, SenderOK
    <3> QED
      BY <1>0, <3>1, <3>2, <1>6, PartsKept, TypeParts DEF FinishBroadcast
  <2>2. CASE ~StillRunning(job)
    BY <1>0, <2>2, <1>6, IdleTypes, PartsKept, TypeParts DEF FinishBroadcast
  <2> QED
    BY <2>1, <2>2
<1>7. CASE Notice
  <2>1. SeenOK'
    <3>1. job \in Broadcasts /\ told \in [Broadcasts -> Nat]
      BY <1>0, <1>7, JobIsOne DEF Notice, SeenOK
    <3>2. told' \in [Broadcasts -> Nat]
      BY <3>1, <1>7 DEF Notice
    <3> QED
      BY <1>0, <1>7, <3>2 DEF Notice, SeenOK
  <2> QED
    BY <1>0, <2>1, <1>7, IdleTypes, PartsKept, TypeParts DEF Notice
<1>8. CASE Interrupt
  <2>1. SeenOK'
    <3>1. job \in Broadcasts /\ lost \in [Broadcasts -> 0..MaxLost]
      BY <1>0, <1>8, JobIsOne DEF Interrupt, SeenOK
    <3>2. lost' \in [Broadcasts -> 0..MaxLost]
      BY <3>1, <1>8, BoundsAssumption DEF Interrupt
    <3> QED
      BY <1>0, <1>8, <3>2 DEF Interrupt, SeenOK
  <2> QED
    BY <1>0, <2>1, <1>8, IdleTypes, PartsKept, TypeParts DEF Interrupt
<1> QED
  BY <1>1, <1>2, <1>3, <1>4, <1>5, <1>6, <1>7, <1>8 DEF Step

-----------------------------------------------------------------------------
(***************************************************************************)
(* The funnel.                                                             *)
(***************************************************************************)

Brought(l) == {u \in Users : refOf[u] = l}

\* A start is counted with whom it brings, and a link that is new has brought none.
LEMMA FunnelKept ==
  ASSUME TypeOK, FunnelNarrows, [Next]_vars
  PROVE  FunnelNarrows'
<1>0. UsersOK
  BY TypeParts
<1>1. \A l \in Links : starts[l] \in Nat /\ Cardinality(Brought(l)) \in Nat
  BY <1>0, Counting, BoundsAssumption DEF UsersOK, Brought
<1>2. \A l \in links : Cardinality(Brought(l)) <= starts[l]
  BY DEF FunnelNarrows, Brought
<1>3. ASSUME \A l \in links' : Cardinality(Brought(l)') <= starts'[l]
      PROVE  FunnelNarrows'
  BY <1>3 DEF FunnelNarrows, Brought
<1>4. CASE UNCHANGED <<links, starts, refOf>>
  BY <1>4 DEF FunnelNarrows
<1>5. ASSUME NEW u \in Users, NEW k \in Links \cup {NoLink}, UpsertUser(u, k)
      PROVE  FunnelNarrows'
  <2> SUFFICES ASSUME NEW l \in links' PROVE Cardinality(Brought(l)') <= starts'[l]
    BY <1>3
  <2>0. l \in links /\ l \in Links /\ l # NoLink
    BY <1>0, <1>5, LinksAssumption DEF UpsertUser, UsersOK
  <2>1. starts'[l] = starts[l] + IF l = k THEN 1 ELSE 0
    BY <1>5, <2>0 DEF UpsertUser, Counted
  <2>2. \A v \in Users : refOf'[v] = IF v = u THEN Attribution(u, k) ELSE refOf[v]
    BY <1>0, <1>5 DEF UpsertUser, UsersOK
  <2>3. CASE l = k
    <3>1. Brought(l)' \in SUBSET (Brought(l) \cup {u})
      BY <2>2 DEF Brought
    <3>2. Brought(l) \cup {u} \in SUBSET Users /\ IsFiniteSet(Brought(l))
      BY Counting DEF Brought
    <3>3. Cardinality(Brought(l)') <= Cardinality(Brought(l) \cup {u})
      BY <3>1, <3>2, Counting
    <3>4. Cardinality(Brought(l) \cup {u}) <= Cardinality(Brought(l)) + 1
      <4>1. Cardinality(Brought(l)) \in Nat
        BY <2>0, <1>1
      <4>2. Cardinality(Brought(l) \cup {u})
              = IF u \in Brought(l) THEN Cardinality(Brought(l)) ELSE Cardinality(Brought(l)) + 1
        BY <3>2, FS_AddElement
      <4> QED
        BY <4>1, <4>2
    <3>5. Cardinality(Brought(l)') \in Nat /\ Cardinality(Brought(l) \cup {u}) \in Nat
      BY <3>1, <3>2, Counting
    <3> QED
      BY <3>3, <3>4, <3>5, <2>0, <2>1, <2>3, <1>1, <1>2
  <2>4. CASE l # k
    <3>1. Attribution(u, k) = l => refOf[u] = l
      BY <2>0, <2>4 DEF Attribution
    <3>2. Brought(l)' \in SUBSET Brought(l) /\ Brought(l) \in SUBSET Users
      BY <2>2, <3>1 DEF Brought
    <3>3. Cardinality(Brought(l)') <= Cardinality(Brought(l)) /\ Cardinality(Brought(l)') \in Nat
      BY <3>2, Counting
    <3> QED
      BY <3>3, <2>0, <2>1, <2>4, <1>1, <1>2
  <2> QED
    BY <2>3, <2>4
<1>6. ASSUME NEW k \in Links, CreateRefLink(k)
      PROVE  FunnelNarrows'
  <2> SUFFICES ASSUME NEW l \in links' PROVE Cardinality(Brought(l)') <= starts'[l]
    BY <1>3
  <2>1. Brought(l)' = Brought(l) /\ starts'[l] = starts[l]
    BY <1>6 DEF CreateRefLink, Brought
  <2>2. CASE l = k
    <3>1. Brought(l) = {}
      BY <1>0, <1>6, <2>2, LinksAssumption DEF CreateRefLink, UsersOK, Brought
    <3>2. Cardinality(Brought(l)) = 0
      BY <3>1, FS_EmptySet
    <3>3. starts[l] \in Nat
      BY <1>1, <2>2
    <3> QED
      BY <2>1, <3>2, <3>3
  <2>3. CASE l # k
    BY <1>2, <1>6, <2>1, <2>3 DEF CreateRefLink
  <2> QED
    BY <2>2, <2>3
<1>7. ASSUME NEW k \in Links, DeleteRefLink(k)
      PROVE  FunnelNarrows'
  <2> SUFFICES ASSUME NEW l \in links' PROVE Cardinality(Brought(l)') <= starts'[l]
    BY <1>3
  <2>1. l \in links /\ l # k /\ l # NoLink /\ starts'[l] = starts[l]
    BY <1>0, <1>7, LinksAssumption DEF DeleteRefLink, UsersOK
  <2>2. Brought(l)' = Brought(l)
    BY <1>7, <2>1 DEF DeleteRefLink, Brought
  <2> QED
    BY <1>2, <2>1, <2>2
<1>8. Step \/ Interrupt => UNCHANGED <<links, starts, refOf>>
  BY DEF Step, Interrupt, NextRunningBroadcast, BroadcastTargets, Copy, MarkUserBlocked,
         AdvanceBroadcast, FinishBroadcast, Notice, users
<1>9. \A u \in Users : BlockBot(u) => UNCHANGED <<links, starts, refOf>>
  BY DEF BlockBot
<1>10. \A b \in Broadcasts : CreateBroadcast(b) \/ StartBroadcast(b) \/ CancelBroadcast(b)
                                 => UNCHANGED <<links, starts, refOf>>
  BY DEF CreateBroadcast, StartBroadcast, CancelBroadcast, users
<1>11. UNCHANGED vars => UNCHANGED <<links, starts, refOf>>
  BY DEF vars, users
<1> QED
  BY <1>4, <1>5, <1>6, <1>7, <1>8, <1>9, <1>10, <1>11 DEF Next

-----------------------------------------------------------------------------
(***************************************************************************)
(* What the users and the administrator do beside the sender.              *)
(***************************************************************************)

\* Users only come into reach of what is under way.
LEMMA UsersKeep ==
  ASSUME TypeOK, Sending,
         \/ \E u \in Users : \E l \in Links \cup {NoLink} : UpsertUser(u, l)
         \/ \E u \in Users : BlockBot(u)
         \/ \E l \in Links : CreateRefLink(l) \/ DeleteRefLink(l)
  PROVE  Sending'
<1>1. UNCHANGED <<bcs, sender, seen>>
  BY UsersTypes, TypeParts
<1>2. registered \subseteq registered' /\ BroadcastAudience \subseteq BroadcastAudience'
  BY DEF UpsertUser, BlockBot, CreateRefLink, DeleteRefLink, BroadcastAudience
<1>3. Reach'
  BY <1>1, <1>2 DEF Sending, Reach, sender, seen, Status, Holding, Left
<1> QED
  BY <1>1, <1>3, Elsewhere DEF Sending

\* Where nobody has a copy this step and no bound falls, only those ahead count.
LEMMA OnceKept ==
  ASSUME TypeOK, Once, UNCHANGED copies, lost' \in [Broadcasts -> Nat],
         \A b \in Broadcasts : lost[b] <= lost'[b] /\ Ahead(b)' \subseteq Ahead(b)
  PROVE  Once'
<1> SUFFICES ASSUME NEW b \in Broadcasts, NEW u \in Users
             PROVE  copies'[b][u] <= lost'[b] + (IF u \in Ahead(b)' THEN 0 ELSE 1)
  BY DEF Once
<1>1. copies[b][u] \in Nat /\ lost[b] \in Nat /\ lost'[b] \in Nat
  BY Rows, BoundsAssumption
<1>2. copies[b][u] <= lost[b] + (IF u \in Ahead(b) THEN 0 ELSE 1)
  BY DEF Once
<1> QED
  BY <1>1, <1>2

\* The administrator moves a broadcast on; whose batch is in hand stays so.
LEMMA AdminKeeps ==
  ASSUME TypeOK, Sending, NEW b \in Broadcasts,
         CreateBroadcast(b) \/ StartBroadcast(b) \/ CancelBroadcast(b)
  PROVE  Sending'
<1>0. RowsOK /\ SenderOK /\ SeenOK
  BY TypeParts
<1>1. /\ UNCHANGED <<users, sender, copies, tried, lost, late, told>>
      /\ bcs \in [Broadcasts -> Row]
      /\ job \in Broadcasts \/ pc = "idle"
  BY <1>0, JobIsOne DEF CreateBroadcast, StartBroadcast, CancelBroadcast, seen, RowsOK
<1>2. \A c \in Broadcasts :
        /\ bcs'[c].last = bcs[c].last /\ bcs'[c].sent = bcs[c].sent
        /\ bcs'[c].failed = bcs[c].failed /\ (c # b => bcs'[c].status = bcs[c].status)
  BY <1>1 DEF CreateBroadcast, StartBroadcast, CancelBroadcast, Row
<1>3. \/ bcs[b].status = "none" /\ bcs'[b].status = "draft" /\ owed' = owed
      \/ /\ bcs[b].status = "draft" /\ bcs'[b].status = "running"
         /\ owed' = [owed EXCEPT ![b] = BroadcastAudience]
      \/ /\ bcs[b].status \in {"draft", "running"} /\ bcs'[b].status = "cancelled"
         /\ owed' = owed
  BY <1>1 DEF CreateBroadcast, StartBroadcast, CancelBroadcast, Row, Status, seen
<1>4. UNCHANGED <<pc, job, todo, tally, flooded, registered, blockedAt>>
  BY <1>1 DEF sender, users
<1>5. Past' = Past /\ Holding' = Holding /\ Left' = Left
  BY <1>4 DEF Past, Holding, Left
<1>6. \A c \in Broadcasts : Behind(c)' = Behind(c) /\ Got(c)' = Got(c)
  BY <1>1, <1>2 DEF Behind, Got
<1>7. Holding => pc # "idle"
  BY DEF Holding
<1>8. InHand'
  BY <1>1, <1>2, <1>3, <1>4, <1>7 DEF Sending, InHand, Holding, Status
<1>9. Reach'
  <2>1. Holding' => Left' \subseteq registered'
    BY <1>4, <1>5 DEF Sending, Reach
  <2>2. \A c \in Broadcasts : owed'[c] \subseteq BroadcastAudience'
    BY <1>0, <1>3, <1>4 DEF Sending, Reach, BroadcastAudience, SeenOK
  <2>3. \A c \in Broadcasts : bcs'[c].status \in {"none", "draft"} => bcs'[c].last = 0
    BY <1>2, <1>3 DEF Sending, Reach, Status
  <2> QED
    BY <2>1, <2>2, <2>3 DEF Reach, Status
<1>10. Covered'
  <2>1. ASSUME NEW c \in Broadcasts, NEW u \in owed'[c],
               bcs'[c].status = "done" \/ u <= bcs'[c].last
        PROVE  u \in tried'[c]
    <3>1. CASE u \in owed[c]
      <4>1. bcs[c].status = "done" \/ u <= bcs[c].last
        BY <1>2, <1>3, <2>1
      <4> QED
        BY <1>1, <3>1, <4>1 DEF Sending, Covered, NobodySkipped, Status
    <3>2. CASE u \notin owed[c]
      <4>1. c = b /\ bcs[b].status = "draft" /\ bcs'[b].status = "running" /\ u \in Users
        <5>1. BroadcastAudience \subseteq Users
          BY TypeParts DEF UsersOK, BroadcastAudience
        <5> QED
          BY <1>0, <1>3, <2>1, <3>2, <5>1 DEF SeenOK
      <4>2. bcs'[c].last = 0
        BY <1>2, <4>1 DEF Sending, Reach, Status
      <4> QED
        BY <2>1, <4>1, <4>2 DEF Users
    <3> QED
      BY <3>1, <3>2
  <2>2. NobodySkipped'
    BY <2>1 DEF NobodySkipped, Status
  <2>3. pc # "idle" => owed'[job] = owed[job]
    BY <1>0, <1>1, <1>3 DEF Sending, InHand, Status, SenderOK, SeenOK
  <2> QED
    BY <1>1, <1>4, <1>5, <1>7, <2>2, <2>3 DEF Sending, Covered
<1>11. Once'
  <2>1. \A c \in Broadcasts : Ahead(c)' \subseteq Ahead(c)
    BY <1>2, <1>3, <1>4, <1>5, <1>6 DEF Ahead, Status
  <2>2. lost' \in [Broadcasts -> Nat] /\ \A c \in Broadcasts : lost[c] <= lost'[c]
    BY <1>0, <1>1, BoundsAssumption DEF SeenOK
  <2> QED
    BY <1>1, <2>1, <2>2, OnceKept DEF Sending
<1>12. Numbers'
  <2>1. Numbers
    BY DEF Sending
  <2> QED
    BY <1>1, <1>2, <1>4, <1>5, <1>6, <1>7, <2>1 DEF Numbers
<1>13. Late' /\ Told'
  BY <1>1, <1>2, <1>3, <1>4, <1>7 DEF Sending, Late, Told, ToldOnceDone, Holding, Status
<1> QED
  BY <1>8, <1>9, <1>10, <1>11, <1>12, <1>13 DEF Sending

-----------------------------------------------------------------------------
(***************************************************************************)
(* What the sender does.                                                   *)
(***************************************************************************)

\* At idle, and between two batches, what is asked of the table is all there is.
LEMMA NotHolding ==
  ASSUME TypeOK, Sending, UNCHANGED <<users, copies, tried, owed, late>>, lost' \in [Broadcasts -> Nat],
         \A b \in Broadcasts : lost[b] <= lost'[b],
         bcs' = bcs, ~Holding, pc' \in {"idle", "targets"},
         pc' = "targets" => pc = "idle" /\ job' \in Broadcasts /\ Runs(job'),
         pc' = "idle" => job' = 0, told' = told
  PROVE  Sending'
<1>1. ~Holding' /\ InHand' /\ Reach'
  BY DEF Sending, InHand, Reach, Holding, Runs, Status, users, BroadcastAudience
<1>2. Covered'
  BY <1>1 DEF Sending, Covered, NobodySkipped, Status
<1>3. Once'
  <2>1. \A b \in Broadcasts : Ahead(b)' \subseteq Ahead(b)
    <3>1. job' \notin Broadcasts \/ Status(job') = "running"
      BY DEF Runs, Broadcasts
    <3> QED
      BY <1>1, <3>1 DEF Ahead, Status, Behind
  <2> QED
    BY <2>1, OnceKept DEF Sending
<1>4. Numbers'
  BY <1>1 DEF Sending, Numbers, Got, Behind
<1>5. Late' /\ Told'
  BY <1>1 DEF Sending, Late, Told, ToldOnceDone, Status, Runs
<1> QED
  BY <1>1, <1>2, <1>3, <1>4, <1>5 DEF Sending

\* Taking up a broadcast.
LEMMA NextRunningKeeps ==
  ASSUME TypeOK, Sending, NextRunningBroadcast
  PROVE  Sending'
<1>1. lost \in [Broadcasts -> Nat] /\ \A b \in Broadcasts : lost[b] <= lost[b]
  BY BoundsAssumption DEF TypeOK
<1>2. UNCHANGED <<users, copies, tried, owed, late, lost, told, bcs>>
  BY DEF NextRunningBroadcast, seen
<1>3. pc = "idle" /\ pc' = "targets" /\ job' \in Broadcasts /\ Runs(job') /\ ~Holding
  BY DEF NextRunningBroadcast, Holding
<1> QED
  BY <1>1, <1>2, <1>3, NotHolding

\* Reading a batch: whoever is owed a copy is in it, ahead of it, or tried.
LEMMA TargetsKeep ==
  ASSUME TypeOK, Sending, BroadcastTargets
  PROVE  Sending'
<1>0. RowsOK /\ SenderOK /\ SeenOK /\ UsersOK
  BY TypeParts
<1>1. pc = "targets" /\ job \in Broadcasts /\ todo' = Page(After(job)) /\ ~Holding
  BY JobIsOne DEF BroadcastTargets, Holding
<1>2. UNCHANGED <<users, bcs, job, flooded, copies, tried, owed, lost, late, told>>
  BY DEF BroadcastTargets, seen
<1>3. bcs[job].status \in {"running", "cancelled"} /\ late[job] = 0
  BY <1>1 DEF Sending, InHand, Late, Status
<1>4. owed[job] \subseteq BroadcastAudience /\ After(job) \in SUBSET Users
  BY <1>0, <1>1 DEF Sending, Reach, BroadcastAudience, After, UsersOK
<1>5. owed[job] \cap Behind(job) \subseteq tried[job]
  BY <1>1 DEF Sending, Covered, NobodySkipped, Behind
<1>6. CASE todo' = << >>
  <2>1. pc' = "finish" /\ tally' = tally /\ ~Holding'
    BY <1>6 DEF BroadcastTargets, Holding
  <2>2. After(job) = {}
    BY <1>1, <1>4, <1>6, PageFacts
  <2>3. \A u \in owed[job] : u \in Behind(job)
    BY <1>0, <1>1, <1>4, <2>2, Rows DEF After, Behind, BroadcastAudience, UsersOK, Users
  <2>4. InHand' /\ Reach'
    BY <1>2, <1>3, <2>1 DEF Sending, InHand, Reach, Holding, Status, users, BroadcastAudience
  <2>5. Covered'
    BY <1>2, <1>5, <2>1, <2>3 DEF Sending, Covered, NobodySkipped, Status
  <2>6. Once'
    <3>1. \A b \in Broadcasts : Ahead(b)' \subseteq Ahead(b)
      BY <1>1, <1>2, <2>1 DEF Ahead, Status, Behind
    <3>2. lost' \in [Broadcasts -> Nat] /\ \A c \in Broadcasts : lost[c] <= lost'[c]
      BY <1>0, <1>2, BoundsAssumption DEF SeenOK
    <3> QED
      BY <1>2, <3>1, <3>2, OnceKept DEF Sending
  <2>7. Numbers' /\ Late' /\ Told'
    BY <1>2, <2>1 DEF Sending, Numbers, Got, Behind, Late, Told, ToldOnceDone, Status
  <2> QED
    BY <2>4, <2>5, <2>6, <2>7 DEF Sending
<1>7. CASE todo' # << >>
  <2>1. pc' = "copy" /\ tally' = [NoBatch EXCEPT !.last = todo'[Len(todo')]] /\ Holding'
    BY <1>7 DEF BroadcastTargets, Holding
  <2>2. tally'.last = todo'[Len(todo')] /\ tally'.sent = 0 /\ tally'.failed = 0
    BY <2>1 DEF NoBatch
  <2>3. /\ Len(todo') <= Batch /\ Len(todo') \in Nat
        /\ \A i, j \in 1..Len(todo') : i < j => todo'[i] < todo'[j]
        /\ \A i \in 1..Len(todo') : bcs[job].last < todo'[i] /\ todo'[i] <= tally'.last
        /\ bcs[job].last <= tally'.last
        /\ Behind(job) \subseteq Past'
        /\ BroadcastAudience \cap Past' \subseteq Behind(job)
        /\ Left' \subseteq registered
    BY <1>1, <1>7, <2>2, NewBatch
  <2>4. InHand'
    BY <1>2, <1>3, <2>1, <2>3 DEF InHand, Holding, Status
  <2>5. Reach'
    BY <1>2, <2>3 DEF Sending, Reach, Status, users, BroadcastAudience
  <2>6. Covered'
    BY <1>2, <1>4, <1>5, <2>1, <2>3 DEF Sending, Covered, NobodySkipped, Status
  <2>7. Once'
    <3>1. \A b \in Broadcasts : Ahead(b)' \subseteq Ahead(b)
      BY <1>1, <1>2, <2>1, <2>3 DEF Ahead, Status, Behind
    <3>2. lost' \in [Broadcasts -> Nat] /\ \A c \in Broadcasts : lost[c] <= lost'[c]
      BY <1>0, <1>2, BoundsAssumption DEF SeenOK
    <3> QED
      BY <1>2, <3>1, <3>2, OnceKept DEF Sending
  <2>8. Numbers'
    <3>1. /\ bcs[job].sent <= Cardinality(Got(job) \cap Behind(job))
          /\ bcs[job].sent + bcs[job].failed <= Cardinality(tried[job] \cap Behind(job))
      BY <1>1 DEF Sending, Numbers
    <3>2. Cardinality(Got(job) \cap Behind(job)) <= Cardinality(Got(job) \cap Past')
      <4>1. Got(job) \cap Past' \in SUBSET Users
        BY DEF Got
      <4>2. Got(job) \cap Behind(job) \in SUBSET (Got(job) \cap Past')
        BY <2>3
      <4> QED
        BY <4>1, <4>2, Growing
    <3>3. Cardinality(tried[job] \cap Behind(job)) <= Cardinality(tried[job] \cap Past')
      <4>1. tried[job] \cap Past' \in SUBSET Users
        BY <1>1, Rows
      <4>2. tried[job] \cap Behind(job) \in SUBSET (tried[job] \cap Past')
        BY <2>3
      <4> QED
        BY <4>1, <4>2, Growing
    <3>4. bcs[job].sent \in Nat /\ bcs[job].failed \in Nat
      BY <1>1, Rows
    <3>5. /\ Cardinality(Got(job) \cap Past') \in Nat
          /\ Cardinality(Got(job) \cap Behind(job)) \in Nat
          /\ Cardinality(tried[job] \cap Past') \in Nat
          /\ Cardinality(tried[job] \cap Behind(job)) \in Nat
      BY <1>1, Rows, Counting DEF Got
    <3>6. \A b \in Broadcasts : Got(b)' = Got(b) /\ Behind(b)' = Behind(b)
      BY <1>2 DEF Got, Behind
    <3>7. /\ bcs[job].sent + tally'.sent <= Cardinality(Got(job) \cap Past')
          /\ bcs[job].sent + tally'.sent + bcs[job].failed + tally'.failed
               <= Cardinality(tried[job] \cap Past')
      BY <2>2, <3>1, <3>2, <3>3, <3>4, <3>5
    <3>8. Numbers
      BY DEF Sending
    <3> QED
      BY <1>1, <1>2, <3>6, <3>7, <3>8 DEF Numbers
  <2>9. Late' /\ Told'
    BY <1>2, <1>3, <2>1, <2>3 DEF Sending, Late, Told, ToldOnceDone, Status
  <2> QED
    BY <2>4, <2>5, <2>6, <2>7, <2>8, <2>9 DEF Sending
<1> QED
  BY <1>6, <1>7

\* One call of CopyMessage, or the mark after it, is done with the next one.
LEMMA OneHandled ==
  ASSUME TypeOK, Sending, SeenOK', Holding, todo # << >>, pc' = "copy",
         NEW field \in {"sent", "failed"}, Handled(field),
         UNCHANGED <<bcs, job, lost, told>>,
         Arrives(Head(todo)) \/ (UNCHANGED <<copies, late>> /\ field = "failed"),
         tried'[job] = tried[job] \cup {Head(todo)},
         \A b \in Broadcasts : b # job => tried'[b] = tried[b],
         \A b \in Broadcasts : owed'[b] \subseteq owed[b],
         Reach'
  PROVE  Sending'
<1> DEFINE u == Head(todo)
<1>0. RowsOK /\ SenderOK /\ SeenOK /\ job \in Broadcasts /\ Holding'
  BY TypeParts, JobIsOne DEF Holding
<1>1. /\ todo' = Tail(todo) /\ todo' \in Seq(Users) /\ tally' \in Count
      /\ tally'.last = tally.last
      /\ tally'.sent = tally.sent + (IF field = "sent" THEN 1 ELSE 0)
      /\ tally'.failed = tally.failed + (IF field = "failed" THEN 1 ELSE 0)
  BY <1>0, HandledTypes
<1>2. /\ u \in Users /\ u \notin Past /\ Len(todo') = Len(todo) - 1
      /\ \A i, j \in 1..Len(todo') : i < j => todo'[i] < todo'[j]
      /\ \A i \in 1..Len(todo') : bcs[job].last < todo'[i] /\ todo'[i] <= tally.last
      /\ Past' = Past \cup {u}
  BY <1>1, OneFurther DEF Sending
<1>3. /\ \A b \in Broadcasts : \A v \in Users :
           /\ copies[b][v] <= copies'[b][v]
           /\ ~(b = job /\ v = u) => copies'[b][v] = copies[b][v]
      /\ copies'[job][u] <= copies[job][u] + 1
      /\ \A b \in Broadcasts : b # job => late'[b] = late[b]
      /\ late'[job] <= late[job] + 1
      /\ Status(job) # "cancelled" => late'[job] = late[job]
  BY <1>0, <1>2, ArrivesTypes
<1>4. \A b \in Broadcasts : \A v \in Users :
        copies[b][v] \in Nat /\ copies'[b][v] \in Nat /\ late[b] \in Nat /\ late'[b] \in Nat
          /\ lost[b] \in Nat /\ tried[b] \in SUBSET Users /\ tried'[b] \in SUBSET Users
  <2>1. SeenOK /\ SeenOK'
    BY <1>0
  <2> TAKE b \in Broadcasts
  <2> TAKE v \in Users
  <2>2. copies[b][v] \in Nat /\ copies'[b][v] \in Nat /\ late[b] \in Nat /\ late'[b] \in Nat
    BY <2>1 DEF SeenOK
  <2>3. lost[b] \in Nat /\ tried[b] \in SUBSET Users /\ tried'[b] \in SUBSET Users
    <3>1. lost[b] \in 0..MaxLost /\ tried[b] \in SUBSET Users
      BY Rows
    <3>2. tried'[b] \in SUBSET Users
      BY <2>1 DEF SeenOK
    <3> QED
      BY <3>1, <3>2, BoundsAssumption
  <2> QED
    BY <2>2, <2>3
<1>5. \A b \in Broadcasts : Behind(b)' = Behind(b) /\ bcs'[b].status = bcs[b].status
  BY DEF Behind
<1>6. InHand'
  <2>1. bcs[job].status \in {"running", "cancelled"} /\ bcs[job].last <= tally.last
    BY DEF Sending, InHand, Holding, Status
  <2> QED
    BY <1>0, <1>1, <1>2, <2>1 DEF InHand, Status
<1>7. Covered'
  <2>1. \A b \in Broadcasts : tried[b] \subseteq tried'[b]
    OBVIOUS
  <2>2. NobodySkipped'
    BY <2>1 DEF Sending, Covered, NobodySkipped, Status
  <2>3. owed'[job] \cap Past' \subseteq tried'[job]
    BY <1>0, <1>2, <2>1 DEF Sending, Covered
  <2> QED
    BY <1>0, <2>2, <2>3 DEF Covered
<1>8. Once'
  <2> SUFFICES ASSUME NEW b \in Broadcasts, NEW v \in Users
               PROVE  copies'[b][v] <= lost'[b] + (IF v \in Ahead(b)' THEN 0 ELSE 1)
    BY DEF Once
  <2>1. copies[b][v] <= lost[b] + (IF v \in Ahead(b) THEN 0 ELSE 1)
    BY DEF Sending, Once
  <2>2. CASE b = job
    <3>1. Ahead(b) = Users \ Past /\ Ahead(b)' = Users \ Past'
      BY <1>0, <2>2 DEF Ahead
    <3>2. CASE v = u
      BY <1>2, <1>3, <1>4, <2>1, <2>2, <3>1, <3>2
    <3>3. CASE v # u
      BY <1>2, <1>3, <2>1, <2>2, <3>1, <3>3
    <3> QED
      BY <3>2, <3>3
  <2>3. CASE b # job
    <3>1. Ahead(b)' = Ahead(b)
      BY <1>5, <2>3 DEF Ahead, Status
    <3> QED
      BY <1>3, <2>1, <2>3, <3>1
  <2> QED
    BY <2>2, <2>3
<1>9. Numbers'
  <2>1. ASSUME NEW b \in Broadcasts
        PROVE  /\ bcs'[b].sent <= Cardinality(Got(b)' \cap Behind(b)')
               /\ bcs'[b].sent + bcs'[b].failed <= Cardinality(tried'[b] \cap Behind(b)')
    <3>1. Got(b)' \cap Behind(b)' \in SUBSET Users /\ tried'[b] \cap Behind(b)' \in SUBSET Users
      BY DEF Got, Behind
    <3>2. Got(b) \cap Behind(b) \in SUBSET (Got(b)' \cap Behind(b)')
      <4>1. \A v \in Users : copies[b][v] > 0 => copies'[b][v] > 0
        BY <1>3, <1>4
      <4> QED
        BY <1>5, <4>1 DEF Got
    <3>3. tried[b] \cap Behind(b) \in SUBSET (tried'[b] \cap Behind(b)')
      BY <1>5
    <3>4. /\ bcs[b].sent <= Cardinality(Got(b) \cap Behind(b))
          /\ bcs[b].sent + bcs[b].failed <= Cardinality(tried[b] \cap Behind(b))
      BY DEF Sending, Numbers
    <3>5. /\ Cardinality(Got(b) \cap Behind(b)) <= Cardinality(Got(b)' \cap Behind(b)')
          /\ Cardinality(Got(b) \cap Behind(b)) \in Nat
          /\ Cardinality(Got(b)' \cap Behind(b)') \in Nat
      BY <3>1, <3>2, Growing
    <3>6. /\ Cardinality(tried[b] \cap Behind(b)) <= Cardinality(tried'[b] \cap Behind(b)')
          /\ Cardinality(tried[b] \cap Behind(b)) \in Nat
          /\ Cardinality(tried'[b] \cap Behind(b)') \in Nat
      BY <3>1, <3>3, Growing
    <3>7. bcs[b].sent \in Nat /\ bcs[b].failed \in Nat /\ bcs' = bcs
      BY Rows
    <3> QED
      BY <3>4, <3>5, <3>6, <3>7
  <2>2. Got(job)' \cap Past' \in SUBSET Users /\ tried'[job] \cap Past' \in SUBSET Users
    BY DEF Got, Past
  <2>3. /\ bcs[job].sent + tally.sent <= Cardinality(Got(job) \cap Past)
        /\ bcs[job].sent + tally.sent + bcs[job].failed + tally.failed
             <= Cardinality(tried[job] \cap Past)
    BY DEF Sending, Numbers
  <2>4. \A v \in Users : copies[job][v] > 0 => copies'[job][v] > 0
    BY <1>0, <1>3, <1>4
  <2>5. Got(job)' = {v \in Users : copies'[job][v] > 0}
    BY DEF Got
  <2>6. Got(job) \cap Past \in SUBSET (Got(job)' \cap Past')
    BY <1>2, <2>4, <2>5 DEF Got
  <2>7. tried[job] \cap Past \in SUBSET (tried'[job] \cap Past')
    BY <1>2
  <2>8. /\ Cardinality(Got(job) \cap Past) \in Nat
        /\ Cardinality(Got(job)' \cap Past') \in Nat
        /\ Cardinality(Got(job) \cap Past) <= Cardinality(Got(job)' \cap Past')
        /\ \A x \in (Got(job)' \cap Past') \ (Got(job) \cap Past) :
              Cardinality(Got(job) \cap Past) + 1 <= Cardinality(Got(job)' \cap Past')
    BY <2>2, <2>6, Growing
  <2>9. /\ Cardinality(tried[job] \cap Past) \in Nat
        /\ Cardinality(tried'[job] \cap Past') \in Nat
        /\ \A x \in (tried'[job] \cap Past') \ (tried[job] \cap Past) :
              Cardinality(tried[job] \cap Past) + 1 <= Cardinality(tried'[job] \cap Past')
    BY <2>2, <2>7, Growing
  <2>10. Cardinality(tried[job] \cap Past) + 1 <= Cardinality(tried'[job] \cap Past')
    BY <1>2, <2>9
  <2>11. field = "sent" => Cardinality(Got(job) \cap Past) + 1 <= Cardinality(Got(job)' \cap Past')
    <3> SUFFICES ASSUME field = "sent" PROVE u \in Got(job)'
      BY <1>2, <2>8
    <3>1. copies'[job][u] = copies[job][u] + 1
      BY <1>0, <1>2 DEF Arrives, SeenOK
    <3> QED
      BY <1>0, <1>2, <1>4, <2>5, <3>1
  <2>12. /\ bcs[job].sent \in Nat /\ bcs[job].failed \in Nat
         /\ tally.sent \in Nat /\ tally.failed \in Nat
    BY <1>0, Rows DEF SenderOK, Count
  <2>13. /\ bcs[job].sent + tally'.sent <= Cardinality(Got(job)' \cap Past')
         /\ bcs[job].sent + tally'.sent + bcs[job].failed + tally'.failed
              <= Cardinality(tried'[job] \cap Past')
    <3> DEFINE g == Cardinality(Got(job) \cap Past)
               h == Cardinality(Got(job)' \cap Past')
               r == Cardinality(tried[job] \cap Past)
               w == Cardinality(tried'[job] \cap Past')
    <3>1. /\ g \in Nat /\ h \in Nat /\ g <= h /\ (field = "sent" => g + 1 <= h)
          /\ r \in Nat /\ w \in Nat /\ r + 1 <= w
      BY <2>8, <2>9, <2>10, <2>11
    <3>2. /\ bcs[job].sent + tally.sent <= g
          /\ bcs[job].sent + tally.sent + bcs[job].failed + tally.failed <= r
      BY <2>3
    <3> HIDE DEF g, h, r, w
    <3>3. /\ bcs[job].sent + tally'.sent <= h
          /\ bcs[job].sent + tally'.sent + bcs[job].failed + tally'.failed <= w
      <4> DEFINE rs == bcs[job].sent
                 rf == bcs[job].failed
                 ts == tally.sent
                 tf == tally.failed
                 s == tally'.sent
                 f == tally'.failed
      <4>1. rs \in Nat /\ rf \in Nat /\ ts \in Nat /\ tf \in Nat
        BY <2>12
      <4>2. \/ s = ts + 1 /\ f = tf + 0 /\ g + 1 <= h
            \/ s = ts + 0 /\ f = tf + 1
        BY <1>1, <3>1
      <4>3. rs + ts <= g /\ rs + ts + rf + tf <= r
        BY <3>2
      <4> HIDE DEF rs, rf, ts, tf, s, f
      <4>4. rs + s <= h /\ rs + s + rf + f <= w
        BY <3>1, <4>1, <4>2, <4>3
      <4> QED
        BY <4>4 DEF rs, rf, s, f
    <3> QED
      BY <3>3 DEF h, w
  <2>14. bcs' = bcs /\ job' = job
    OBVIOUS
  <2> QED
    BY <2>1, <2>13, <2>14 DEF Numbers
<1>10. Late'
  <2>1. /\ \A b \in Broadcasts : late[b] <= Batch /\ (bcs[b].status # "cancelled" => late[b] = 0)
        /\ late[job] + Len(todo) <= Batch
    BY DEF Sending, Late, Status
  <2>2. Len(todo') \in Nat /\ Len(todo) \in Nat
    BY <1>0, <1>1 DEF SenderOK
  <2>3. late'[job] + Len(todo') <= Batch
    BY <1>0, <1>2, <1>3, <1>4, <2>1, <2>2, BoundsAssumption
  <2>4. \A b \in Broadcasts : late'[b] <= Batch /\ (bcs'[b].status # "cancelled" => late'[b] = 0)
    <3> TAKE b \in Broadcasts
    <3>1. late'[job] \in Nat /\ Batch \in Nat
      BY <1>0, <1>2, <1>4, BoundsAssumption
    <3>2. CASE b = job
      BY <1>3, <2>1, <2>2, <2>3, <3>1, <3>2 DEF Status
    <3>3. CASE b # job
      BY <1>3, <2>1, <3>3
    <3> QED
      BY <3>2, <3>3
  <2> QED
    BY <2>3, <2>4 DEF Late, Status
<1>11. Told'
  BY DEF Sending, Told, ToldOnceDone, Status
<1> QED
  BY <1>6, <1>7, <1>8, <1>9, <1>10, <1>11 DEF Sending

\* One call of CopyMessage, however it ends.
LEMMA CopyKeeps ==
  ASSUME TypeOK, Sending, Copy
  PROVE  Sending'
<1> DEFINE u == Head(todo)
<1>0. RowsOK /\ SenderOK /\ SeenOK /\ job \in Broadcasts /\ Holding /\ SeenOK'
  BY TypeParts, JobIsOne, CopyTypes DEF Holding, Copy
<1>1. pc = "copy" /\ todo # << >> /\ UNCHANGED <<users, bcs, job>>
  BY DEF Copy
<1>2. tried \in [Broadcasts -> SUBSET Users]
  BY <1>0 DEF SeenOK
<1>3. CASE CopyOk(u) \/ CopyFails(u)
  <2>1. PICK field \in {"sent", "failed"} :
          /\ Handled(field)
          /\ Arrives(u) \/ (UNCHANGED <<copies, late>> /\ field = "failed")
    BY <1>3 DEF CopyOk, CopyFails
  <2>2. Tried(u) /\ UNCHANGED <<pc, owed, lost, told>>
    BY <1>3 DEF CopyOk, CopyFails
  <2>3. /\ tried'[job] = tried[job] \cup {u}
        /\ \A b \in Broadcasts : b # job => tried'[b] = tried[b]
    BY <1>0, <1>2, <2>2 DEF Tried
  <2>4. Left' \subseteq Left
    BY <1>0, <1>1, <2>1, HandledTypes, OneFurther DEF Sending
  <2>5. Reach'
    BY <1>0, <1>1, <2>2, <2>4 DEF Sending, Reach, Status, users, BroadcastAudience
  <2> QED
    BY <1>0, <1>1, <2>1, <2>2, <2>3, <2>5, OneHandled
<1>4. CASE CopyFlood(u)
  <2>1. UNCHANGED <<pc, job, todo, tally, bcs, seen, users>>
    BY <1>1, <1>4 DEF CopyFlood
  <2>2. InHand' /\ Reach' /\ Late' /\ Told'
    BY <2>1 DEF Sending, InHand, Reach, Late, Told, ToldOnceDone, seen, users,
                Status, Holding, Left, BroadcastAudience
  <2>3. Covered' /\ Once'
    BY <2>1 DEF Sending, Covered, NobodySkipped, Once, Ahead, seen, Status, Holding,
                Left, Past, Behind
  <2>4. Numbers'
    BY <2>1 DEF Sending, Numbers, Got, seen, Holding, Left, Past, Behind
  <2> QED
    BY <2>2, <2>3, <2>4 DEF Sending
<1>5. CASE CopyRefused(u)
  <2>1. UNCHANGED <<job, todo, tally, bcs, users, copies, owed, lost, late, told>> /\ pc' = "mark"
    BY <1>1, <1>5 DEF CopyRefused
  <2>2. /\ tried'[job] = tried[job] \cup {u}
        /\ \A b \in Broadcasts : b # job => tried'[b] = tried[b]
    BY <1>0, <1>2, <1>5 DEF CopyRefused, Tried
  <2>3. Holding' /\ Past' = Past /\ Left' = Left
    BY <2>1 DEF Holding, Past, Left
  <2>4. \A b \in Broadcasts : Behind(b)' = Behind(b) /\ Got(b)' = Got(b)
    BY <2>1 DEF Behind, Got
  <2>5. InHand' /\ Reach' /\ Late' /\ Told'
    BY <1>0, <1>1, <2>1, <2>2, <2>3 DEF Sending, InHand, Reach, Late, Told, ToldOnceDone, users,
                Status, Holding, BroadcastAudience
  <2>6. \A b \in Broadcasts : tried[b] \subseteq tried'[b]
    BY <2>2
  <2>7. Covered'
    BY <1>0, <2>1, <2>3, <2>6 DEF Sending, Covered, NobodySkipped, Status
  <2>8. Once'
    <3>1. \A b \in Broadcasts : Ahead(b)' \subseteq Ahead(b)
      BY <1>0, <2>1, <2>3, <2>4 DEF Ahead, Status
    <3>2. lost' \in [Broadcasts -> Nat] /\ \A c \in Broadcasts : lost[c] <= lost'[c]
      BY <1>0, <2>1, BoundsAssumption DEF SeenOK
    <3> QED
      BY <2>1, <3>1, <3>2, OnceKept DEF Sending
  <2>9. Numbers'
    <3>1. \A b \in Broadcasts : tried[b] \subseteq tried'[b] /\ tried'[b] \in SUBSET Users
      BY <1>0, <2>6 DEF SeenOK
    <3>2. ASSUME NEW b \in Broadcasts, NEW S \in SUBSET Users
          PROVE  /\ Cardinality(tried[b] \cap S) <= Cardinality(tried'[b] \cap S)
                 /\ Cardinality(tried[b] \cap S) \in Nat /\ Cardinality(tried'[b] \cap S) \in Nat
      <4>1. tried[b] \cap S \in SUBSET (tried'[b] \cap S) /\ tried'[b] \cap S \in SUBSET Users
        BY <3>1
      <4> QED
        BY <4>1, Growing
    <3>3. ASSUME NEW b \in Broadcasts
          PROVE  bcs[b].sent + bcs[b].failed <= Cardinality(tried'[b] \cap Behind(b))
      <4>1. Behind(b) \in SUBSET Users
        BY DEF Behind
      <4>2. bcs[b].sent + bcs[b].failed <= Cardinality(tried[b] \cap Behind(b))
        BY DEF Sending, Numbers
      <4>3. bcs[b].sent + bcs[b].failed \in Nat
        BY Rows
      <4>4. /\ Cardinality(tried[b] \cap Behind(b)) <= Cardinality(tried'[b] \cap Behind(b))
            /\ Cardinality(tried[b] \cap Behind(b)) \in Nat
            /\ Cardinality(tried'[b] \cap Behind(b)) \in Nat
        BY <3>2, <4>1
      <4> DEFINE x == bcs[b].sent + bcs[b].failed
                 y == Cardinality(tried[b] \cap Behind(b))
                 z == Cardinality(tried'[b] \cap Behind(b))
      <4>5. x \in Nat /\ y \in Nat /\ z \in Nat /\ x <= y /\ y <= z
        BY <4>2, <4>3, <4>4
      <4> HIDE DEF x, y, z
      <4>6. x <= z
        BY <4>5
      <4> QED
        BY <4>6 DEF x, z
    <3>4. bcs[job].sent + tally.sent + bcs[job].failed + tally.failed
            <= Cardinality(tried'[job] \cap Past)
      <4>1. Past \in SUBSET Users
        BY DEF Past
      <4>2. bcs[job].sent + tally.sent + bcs[job].failed + tally.failed
              <= Cardinality(tried[job] \cap Past)
        BY <1>0 DEF Sending, Numbers
      <4>3. /\ bcs[job].sent \in Nat /\ bcs[job].failed \in Nat
            /\ tally.sent \in Nat /\ tally.failed \in Nat
        BY <1>0, Rows DEF SenderOK, Count
      <4>4. /\ Cardinality(tried[job] \cap Past) <= Cardinality(tried'[job] \cap Past)
            /\ Cardinality(tried[job] \cap Past) \in Nat
            /\ Cardinality(tried'[job] \cap Past) \in Nat
        BY <1>0, <3>2, <4>1
      <4> DEFINE x == bcs[job].sent + tally.sent + bcs[job].failed + tally.failed
                 y == Cardinality(tried[job] \cap Past)
                 z == Cardinality(tried'[job] \cap Past)
      <4>5. x \in Nat /\ y \in Nat /\ z \in Nat /\ x <= y /\ y <= z
        BY <4>2, <4>3, <4>4
      <4> HIDE DEF x, y, z
      <4>6. x <= z
        BY <4>5
      <4> QED
        BY <4>6 DEF x, z
    <3>5. Numbers
      BY DEF Sending
    <3> QED
      BY <1>0, <2>1, <2>3, <2>4, <3>3, <3>4, <3>5 DEF Numbers
  <2> QED
    BY <2>5, <2>7, <2>8, <2>9 DEF Sending
<1> QED
  BY <1>3, <1>4, <1>5 DEF Copy

\* The mark after a 403.
LEMMA MarkKeeps ==
  ASSUME TypeOK, Sending, MarkUserBlocked, TypeOK'
  PROVE  Sending'
<1> DEFINE u == Head(todo)
<1>0. RowsOK /\ SenderOK /\ SeenOK /\ job \in Broadcasts /\ Holding /\ SeenOK'
  BY TypeParts, JobIsOne DEF Holding, MarkUserBlocked
<1>1. /\ pc = "mark" /\ pc' = "copy" /\ todo # << >> /\ u \in tried[job] /\ Handled("failed")
  BY DEF Sending, InHand, MarkUserBlocked
<1>2. /\ \/ blockedAt' = blockedAt \cup {u} /\ owed' = [b \in Broadcasts |-> owed[b] \ {u}]
         \/ UNCHANGED <<blockedAt, owed>>
      /\ UNCHANGED <<registered, bcs, job, copies, tried, lost, late, told>>
  BY DEF MarkUserBlocked
<1>3. Left' \subseteq Left
  BY <1>0, <1>1, HandledTypes, OneFurther DEF Sending
<1>4. Reach'
  <2>1. \A b \in Broadcasts : owed'[b] \subseteq registered' \ blockedAt'
    BY <1>2 DEF Sending, Reach, BroadcastAudience
  <2> QED
    BY <1>0, <1>2, <1>3, <2>1 DEF Sending, Reach, Status, BroadcastAudience
<1>5. /\ tried'[job] = tried[job] \cup {u}
      /\ \A b \in Broadcasts : b # job => tried'[b] = tried[b]
      /\ \A b \in Broadcasts : owed'[b] \subseteq owed[b]
  BY <1>1, <1>2
<1> QED
  BY <1>0, <1>1, <1>2, <1>4, <1>5, OneHandled

\* The commit of a batch: the cursor takes over what the batch is past.
LEMMA AdvanceKeeps ==
  ASSUME TypeOK, Sending, AdvanceBroadcast
  PROVE  Sending'
<1>0. RowsOK /\ SenderOK /\ SeenOK /\ job \in Broadcasts /\ Holding
  BY TypeParts, JobIsOne DEF Holding, AdvanceBroadcast
<1>1. /\ pc = "copy" /\ todo = << >> /\ UNCHANGED <<users, copies, tried, owed, lost, late, told>>
      /\ pc' = "idle" /\ job' = 0
  BY DEF AdvanceBroadcast, Idle, seen
<1>2. Past = {v \in Users : v <= tally.last}
  BY <1>1 DEF Past, Left, Members
<1>3. bcs[job].last <= tally.last /\ bcs[job].last \in Int /\ tally.last \in Int
  BY <1>0, Rows DEF Sending, InHand, SenderOK, Count
<1>4. ~Holding' /\ \A b \in Broadcasts : Got(b)' = Got(b)
  BY <1>1 DEF Holding, Got
<1>5. lost' \in [Broadcasts -> Nat] /\ \A c \in Broadcasts : lost[c] <= lost'[c]
  BY <1>0, <1>1, BoundsAssumption DEF SeenOK
<1>6. CASE StillRunning(job)
  <2>1. /\ bcs' = [bcs EXCEPT ![job] = Progress(job)] /\ bcs \in [Broadcasts -> Row]
        /\ bcs[job].status = "running"
    BY <1>0, <1>6 DEF AdvanceBroadcast, RowsOK, StillRunning, Status
  <2>2. /\ \A b \in Broadcasts : b # job => bcs'[b] = bcs[b]
        /\ bcs'[job] = Progress(job)
    BY <1>0, <2>1
  <2>3. /\ bcs'[job].status = bcs[job].status /\ bcs'[job].last = tally.last
        /\ bcs'[job].sent = bcs[job].sent + tally.sent
        /\ bcs'[job].failed = bcs[job].failed + tally.failed
    BY <1>0, <2>1, <2>2 DEF Progress, Row
  <2>4. /\ \A b \in Broadcasts : b # job => Behind(b)' = Behind(b)
        /\ \A b \in Broadcasts : b = job => Behind(b)' = Past
    <3>1. \A b \in Broadcasts : Behind(b)' = {v \in Users : v <= bcs'[b].last}
      BY DEF Behind
    <3>2. \A b \in Broadcasts : b = job => Behind(b)' = Past
      BY <1>2, <2>3, <3>1
    <3>3. \A b \in Broadcasts : b # job => Behind(b)' = Behind(b)
      BY <2>2, <3>1 DEF Behind
    <3> QED
      BY <3>2, <3>3
  <2>5. \A b \in Broadcasts : bcs'[b].status = bcs[b].status
    BY <2>2, <2>3
  <2>6. InHand' /\ Reach'
    BY <1>1, <1>4, <2>1, <2>2, <2>5 DEF Sending, InHand, Reach, Status, users, BroadcastAudience
  <2>7. Covered'
    <3>1. owed[job] \cap Past \subseteq tried[job]
      BY <1>0 DEF Sending, Covered
    <3>2. ASSUME NEW b \in Broadcasts, NEW v \in owed[b],
                 bcs'[b].status = "done" \/ v <= bcs'[b].last
          PROVE  v \in tried[b]
      <4>1. v \in Users
        BY <1>0 DEF SeenOK
      <4>2. CASE b = job
        BY <1>2, <2>1, <2>3, <3>1, <3>2, <4>1, <4>2
      <4>3. CASE b # job
        BY <2>2, <3>2, <4>3 DEF Sending, Covered, NobodySkipped, Status
      <4> QED
        BY <4>2, <4>3
    <3> QED
      BY <1>1, <1>4, <3>2 DEF Covered, NobodySkipped, Status
  <2>8. Once'
    <3>1. \A b \in Broadcasts : Ahead(b)' \subseteq Ahead(b)
      <4> TAKE b \in Broadcasts
      <4>1. b # 0 /\ job # 0
        BY <1>0 DEF Broadcasts
      <4>2. CASE b = job
        BY <1>0, <1>1, <1>4, <2>1, <2>4, <2>5, <4>1, <4>2 DEF Ahead, Status
      <4>3. CASE b # job
        BY <1>1, <1>4, <2>4, <2>5, <4>1, <4>3 DEF Ahead, Status
      <4> QED
        BY <4>2, <4>3
    <3> QED
      BY <1>1, <1>5, <3>1, OnceKept DEF Sending
  <2>9. Numbers'
    <3>1. /\ bcs[job].sent + tally.sent <= Cardinality(Got(job) \cap Past)
          /\ bcs[job].sent + tally.sent + bcs[job].failed + tally.failed
               <= Cardinality(tried[job] \cap Past)
      BY <1>0 DEF Sending, Numbers
    <3>2. /\ bcs[job].sent \in Nat /\ bcs[job].failed \in Nat
          /\ tally.sent \in Nat /\ tally.failed \in Nat
      BY <1>0, Rows DEF SenderOK, Count
    <3>3. bcs'[job].sent + bcs'[job].failed
            = bcs[job].sent + tally.sent + bcs[job].failed + tally.failed
      BY <2>3, <3>2
    <3>4. \A b \in Broadcasts :
            /\ bcs[b].sent <= Cardinality(Got(b) \cap Behind(b))
            /\ bcs[b].sent + bcs[b].failed <= Cardinality(tried[b] \cap Behind(b))
      BY DEF Sending, Numbers
    <3>5. \A b \in Broadcasts :
            /\ bcs'[b].sent <= Cardinality(Got(b)' \cap Behind(b)')
            /\ bcs'[b].sent + bcs'[b].failed <= Cardinality(tried[b] \cap Behind(b)')
      <4> TAKE b \in Broadcasts
      <4>0. Got(b)' = Got(b)
        BY <1>4
      <4>1. CASE b = job
        <5>1. Behind(b)' = Past
          BY <2>4, <4>1
        <5> QED
          BY <2>3, <3>1, <3>3, <4>0, <4>1, <5>1
      <4>2. CASE b # job
        BY <2>2, <2>4, <3>4, <4>0, <4>2
      <4> QED
        BY <4>1, <4>2
    <3> QED
      BY <1>1, <1>4, <3>5 DEF Numbers
  <2>10. Late' /\ Told'
    BY <1>1, <1>4, <2>5 DEF Sending, Late, Told, ToldOnceDone, Status
  <2> QED
    BY <2>6, <2>7, <2>8, <2>9, <2>10 DEF Sending
<1>7. CASE ~StillRunning(job)
  <2>1. bcs' = bcs /\ bcs[job].status = "cancelled"
    BY <1>1, <1>7 DEF AdvanceBroadcast, Sending, InHand, StillRunning, Status
  <2>2. InHand' /\ Reach' /\ Covered' /\ Late' /\ Told'
    BY <1>1, <1>4, <2>1 DEF Sending, InHand, Reach, Covered, NobodySkipped, Late, Told,
                            ToldOnceDone, Status, users, BroadcastAudience
  <2>3. Once'
    <3>1. \A b \in Broadcasts : Ahead(b)' \subseteq Ahead(b)
      <4> TAKE b \in Broadcasts
      <4>1. b # 0 /\ Behind(b)' = Behind(b)
        BY <2>1 DEF Broadcasts, Behind
      <4> QED
        BY <1>1, <1>4, <2>1, <4>1 DEF Ahead, Status
    <3> QED
      BY <1>1, <1>5, <3>1, OnceKept DEF Sending
  <2>4. Numbers'
    BY <1>1, <1>4, <2>1 DEF Sending, Numbers, Behind
  <2> QED
    BY <2>2, <2>3, <2>4 DEF Sending
<1> QED
  BY <1>6, <1>7

\* The end of a broadcast that nobody cancelled.
LEMMA FinishKeeps ==
  ASSUME TypeOK, Sending, FinishBroadcast
  PROVE  Sending'
<1>0. RowsOK /\ SenderOK /\ SeenOK /\ job \in Broadcasts /\ ~Holding
  BY TypeParts, JobIsOne DEF Holding, FinishBroadcast
<1>1. pc = "finish" /\ UNCHANGED <<users, copies, tried, owed, lost, late, told>>
  BY DEF FinishBroadcast, seen
<1>2. lost' \in [Broadcasts -> Nat] /\ \A c \in Broadcasts : lost[c] <= lost'[c]
  BY <1>0, <1>1, BoundsAssumption DEF SeenOK
<1>3. CASE StillRunning(job)
  <2>1. /\ bcs' = [bcs EXCEPT ![job].status = "done"] /\ bcs \in [Broadcasts -> Row]
        /\ bcs[job].status = "running" /\ pc' = "notice" /\ UNCHANGED <<job, todo, tally>>
    BY <1>0, <1>3 DEF FinishBroadcast, RowsOK, StillRunning, Status
  <2>2. \A b \in Broadcasts :
          /\ bcs'[b].last = bcs[b].last /\ bcs'[b].sent = bcs[b].sent
          /\ bcs'[b].failed = bcs[b].failed
          /\ bcs'[b].status = IF b = job THEN "done" ELSE bcs[b].status
    BY <1>0, <2>1 DEF Row
  <2>3. ~Holding' /\ \A b \in Broadcasts : Behind(b)' = Behind(b) /\ Got(b)' = Got(b)
    BY <1>1, <2>1, <2>2 DEF Holding, Behind, Got
  <2>4. InHand' /\ Reach'
    BY <1>0, <1>1, <2>1, <2>2, <2>3 DEF Sending, InHand, Reach, Status, users, BroadcastAudience
  <2>5. Covered'
    <3>1. owed[job] \subseteq tried[job]
      BY <1>1 DEF Sending, Covered
    <3>2. \A b \in Broadcasts : \A u \in owed[b] :
            bcs'[b].status = "done" \/ u <= bcs'[b].last => u \in tried[b]
      BY <2>2, <3>1 DEF Sending, Covered, NobodySkipped, Status
    <3> QED
      BY <1>1, <2>1, <2>3, <3>2 DEF Covered, NobodySkipped, Status
  <2>6. Once'
    <3>1. \A b \in Broadcasts : Ahead(b)' \subseteq Ahead(b)
      BY <1>0, <2>1, <2>2, <2>3 DEF Ahead, Status
    <3> QED
      BY <1>1, <1>2, <3>1, OnceKept DEF Sending
  <2>7. Numbers'
    <3>1. Numbers
      BY DEF Sending
    <3> QED
      BY <1>1, <2>2, <2>3, <3>1 DEF Numbers
  <2>8. Late'
    BY <1>0, <1>1, <2>1, <2>2, <2>3 DEF Sending, Late, Status
  <2>9. Told'
    <3>1. \A b \in Broadcasts : told[b] \in Nat
      BY Rows
    <3> QED
      BY <1>0, <1>1, <2>1, <2>2, <3>1 DEF Sending, Told, ToldOnceDone, Status
  <2> QED
    BY <2>4, <2>5, <2>6, <2>7, <2>8, <2>9 DEF Sending
<1>4. CASE ~StillRunning(job)
  <2>1. bcs' = bcs /\ pc' = "idle" /\ job' = 0
    BY <1>4 DEF FinishBroadcast, Idle
  <2> QED
    BY <1>0, <1>1, <1>2, <2>1, NotHolding
<1> QED
  BY <1>3, <1>4

\* The notice to the administrator.
LEMMA NoticeKeeps ==
  ASSUME TypeOK, Sending, Notice
  PROVE  Sending'
<1>0. RowsOK /\ SenderOK /\ SeenOK /\ job \in Broadcasts /\ ~Holding
  BY TypeParts, JobIsOne DEF Holding, Notice
<1>1. /\ pc = "notice" /\ pc' = "idle" /\ job' = 0
      /\ UNCHANGED <<users, bcs, copies, tried, owed, lost, late>>
      /\ told' = [told EXCEPT ![job] = @ + 1] \/ told' = told
  BY DEF Notice, Idle
<1>2. lost' \in [Broadcasts -> Nat] /\ \A c \in Broadcasts : lost[c] <= lost'[c]
  BY <1>0, <1>1, BoundsAssumption DEF SeenOK
<1>3. ~Holding' /\ \A b \in Broadcasts : Behind(b)' = Behind(b) /\ Got(b)' = Got(b)
  BY <1>1 DEF Holding, Behind, Got
<1>4. InHand' /\ Reach' /\ Late'
  BY <1>0, <1>1, <1>3 DEF Sending, InHand, Reach, Late, Status, users, BroadcastAudience
<1>5. Covered'
  BY <1>1, <1>3 DEF Sending, Covered, NobodySkipped, Status
<1>6. Once'
  <2>1. \A b \in Broadcasts : Ahead(b)' \subseteq Ahead(b)
    <3> TAKE b \in Broadcasts
    <3>1. b # 0 /\ (b = job => bcs[b].status = "done")
      BY <1>1 DEF Broadcasts, Sending, InHand, Status
    <3> QED
      BY <1>0, <1>1, <1>3, <3>1 DEF Ahead, Status
  <2> QED
    BY <1>1, <1>2, <2>1, OnceKept DEF Sending
<1>7. Numbers'
  <2>1. Numbers
    BY DEF Sending
  <2> QED
    BY <1>1, <1>3, <2>1 DEF Numbers
<1>8. Told'
  <2>1. bcs[job].status = "done" /\ told[job] = 0 /\ told \in [Broadcasts -> Nat]
    BY <1>0, <1>1 DEF Sending, InHand, Told, SeenOK, Status
  <2>2. \A b \in Broadcasts : told[b] <= (IF bcs[b].status = "done" THEN 1 ELSE 0)
    BY DEF Sending, Told, ToldOnceDone, Status
  <2>3. \A b \in Broadcasts : told'[b] <= (IF bcs[b].status = "done" THEN 1 ELSE 0)
    BY <1>1, <2>1, <2>2
  <2> QED
    BY <1>1, <2>3 DEF Told, ToldOnceDone, Status
<1> QED
  BY <1>4, <1>5, <1>6, <1>7, <1>8 DEF Sending

\* What an interruption forgets is made good by the bound it raises.
LEMMA InterruptKeeps ==
  ASSUME TypeOK, Sending, Interrupt
  PROVE  Sending'
<1>0. RowsOK /\ SenderOK /\ SeenOK /\ job \in Broadcasts
  BY TypeParts, JobIsOne DEF Interrupt
<1>1. /\ pc' = "idle" /\ job' = 0 /\ lost' = [lost EXCEPT ![job] = @ + 1]
      /\ UNCHANGED <<users, bcs, copies, tried, owed, late, told>>
  BY DEF Interrupt, Idle
<1>2. ~Holding' /\ \A b \in Broadcasts : Behind(b)' = Behind(b) /\ Got(b)' = Got(b)
  BY <1>1 DEF Holding, Behind, Got
<1>3. InHand' /\ Reach' /\ Late' /\ Told'
  BY <1>1, <1>2 DEF Sending, InHand, Reach, Late, Told, ToldOnceDone, Status, users,
                    BroadcastAudience
<1>4. Covered'
  BY <1>1, <1>2 DEF Sending, Covered, NobodySkipped, Status
<1>5. Once'
  <2> SUFFICES ASSUME NEW b \in Broadcasts, NEW u \in Users
               PROVE  copies'[b][u] <= lost'[b] + (IF u \in Ahead(b)' THEN 0 ELSE 1)
    BY DEF Once
  <2>1. copies[b][u] <= lost[b] + (IF u \in Ahead(b) THEN 0 ELSE 1)
    BY DEF Sending, Once
  <2>2. copies[b][u] \in Nat /\ lost[b] \in Nat
    BY Rows, BoundsAssumption
  <2>3. CASE b = job
    <3>1. lost'[b] = lost[b] + 1
      BY <1>0, <1>1, <2>3 DEF SeenOK
    <3> QED
      BY <1>1, <2>1, <2>2, <3>1
  <2>4. CASE b # job
    <3>1. lost'[b] = lost[b]
      BY <1>0, <1>1, <2>4 DEF SeenOK
    <3>2. b # 0
      BY DEF Broadcasts
    <3>3. Ahead(b)' = Ahead(b)
      BY <1>1, <1>2, <2>4, <3>2 DEF Ahead, Status
    <3> QED
      BY <1>1, <2>1, <3>1, <3>3
  <2> QED
    BY <2>3, <2>4
<1>6. Numbers'
  <2>1. Numbers
    BY DEF Sending
  <2> QED
    BY <1>1, <1>2, <2>1 DEF Numbers
<1> QED
  BY <1>3, <1>4, <1>5, <1>6 DEF Sending

-----------------------------------------------------------------------------
(***************************************************************************)
(* The theorems.                                                           *)
(***************************************************************************)

\* Every step keeps the invariant.
LEMMA NextKeeps == IInv /\ [Next]_vars => IInv'
<1> SUFFICES ASSUME IInv, [Next]_vars PROVE IInv'
  OBVIOUS
<1>0. TypeOK /\ Sending /\ FunnelNarrows
  BY DEF IInv
<1>1. FunnelNarrows'
  BY <1>0, FunnelKept
<1>2. ASSUME TypeOK', Sending' PROVE IInv'
  BY <1>1, <1>2 DEF IInv
<1>3. CASE Step \/ Interrupt
  <2>1. TypeOK'
    BY <1>0, <1>3, SenderTypes DEF Sending
  <2>2. Sending'
    BY <1>0, <1>3, <2>1, NextRunningKeeps, TargetsKeep, CopyKeeps, MarkKeeps, AdvanceKeeps,
       FinishKeeps, NoticeKeeps, InterruptKeeps DEF Step
  <2> QED
    BY <1>2, <2>1, <2>2
<1>4. CASE \/ \E u \in Users : \E l \in Links \cup {NoLink} : UpsertUser(u, l)
           \/ \E u \in Users : BlockBot(u)
           \/ \E l \in Links : CreateRefLink(l) \/ DeleteRefLink(l)
  <2>1. UsersOK' /\ UNCHANGED <<bcs, sender, seen>>
    BY <1>0, <1>4, UsersTypes, TypeParts
  <2>2. TypeOK'
    BY <1>0, <2>1, PartsKept, TypeParts
  <2>3. Sending'
    BY <1>0, <1>4, UsersKeep
  <2> QED
    BY <1>2, <2>2, <2>3
<1>5. CASE \E b \in Broadcasts : CreateBroadcast(b) \/ StartBroadcast(b) \/ CancelBroadcast(b)
  <2>1. TypeOK' /\ Sending'
    BY <1>0, <1>5, AdminTypes, AdminKeeps
  <2> QED
    BY <1>2, <2>1
<1>6. CASE UNCHANGED vars
  <2>1. UNCHANGED users /\ UNCHANGED bcs /\ UNCHANGED sender /\ UNCHANGED seen
    BY <1>6 DEF vars
  <2>2. TypeOK'
    BY <1>0, <2>1, PartsKept, TypeParts
  <2>3. Reach'
    BY <1>0, <2>1 DEF Sending, Reach, users, sender, seen, Status, Holding, Left,
                      BroadcastAudience
  <2>4. Sending'
    BY <1>0, <2>1, <2>3, Elsewhere DEF Sending
  <2> QED
    BY <1>2, <2>2, <2>4
<1> QED
  BY <1>3, <1>4, <1>5, <1>6 DEF Next

\* The inductive invariant holds throughout.
THEOREM Invariance == Spec => []IInv
BY InitHolds, NextKeeps, PTL DEF Spec

\* Every variable stays within its type.
THEOREM TypeCorrect == Spec => []TypeOK
<1>1. IInv => TypeOK
  BY DEF IInv
<1> QED
  BY <1>1, Invariance, PTL

\* Whoever was in reach when a broadcast was confirmed, and was not found to
\* block the bot, has been tried once the cursor has passed them, and everybody
\* has at the end (broadcast.go:29), whoever joined, left or failed meanwhile.
THEOREM NobodyIsSkipped == Spec => []NobodySkipped
<1>1. IInv => NobodySkipped
  BY DEF IInv, Sending, Covered
<1> QED
  BY <1>1, Invariance, PTL

\* A second copy comes only from a batch given up before its commit, one for
\* each (broadcast.go:99-102).
THEOREM CopiesAreBounded == Spec => []OnceUnlessInterrupted
<1>1. IInv => OnceUnlessInterrupted
  <2> SUFFICES ASSUME IInv, NEW b \in Broadcasts, NEW u \in Users
               PROVE  copies[b][u] <= 1 + lost[b]
    BY DEF OnceUnlessInterrupted
  <2>1. copies[b][u] <= lost[b] + (IF u \in Ahead(b) THEN 0 ELSE 1)
    BY DEF IInv, Sending, Once
  <2>2. copies[b][u] \in Nat /\ lost[b] \in Nat
    BY Rows, BoundsAssumption DEF IInv
  <2> QED
    BY <2>1, <2>2
<1> QED
  BY <1>1, Invariance, PTL

\* What the administrator is shown as sent arrived, and nobody is counted
\* twice, although a batch given up is sent again (storage/admin.go:190-197).
THEOREM CountsAreTrue == Spec => []NumbersAreTrue
<1>1. IInv => NumbersAreTrue
  <2> SUFFICES ASSUME IInv, NEW b \in Broadcasts
               PROVE  /\ bcs[b].sent <= Cardinality(Got(b))
                      /\ bcs[b].sent + bcs[b].failed <= Cardinality(tried[b])
    BY DEF NumbersAreTrue, Got
  <2>1. /\ bcs[b].sent <= Cardinality(Got(b) \cap Behind(b))
        /\ bcs[b].sent + bcs[b].failed <= Cardinality(tried[b] \cap Behind(b))
    BY DEF IInv, Sending, Numbers
  <2>2. bcs[b].sent \in Nat /\ bcs[b].sent + bcs[b].failed \in Nat
    BY Rows DEF IInv
  <2>3. Got(b) \in SUBSET Users /\ tried[b] \in SUBSET Users
    BY Rows DEF IInv, Got
  <2>4. /\ Cardinality(Got(b) \cap Behind(b)) <= Cardinality(Got(b))
        /\ Cardinality(Got(b) \cap Behind(b)) \in Nat /\ Cardinality(Got(b)) \in Nat
    BY <2>3, Growing
  <2>5. /\ Cardinality(tried[b] \cap Behind(b)) <= Cardinality(tried[b])
        /\ Cardinality(tried[b] \cap Behind(b)) \in Nat /\ Cardinality(tried[b]) \in Nat
    BY <2>3, Growing
  <2>6. bcs[b].sent <= Cardinality(Got(b))
    BY <2>1, <2>2, <2>4
  <2> DEFINE x == bcs[b].sent + bcs[b].failed
             y == Cardinality(tried[b] \cap Behind(b))
             z == Cardinality(tried[b])
  <2>7. x \in Nat /\ y \in Nat /\ z \in Nat /\ x <= y /\ y <= z
    BY <2>1, <2>2, <2>5
  <2> HIDE DEF x, y, z
  <2>8. x <= z
    BY <2>7
  <2> QED
    BY <2>6, <2>8 DEF x, z
<1> QED
  BY <1>1, Invariance, PTL

\* After a cancellation at most the batch in hand arrives (broadcast.go:31).
THEOREM CancelBitesWithinABatch == Spec => []CancelBites
<1>1. IInv => CancelBites
  BY DEF IInv, Sending, Late, CancelBites
<1> QED
  BY <1>1, Invariance, PTL

\* The administrator is told once, of a broadcast that ended by itself.
THEOREM TheEndIsToldOnce == Spec => []ToldOnceDone
<1>1. IInv => ToldOnceDone
  BY DEF IInv, Sending, Told
<1> QED
  BY <1>1, Invariance, PTL

\* No referral link shows more people than starts (users.go:30-31).
THEOREM TheFunnelNarrows == Spec => []FunnelNarrows
<1>1. IInv => FunnelNarrows
  BY DEF IInv
<1> QED
  BY <1>1, Invariance, PTL

\* A broadcast done or cancelled is never written again, whoever is in the
\* middle of it (storage/admin.go:187-188).
THEOREM TheEndIsFinal == Spec => FinalIsFinal
<1> DEFINE Kept == \A b \in Broadcasts :
                     Status(b) \in {"done", "cancelled"} => bcs'[b] = bcs[b]
<1>1. IInv /\ [Next]_vars => [Kept]_vars
  <2> SUFFICES ASSUME IInv, Next, NEW b \in Broadcasts, Status(b) \in {"done", "cancelled"}
               PROVE  bcs'[b] = bcs[b]
    OBVIOUS
  <2>1. bcs[b].status \in {"done", "cancelled"} /\ bcs \in [Broadcasts -> Row]
    BY TypeParts DEF IInv, RowsOK, Status
  <2>2. CASE Step \/ Interrupt
    BY <2>1, <2>2 DEF Step, Interrupt, NextRunningBroadcast, BroadcastTargets, Copy,
                      MarkUserBlocked, AdvanceBroadcast, FinishBroadcast, Notice,
                      StillRunning, Status
  <2>3. CASE \/ \E u \in Users : \E l \in Links \cup {NoLink} : UpsertUser(u, l)
             \/ \E u \in Users : BlockBot(u)
             \/ \E l \in Links : CreateRefLink(l) \/ DeleteRefLink(l)
    BY <2>3 DEF UpsertUser, BlockBot, CreateRefLink, DeleteRefLink
  <2>4. CASE \E c \in Broadcasts : CreateBroadcast(c) \/ StartBroadcast(c) \/ CancelBroadcast(c)
    <3>1. PICK c \in Broadcasts : CreateBroadcast(c) \/ StartBroadcast(c) \/ CancelBroadcast(c)
      BY <2>4
    <3>2. bcs[c].status \in {"none", "draft", "running"}
      BY <3>1 DEF CreateBroadcast, StartBroadcast, CancelBroadcast, Status
    <3>3. b # c
      BY <2>1, <3>2
    <3> QED
      BY <2>1, <3>1, <3>3 DEF CreateBroadcast, StartBroadcast, CancelBroadcast
  <2> QED
    BY <2>2, <2>3, <2>4 DEF Next
<1> QED
  BY <1>1, Invariance, PTL DEF Spec, FinalIsFinal, Kept
=============================================================================
