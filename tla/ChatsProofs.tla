----------------------------- MODULE ChatsProofs -----------------------------
(***************************************************************************)
(* Proofs about a group that is upgraded while its repositories report to  *)
(* it: for any users, topics, repositories, workers and parts of a         *)
(* notification, and updates that are handled in any order or lost.        *)
(***************************************************************************)
EXTENDS Chats, SequenceTheorems, TLAPS

(***************************************************************************)
(* The inductive invariant: the tables and their keys, then the jobs in    *)
(* the workers' hands and what of them has arrived.                        *)
(***************************************************************************)
Ids      == {"old", "new"}
Threads  == Topics \cup {General}
Remedies == {"migrate", "forget", "unset"}
Done     == {"sent", "retry", "permanent", "kicked"}

ChatRow  == [tg: Ids, topic: Threads]
IntegRow == [chat: Nat, repo: Repos, broken: BOOLEAN]
JobRow   == [chat: Nat, integ: Nat, flaws: SUBSET (0..Parts),
             status: {"pending", "sending", "sent", "failed"}, attempts: 0..MaxAttempts]
Updates  == [kind: {"migrated"}, by: Ids] \cup [kind: {"added"}, tg: Ids, user: Users]
            \cup [kind: {"removed"}, tg: Ids] \cup [kind: {"topic", "closed"}, topic: Topics]

TelegramOK ==
  /\ upgraded \in BOOLEAN /\ member \in BOOLEAN /\ alive \subseteq Topics /\ premium \in BOOLEAN
  /\ updates \subseteq Updates

ChatsOK ==
  /\ lastRow \in 1..MaxRows
  /\ DOMAIN chats \subseteq 1..lastRow
  /\ chats \in [DOMAIN chats -> ChatRow]
  /\ \A c, d \in DOMAIN chats : chats[c].tg = chats[d].tg => c = d

SetsOK ==
  /\ managers \subseteq (DOMAIN chats) \X Users
  /\ seen \subseteq (DOMAIN chats) \X Topics

HandlersOK ==
  /\ greeting \subseteq [at: {"manager", "revive"}, row: Nat, tg: Ids, user: Users]
  /\ connecting \subseteq [row: Nat, repo: Repos]
  /\ loaded \subseteq [integ: Nat, row: Nat]

\* A connected integration is in a chat, and no repository twice in one.
IntegsOK ==
  /\ integs \in Seq(IntegRow)
  /\ \A i \in Connected : integs[i].chat \in DOMAIN chats
  /\ \A i, k \in Connected :
       integs[i].chat = integs[k].chat /\ integs[i].repo = integs[k].repo => i = k

\* A job is where its integration is.
JobsOK ==
  /\ outbox \in Seq(JobRow) /\ Len(outbox) <= MaxJobs
  /\ \A j \in DOMAIN outbox :
       /\ outbox[j].integ \in DOMAIN integs
       /\ outbox[j].chat # Gone => outbox[j].chat = integs[outbox[j].integ].chat

\* What a webhook has read is where it was, or a key will refuse it.
LoadedOK ==
  \A l \in loaded :
    /\ Len(outbox) < MaxJobs
    /\ l.integ \in DOMAIN integs /\ l.row \in 1..lastRow
    /\ References(l) => integs[l.integ].chat = l.row

SendersOK ==
  /\ sending \in [Senders -> {Idle} \cup Sending]
  /\ arrived \in Seq([1..Parts -> Nat]) /\ Len(arrived) = Len(outbox)
  /\ refused \subseteq DOMAIN outbox /\ overtaken \subseteq DOMAIN outbox

Holding(w) == sending[w].at \notin {"idle", "hook"}

\* A worker holds a job that is being sent, alone, and gives it up for a cause.
Held ==
  \A w \in Senders :
    /\ sending[w] # Idle => sending[w].job \in DOMAIN outbox
    /\ Holding(w) => outbox[sending[w].job].status = "sending"
    /\ \A v \in Senders \ {w} :
         Holding(v) /\ Holding(w) => sending[v].job # sending[w].job
    /\ sending[w].at \in {"kicked", "permanent"} => sending[w].job \in Blamed

\* The parts before the current one have arrived; those from it on have not in
\* this try, until it is over.
Landed ==
  \A w \in Senders : Holding(w) =>
    \A p \in 1..Parts :
      /\ p < sending[w].part \/ sending[w].at = "sent" => arrived[sending[w].job][p] >= 1
      /\ p >= sending[w].part /\ sending[w].at \notin Done =>
           arrived[sending[w].job][p] <= outbox[sending[w].job].attempts

Counted ==
  \A j \in DOMAIN outbox :
    /\ outbox[j].status \in {"pending", "sending"} => outbox[j].attempts < MaxAttempts
    /\ outbox[j].status = "failed" =>
         j \in Blamed \/ outbox[j].attempts >= MaxAttempts
    /\ \A p \in 1..Parts :
         /\ outbox[j].status = "sent" => arrived[j][p] >= 1
         /\ arrived[j][p] <= outbox[j].attempts + IF outbox[j].status = "sending" THEN 1 ELSE 0

TablesOK == ChatsOK /\ SetsOK /\ IntegsOK /\ JobsOK /\ LoadedOK
BooksOK  == SendersOK /\ Held /\ Landed /\ Counted
IInv     == TelegramOK /\ HandlersOK /\ TablesOK /\ BooksOK

-----------------------------------------------------------------------------
(***************************************************************************)
(* Sequences, rows and ids.                                                *)
(***************************************************************************)

\* Of a sequence: its elements have the type of the elements.
LEMMA Elements ==
  ASSUME NEW S, NEW s \in Seq(S)
  PROVE  /\ Len(s) \in Nat /\ DOMAIN s = 1..Len(s) /\ \A i \in DOMAIN s : s[i] \in S
         /\ \A T : (\A i \in DOMAIN s : s[i] \in T) => s \in Seq(T)
<1>1. Len(s) \in Nat /\ s \in [1..Len(s) -> S] /\ DOMAIN s = 1..Len(s)
  BY LenProperties
<1>2. ASSUME NEW T, \A i \in DOMAIN s : s[i] \in T PROVE s \in Seq(T)
  <2>1. s \in [1..Len(s) -> T]
    BY <1>1, <1>2
  <2> QED
    BY <1>1, <2>1, SeqDef
<1> QED
  BY <1>1, <1>2

\* Of a function over the places of a sequence: it is one as long.
LEMMA Mapped ==
  ASSUME NEW S, NEW s \in Seq(S), NEW T, NEW f,
         f = [i \in DOMAIN s |-> f[i]], \A i \in DOMAIN s : f[i] \in T
  PROVE  f \in Seq(T) /\ Len(f) = Len(s) /\ DOMAIN f = DOMAIN s
<1>1. Len(s) \in Nat /\ DOMAIN s = 1..Len(s)
  BY LenProperties
<1>2. f \in [1..Len(s) -> T]
  BY <1>1
<1>3. f \in Seq(T)
  BY <1>1, <1>2, SeqDef
<1>4. Len(f) \in Nat /\ DOMAIN f = 1..Len(f)
  BY <1>3, LenProperties
<1> QED
  BY <1>1, <1>2, <1>3, <1>4

\* The row under an id.
LEMMA RowOfId ==
  ASSUME NEW tg, HasRow(tg)
  PROVE  RowOf(tg) \in DOMAIN chats /\ chats[RowOf(tg)].tg = tg
BY DEF HasRow, RowOf

\* The invariant says of each row what it is.
LEMMA RowTypes ==
  ASSUME TablesOK
  PROVE  /\ DOMAIN chats \subseteq Nat \ {0} /\ Gone \notin DOMAIN chats
         /\ \A c \in DOMAIN chats : chats[c] \in ChatRow
         /\ DOMAIN integs = 1..Len(integs) /\ Len(integs) \in Nat
         /\ \A i \in DOMAIN integs : integs[i] \in IntegRow
         /\ DOMAIN outbox = 1..Len(outbox) /\ Len(outbox) \in Nat
         /\ \A j \in DOMAIN outbox : outbox[j] \in JobRow
         /\ \A j \in DOMAIN outbox : outbox[j].chat # Gone =>
              outbox[j].chat \in DOMAIN chats /\ outbox[j].integ \in Connected
<1>1. lastRow \in Nat /\ DOMAIN chats \subseteq 1..lastRow /\ chats \in [DOMAIN chats -> ChatRow]
  BY NumbersAssumption DEF TablesOK, ChatsOK
<1>2. integs \in Seq(IntegRow) /\ outbox \in Seq(JobRow)
  BY DEF TablesOK, IntegsOK, JobsOK
<1>3. /\ DOMAIN integs = 1..Len(integs) /\ Len(integs) \in Nat
      /\ \A i \in DOMAIN integs : integs[i] \in IntegRow
  BY <1>2, Elements
<1>4. /\ DOMAIN outbox = 1..Len(outbox) /\ Len(outbox) \in Nat
      /\ \A j \in DOMAIN outbox : outbox[j] \in JobRow
  BY <1>2, Elements
<1>5. ASSUME NEW j \in DOMAIN outbox, outbox[j].chat # Gone
      PROVE  outbox[j].chat \in DOMAIN chats /\ outbox[j].integ \in Connected
  BY <1>5 DEF TablesOK, JobsOK, IntegsOK, Connected
<1>6. DOMAIN chats \subseteq Nat \ {0} /\ Gone \notin DOMAIN chats
  BY <1>1 DEF Gone
<1>7. \A c \in DOMAIN chats : chats[c] \in ChatRow
  BY <1>1
<1> QED
  BY <1>3, <1>4, <1>5, <1>6, <1>7

\* The parts give TypeOK.
LEMMA PartsGiveTypeOK == IInv => TypeOK
<1> SUFFICES ASSUME IInv PROVE TypeOK
  OBVIOUS
<1> USE DEF IInv
<1>1. integs \in Seq([chat: (DOMAIN chats) \cup {Gone}, repo: Repos, broken: BOOLEAN])
  <2>1. integs \in Seq(IntegRow)
    BY DEF TablesOK, IntegsOK
  <2>2. ASSUME NEW i \in DOMAIN integs
        PROVE  integs[i] \in [chat: (DOMAIN chats) \cup {Gone}, repo: Repos, broken: BOOLEAN]
    <3>1. integs[i] \in IntegRow /\ integs[i].chat \in DOMAIN chats \cup {Gone}
      BY RowTypes DEF TablesOK, IntegsOK, Connected
    <3> QED
      BY <3>1 DEF IntegRow
  <2> QED
    BY <2>1, <2>2, Elements
<1>2. outbox \in Seq([chat: (DOMAIN chats) \cup {Gone}, integ: 1..Len(integs), flaws: SUBSET (0..Parts),
                     status: {"pending", "sending", "sent", "failed"}, attempts: 0..MaxAttempts])
  <2>1. outbox \in Seq(JobRow)
    BY DEF TablesOK, JobsOK
  <2>2. ASSUME NEW j \in DOMAIN outbox
        PROVE  outbox[j] \in [chat: (DOMAIN chats) \cup {Gone}, integ: 1..Len(integs), flaws: SUBSET (0..Parts),
                 status: {"pending", "sending", "sent", "failed"}, attempts: 0..MaxAttempts]
    <3>1. /\ outbox[j] \in JobRow /\ outbox[j].chat \in DOMAIN chats \cup {Gone}
          /\ outbox[j].integ \in 1..Len(integs)
      BY RowTypes DEF TablesOK, JobsOK
    <3> QED
      BY <3>1 DEF JobRow
  <2> QED
    BY <2>1, <2>2, Elements
<1> QED
  BY <1>1, <1>2 DEF TypeOK, TelegramOK, TablesOK, BooksOK, ChatsOK, SetsOK, SendersOK,
     ChatRow, Threads, Ids

-----------------------------------------------------------------------------
(***************************************************************************)
(* What keeps the parts.                                                   *)
(***************************************************************************)

\* Jobs keep their payload.
SameFlaws ==
  DOMAIN outbox \subseteq DOMAIN outbox' /\ \A j \in DOMAIN outbox : outbox'[j].flaws = outbox[j].flaws

\* Jobs may change their chat, nothing a worker reads of them.
SameBooks ==
  /\ Len(outbox') = Len(outbox) /\ DOMAIN outbox' = DOMAIN outbox
  /\ SameFlaws
  /\ \A j \in DOMAIN outbox :
       outbox'[j].status = outbox[j].status /\ outbox'[j].attempts = outbox[j].attempts

\* What is to blame for giving a job up stays.
LEMMA BlameStays ==
  ASSUME SameFlaws, refused \subseteq refused', overtaken \subseteq overtaken'
  PROVE  Blamed \subseteq Blamed'
BY DEF SameFlaws, Blamed, Flawed

\* A step that only changes where jobs are leaves the workers' books as they are.
LEMMA BooksKept ==
  ASSUME BooksOK, SameBooks, UNCHANGED senders
  PROVE  BooksOK'
<1>1. SendersOK'
  BY DEF BooksOK, SendersOK, SameBooks, senders
<1>0. Blamed \subseteq Blamed'
  BY BlameStays DEF SameBooks, senders
<1>2. Held'
  BY <1>0 DEF BooksOK, Held, Holding, SameBooks, senders, Idle
<1>3. Landed'
  <2> SUFFICES ASSUME NEW w \in Senders, Holding(w)', NEW p \in 1..Parts
               PROVE  /\ p < sending'[w].part \/ sending'[w].at = "sent" =>
                           arrived'[sending'[w].job][p] >= 1
                      /\ p >= sending'[w].part /\ sending'[w].at \notin Done =>
                           arrived'[sending'[w].job][p] <= outbox'[sending'[w].job].attempts
    BY DEF Landed
  <2>1. sending' = sending /\ arrived' = arrived /\ Holding(w)
    BY DEF senders, Holding
  <2>2. outbox'[sending[w].job].attempts = outbox[sending[w].job].attempts
    BY <2>1 DEF BooksOK, Held, Holding, SameBooks, Idle
  <2> QED
    BY <2>1, <2>2 DEF BooksOK, Landed
<1>4. Counted'
  BY <1>0 DEF BooksOK, Counted, SameBooks, senders
<1> QED
  BY <1>1, <1>2, <1>3, <1>4 DEF BooksOK

\* So does one that changes no job.
LEMMA BooksUntouched ==
  ASSUME BooksOK, UNCHANGED <<outbox, senders>>
  PROVE  BooksOK'
<1>1. SameBooks
  BY DEF SameBooks, SameFlaws
<1> QED
  BY <1>1, BooksKept

\* The rows keep their ids, the integrations their place.
LEMMA TablesTouched ==
  ASSUME TablesOK, UNCHANGED <<lastRow, outbox>>, loaded' \subseteq loaded,
         DOMAIN chats' = DOMAIN chats, chats' \in [DOMAIN chats -> ChatRow],
         \A c \in DOMAIN chats : chats'[c].tg = chats[c].tg,
         managers' \subseteq (DOMAIN chats) \X Users, seen' \subseteq (DOMAIN chats) \X Topics,
         integs' \in Seq(IntegRow), DOMAIN integs' = DOMAIN integs,
         \A i \in DOMAIN integs :
           integs'[i].chat = integs[i].chat /\ integs'[i].repo = integs[i].repo
  PROVE  TablesOK'
<1>1. Connected' = Connected
  BY DEF Connected
<1>2. ChatsOK' /\ SetsOK'
  BY DEF TablesOK, ChatsOK, SetsOK
<1>3. IntegsOK'
  BY <1>1 DEF TablesOK, IntegsOK, Connected
<1>4. JobsOK'
  BY DEF TablesOK, JobsOK
<1>5. LoadedOK'
  BY <1>1 DEF TablesOK, LoadedOK, References
<1> QED
  BY <1>2, <1>3, <1>4, <1>5 DEF TablesOK

\* A step that changes no table keeps them.
LEMMA TablesKept ==
  ASSUME TablesOK, UNCHANGED tables, loaded' \subseteq loaded
  PROVE  TablesOK'
BY TablesTouched DEF TablesOK, ChatsOK, SetsOK, IntegsOK, tables

\* A step of the program takes updates and changes nothing of Telegram's.
LEMMA TelegramKept ==
  ASSUME TelegramOK, UNCHANGED telegram, updates' \subseteq updates
  PROVE  TelegramOK'
BY DEF TelegramOK, telegram

\* A step that starts no handler keeps their types.
LEMMA HandlersKept ==
  ASSUME HandlersOK, greeting' \subseteq greeting, connecting' \subseteq connecting,
         loaded' \subseteq loaded
  PROVE  HandlersOK'
BY DEF HandlersOK

-----------------------------------------------------------------------------
(***************************************************************************)
(* The initial state.                                                      *)
(***************************************************************************)
\* The group with its one row, and nobody at work.
LEMMA InitHolds == Init => IInv
<1> SUFFICES ASSUME Init PROVE IInv
  OBVIOUS
<1> USE DEF Init, InitWith
<1>1. /\ Connected = {} /\ DOMAIN integs = {} /\ DOMAIN outbox = {}
      /\ Len(outbox) = 0 /\ Len(arrived) = 0
  BY DEF Connected
<1>2. TelegramOK
  BY DEF TelegramOK
<1>3. ChatsOK /\ SetsOK
  BY AdderAssumption, NumbersAssumption DEF ChatsOK, SetsOK, ChatRow, Threads, Ids
<1>4. << >> \in Seq(IntegRow) /\ << >> \in Seq(JobRow) /\ << >> \in Seq([1..Parts -> Nat])
  BY EmptySeq
<1>5. IntegsOK /\ JobsOK /\ LoadedOK
  BY <1>1, <1>4, NumbersAssumption DEF IntegsOK, JobsOK, LoadedOK
<1>6. HandlersOK
  BY DEF HandlersOK
<1>7. \A w \in Senders : sending[w] = Idle /\ sending[w].at = "idle"
  BY DEF Idle
<1>8. arrived \in Seq([1..Parts -> Nat])
  <2>1. DOMAIN << >> = {}
    OBVIOUS
  <2>2. arrived = << >>
    BY <2>1
  <2> QED
    BY <2>2, <1>4
<1>9. SendersOK /\ Held /\ Landed /\ Counted
  BY <1>1, <1>7, <1>8 DEF SendersOK, Held, Landed, Counted, Holding
<1> QED
  BY <1>2, <1>3, <1>5, <1>6, <1>9 DEF IInv, TablesOK, BooksOK

-----------------------------------------------------------------------------
(***************************************************************************)
(* A row is deleted; an upgrade is followed.                               *)
(***************************************************************************)

\* Deleting a row unplaces what is in it, and nothing else.
LEMMA DeleteRowShape ==
  ASSUME TablesOK, NEW c \in DOMAIN chats, DeleteRow(c)
  PROVE  /\ integs' \in Seq(IntegRow) /\ DOMAIN integs' = DOMAIN integs
         /\ \A i \in DOMAIN integs :
              /\ integs'[i].repo = integs[i].repo
              /\ integs'[i].chat = IF integs[i].chat = c THEN Gone ELSE integs[i].chat
         /\ Connected' = {i \in Connected : integs[i].chat # c}
         /\ outbox' \in Seq(JobRow) /\ SameBooks
         /\ \A j \in DOMAIN outbox :
              /\ outbox'[j].integ = outbox[j].integ
              /\ outbox'[j].chat = IF outbox[j].chat = c THEN Gone ELSE outbox[j].chat
<1>1. integs \in Seq(IntegRow) /\ outbox \in Seq(JobRow)
  BY DEF TablesOK, IntegsOK, JobsOK
<1>2. integs' = [i \in DOMAIN integs |->
         IF integs[i].chat = c THEN [integs[i] EXCEPT !.chat = Gone] ELSE integs[i]]
  BY DEF DeleteRow
<1>3. outbox' = [j \in DOMAIN outbox |->
         IF outbox[j].chat = c THEN [outbox[j] EXCEPT !.chat = Gone] ELSE outbox[j]]
  BY DEF DeleteRow
<1>4. ASSUME NEW i \in DOMAIN integs
      PROVE  /\ integs'[i] \in IntegRow /\ integs'[i].repo = integs[i].repo
             /\ integs'[i].chat = IF integs[i].chat = c THEN Gone ELSE integs[i].chat
  BY <1>2, RowTypes DEF IntegRow, Gone
<1>5. ASSUME NEW j \in DOMAIN outbox
      PROVE  /\ outbox'[j] \in JobRow /\ outbox'[j].integ = outbox[j].integ
             /\ outbox'[j].chat = IF outbox[j].chat = c THEN Gone ELSE outbox[j].chat
             /\ outbox'[j].status = outbox[j].status /\ outbox'[j].attempts = outbox[j].attempts
             /\ outbox'[j].flaws = outbox[j].flaws
  BY <1>3, RowTypes DEF JobRow, Gone
<1>6. integs' = [i \in DOMAIN integs |-> integs'[i]]
  BY <1>2
<1>7. outbox' = [j \in DOMAIN outbox |-> outbox'[j]]
  BY <1>3
<1>8. integs' \in Seq(IntegRow) /\ DOMAIN integs' = DOMAIN integs
  BY <1>1, <1>4, <1>6, Mapped
<1>9. outbox' \in Seq(JobRow) /\ DOMAIN outbox' = DOMAIN outbox /\ Len(outbox') = Len(outbox)
  BY <1>1, <1>5, <1>7, Mapped
<1>10. Connected' = {i \in Connected : integs[i].chat # c}
  BY <1>4, <1>8, RowTypes DEF Connected
<1> QED
  BY <1>4, <1>5, <1>8, <1>9, <1>10 DEF SameBooks, SameFlaws

\* Deleting a row keeps the tables and their keys.
LEMMA DeleteRowKeeps ==
  ASSUME TablesOK, NEW c \in DOMAIN chats, DeleteRow(c), loaded' \subseteq loaded
  PROVE  TablesOK' /\ SameBooks
<1>1. ChatsOK' /\ SetsOK'
  BY DEF TablesOK, ChatsOK, SetsOK, DeleteRow
<1>2. DOMAIN chats' = DOMAIN chats \ {c} /\ lastRow' = lastRow
  BY DEF DeleteRow
<1>3. IntegsOK'
  BY <1>2, DeleteRowShape DEF TablesOK, IntegsOK, Connected
<1>4. JobsOK'
  <2>1. ASSUME NEW j \in DOMAIN outbox
        PROVE  /\ outbox'[j].integ \in DOMAIN integs'
               /\ outbox'[j].chat # Gone => outbox'[j].chat = integs'[outbox'[j].integ].chat
    <3>1. /\ outbox[j].integ \in DOMAIN integs
          /\ outbox[j].chat # Gone => outbox[j].chat = integs[outbox[j].integ].chat
      BY DEF TablesOK, JobsOK
    <3> QED
      BY <3>1, DeleteRowShape
  <2> QED
    BY <2>1, DeleteRowShape DEF TablesOK, JobsOK, SameBooks
<1>5. LoadedOK'
  <2> SUFFICES ASSUME NEW l \in loaded
               PROVE  /\ Len(outbox') < MaxJobs
                      /\ l.integ \in DOMAIN integs' /\ l.row \in 1..lastRow'
                      /\ References(l)' => integs'[l.integ].chat = l.row
    BY DEF LoadedOK
  <2>1. /\ Len(outbox) < MaxJobs
        /\ l.integ \in DOMAIN integs /\ l.row \in 1..lastRow
        /\ References(l) => integs[l.integ].chat = l.row
    BY DEF TablesOK, LoadedOK
  <2>2. References(l)' => References(l) /\ integs[l.integ].chat # c
    BY <1>2, DeleteRowShape DEF References
  <2> QED
    BY <1>2, <2>1, <2>2, DeleteRowShape DEF SameBooks
<1> QED
  BY <1>1, <1>3, <1>4, <1>5, DeleteRowShape DEF TablesOK

\* Folding the row of the supergroup into the group's moves or unplaces what
\* is in it, and nothing else.
LEMMA FoldShape ==
  ASSUME TablesOK, NEW o \in DOMAIN chats, NEW n \in DOMAIN chats, o # n, Fold(o, n)
  PROVE  /\ integs' \in Seq(IntegRow) /\ DOMAIN integs' = DOMAIN integs
         /\ \A i \in DOMAIN integs :
              /\ integs'[i].repo = integs[i].repo
              /\ integs'[i].chat = IF integs[i].chat # n THEN integs[i].chat
                                   ELSE IF Moves(i, o, n) THEN o ELSE Gone
         /\ Connected' = {i \in Connected : integs[i].chat = n => Moves(i, o, n)}
         /\ outbox' \in Seq(JobRow) /\ SameBooks
         /\ \A j \in DOMAIN outbox :
              /\ outbox'[j].integ = outbox[j].integ
              /\ outbox'[j].chat = IF outbox[j].integ \in {i \in InRow(n) : ~Moves(i, o, n)}
                                   THEN Gone ELSE QueueMoves(outbox[j].chat, o, n)
<1> DEFINE dropped == {i \in InRow(n) : ~Moves(i, o, n)}
<1>1. integs \in Seq(IntegRow) /\ outbox \in Seq(JobRow)
  BY DEF TablesOK, IntegsOK, JobsOK
<1>2. integs' = [i \in DOMAIN integs |->
       IF integs[i].chat # n THEN integs[i]
       ELSE [integs[i] EXCEPT !.chat = IF i \in dropped THEN Gone ELSE o]]
  BY DEF Fold
<1>3. outbox' = [j \in DOMAIN outbox |->
       [outbox[j] EXCEPT !.chat = IF outbox[j].integ \in dropped THEN Gone
                                  ELSE QueueMoves(outbox[j].chat, o, n)]]
  BY DEF Fold
<1>4. o \in Nat /\ n \in Nat /\ o # Gone /\ n # Gone
  BY RowTypes
<1>5. ASSUME NEW i \in DOMAIN integs
      PROVE  /\ integs'[i] \in IntegRow /\ integs'[i].repo = integs[i].repo
             /\ integs'[i].chat = IF integs[i].chat # n THEN integs[i].chat
                                  ELSE IF Moves(i, o, n) THEN o ELSE Gone
  <2>1. integs[i].chat = n => i \in InRow(n)
    BY <1>4 DEF InRow, Connected
  <2>2. integs[i] \in IntegRow
    BY RowTypes
  <2> QED
    BY <1>2, <1>4, <2>1, <2>2 DEF IntegRow, Gone
<1>6. ASSUME NEW j \in DOMAIN outbox
      PROVE  /\ outbox'[j] \in JobRow /\ outbox'[j].integ = outbox[j].integ
             /\ outbox'[j].chat = IF outbox[j].integ \in dropped THEN Gone
                                  ELSE QueueMoves(outbox[j].chat, o, n)
             /\ outbox'[j].status = outbox[j].status /\ outbox'[j].attempts = outbox[j].attempts
             /\ outbox'[j].flaws = outbox[j].flaws
  <2>1. outbox[j] \in JobRow
    BY RowTypes
  <2> QED
    BY <1>3, <1>4, <2>1 DEF JobRow, Gone, QueueMoves
<1>7. integs' = [i \in DOMAIN integs |-> integs'[i]]
  BY <1>2
<1>8. outbox' = [j \in DOMAIN outbox |-> outbox'[j]]
  BY <1>3
<1>9. integs' \in Seq(IntegRow) /\ DOMAIN integs' = DOMAIN integs
  BY <1>1, <1>5, <1>7, Mapped
<1>10. outbox' \in Seq(JobRow) /\ DOMAIN outbox' = DOMAIN outbox /\ Len(outbox') = Len(outbox)
  BY <1>1, <1>6, <1>8, Mapped
<1>11. Connected' = {i \in Connected : integs[i].chat = n => Moves(i, o, n)}
  BY <1>4, <1>5, <1>9 DEF Connected
<1> QED
  BY <1>5, <1>6, <1>9, <1>10, <1>11 DEF SameBooks, SameFlaws

\* Folding keeps them: what is in the supergroup's row moves or goes with it.
LEMMA FoldKeeps ==
  ASSUME TablesOK, NEW o \in DOMAIN chats, NEW n \in DOMAIN chats,
         chats[o].tg = "old", chats[n].tg = "new", Fold(o, n), loaded' \subseteq loaded
  PROVE  TablesOK' /\ SameBooks
<1>1. o # n /\ o # Gone /\ n # Gone
  BY RowTypes
<1>2. /\ DOMAIN chats' = DOMAIN chats \ {n} /\ lastRow' = lastRow
      /\ \A c \in DOMAIN chats' :
           chats'[c] = IF c = o THEN [chats[o] EXCEPT !.tg = "new"] ELSE chats[c]
      /\ chats' \in [DOMAIN chats' -> ChatRow]
  BY RowTypes DEF Fold, ChatRow, Ids
<1>3. ChatsOK'
  <2>1. chats'[o].tg = "new" /\ \A c \in DOMAIN chats' \ {o} : chats'[c].tg = chats[c].tg
    BY <1>1, <1>2, RowTypes DEF ChatRow
  <2>2. \A c \in DOMAIN chats \ {n} : chats[c].tg # "new"
    BY DEF TablesOK, ChatsOK
  <2> QED
    BY <1>2, <2>1, <2>2 DEF TablesOK, ChatsOK
<1>4. SetsOK'
  <2>1. managers' = {<<IF m[1] = n THEN o ELSE m[1], m[2]>> : m \in managers}
    BY DEF Fold
  <2>2. seen' = {<<IF s[1] = n THEN o ELSE s[1], s[2]>> : s \in seen}
    BY DEF Fold
  <2> QED
    BY <1>1, <1>2, <2>1, <2>2 DEF TablesOK, SetsOK
<1>5. IntegsOK'
  <2>1. ASSUME NEW i \in Connected' PROVE integs'[i].chat \in DOMAIN chats'
    BY <1>1, <1>2, FoldShape DEF TablesOK, IntegsOK, Connected
  <2>2. ASSUME NEW i \in Connected', NEW k \in Connected',
               integs'[i].chat = integs'[k].chat /\ integs'[i].repo = integs'[k].repo
        PROVE  i = k
    <3>1. /\ i \in Connected /\ (integs[i].chat = n => Moves(i, o, n))
          /\ k \in Connected /\ (integs[k].chat = n => Moves(k, o, n))
      BY <1>1, FoldShape
    <3>2. integs[i].repo = integs[k].repo
      BY <1>1, <2>2, FoldShape DEF Connected
    <3>3. integs[i].chat = integs[k].chat
      BY <1>1, <2>2, <3>1, <3>2, FoldShape DEF Connected, Moves, InRow
    <3> QED
      BY <3>1, <3>2, <3>3 DEF TablesOK, IntegsOK
  <2> QED
    BY <1>1, <2>1, <2>2, FoldShape DEF IntegsOK
<1>6. JobsOK'
  <2>1. ASSUME NEW j \in DOMAIN outbox
        PROVE  /\ outbox'[j].integ \in DOMAIN integs'
               /\ outbox'[j].chat # Gone => outbox'[j].chat = integs'[outbox[j].integ].chat
    <3>1. /\ outbox[j].integ \in DOMAIN integs
          /\ outbox[j].chat # Gone => outbox[j].chat = integs[outbox[j].integ].chat
      BY DEF TablesOK, JobsOK
    <3>2. outbox[j].integ \notin {i \in InRow(n) : ~Moves(i, o, n)} /\ outbox[j].chat = n =>
            integs[outbox[j].integ].chat = n /\ Moves(outbox[j].integ, o, n)
      BY <1>1, <3>1 DEF InRow, Connected
    <3> QED
      BY <1>1, <3>1, <3>2, FoldShape DEF QueueMoves
  <2> QED
    BY <1>1, <2>1, FoldShape DEF TablesOK, JobsOK, SameBooks
<1>7. LoadedOK'
  <2> SUFFICES ASSUME NEW l \in loaded
               PROVE  /\ Len(outbox') < MaxJobs
                      /\ l.integ \in DOMAIN integs' /\ l.row \in 1..lastRow'
                      /\ References(l)' => integs'[l.integ].chat = l.row
    BY DEF LoadedOK
  <2>1. /\ Len(outbox) < MaxJobs
        /\ l.integ \in DOMAIN integs /\ l.row \in 1..lastRow
        /\ References(l) => integs[l.integ].chat = l.row
    BY DEF TablesOK, LoadedOK
  <2>2. References(l)' => References(l) /\ l.row # n
    BY <1>1, <1>2, FoldShape DEF References
  <2> QED
    BY <1>1, <1>2, <2>1, <2>2, FoldShape DEF SameBooks
<1> QED
  BY <1>1, <1>3, <1>4, <1>5, <1>6, <1>7, FoldShape DEF TablesOK

\* Following an upgrade keeps the tables and their keys.
LEMMA MigrateKeeps ==
  ASSUME TablesOK, MigrateChat, loaded' \subseteq loaded
  PROVE  TablesOK' /\ SameBooks
<1>1. CASE ~HasRow("old")
  <2>1. UNCHANGED tables
    BY <1>1 DEF MigrateChat
  <2> QED
    BY <2>1, TablesKept DEF SameBooks, SameFlaws, tables
<1>2. CASE HasRow("old") /\ ~HasRow("new")
  <2>1. /\ chats' = [chats EXCEPT ![RowOf("old")].tg = "new"]
        /\ UNCHANGED <<managers, seen, integs, outbox, lastRow>>
    BY <1>2 DEF MigrateChat
  <2>2. RowOf("old") \in DOMAIN chats /\ chats[RowOf("old")].tg = "old"
    BY <1>2, RowOfId
  <2>3. DOMAIN chats' = DOMAIN chats /\ chats' \in [DOMAIN chats -> ChatRow]
    BY <2>1, <2>2, RowTypes DEF ChatRow, Ids
  <2>4. /\ chats'[RowOf("old")].tg = "new"
        /\ \A c \in DOMAIN chats \ {RowOf("old")} : chats'[c] = chats[c] /\ chats[c].tg # "new"
    BY <1>2, <2>1, <2>2, RowTypes DEF HasRow, ChatRow
  <2>5. ChatsOK' /\ SetsOK'
    BY <2>1, <2>3, <2>4 DEF TablesOK, ChatsOK, SetsOK
  <2>6. Connected' = Connected
    BY <2>1 DEF Connected
  <2>7. IntegsOK' /\ JobsOK' /\ LoadedOK'
    BY <2>1, <2>3, <2>6 DEF TablesOK, IntegsOK, JobsOK, LoadedOK, References
  <2> QED
    BY <2>1, <2>5, <2>7 DEF TablesOK, SameBooks, SameFlaws
<1>3. CASE HasRow("old") /\ HasRow("new")
  <2>1. Fold(RowOf("old"), RowOf("new"))
    BY <1>3 DEF MigrateChat
  <2> QED
    BY <1>3, <2>1, RowOfId, FoldKeeps
<1> QED
  BY <1>1, <1>2, <1>3

-----------------------------------------------------------------------------
(***************************************************************************)
(* Telegram.                                                               *)
(***************************************************************************)
\* What happens in Telegram sends updates, no more.
LEMMA TelegramKeeps == ASSUME IInv, Telegram PROVE IInv'
<1>1. CASE Upgrade
  <2>1. TelegramOK'
    BY <1>1 DEF Upgrade, IInv, TelegramOK, Updates, Ids
  <2> QED
    BY <1>1, <2>1, HandlersKept, TablesKept, BooksUntouched DEF Upgrade, IInv, tables, handlers
<1>2. CASE Move
  <2>1. LiveId \in Ids
    BY DEF LiveId, Ids
  <2>3. PICK x : updates' = updates \cup {x} /\ x \in Updates /\ member' \in BOOLEAN
    <3>1. \A u \in Users : [kind |-> "added", tg |-> LiveId, user |-> u] \in Updates
      BY <2>1 DEF Updates
    <3>2. [kind |-> "removed", tg |-> LiveId] \in Updates
      BY <2>1 DEF Updates
    <3> QED
      BY <1>2, <3>1, <3>2 DEF Move
  <2>2. TelegramOK'
    BY <1>2, <2>3 DEF Move, IInv, TelegramOK
  <2> QED
    BY <1>2, <2>2, HandlersKept, TablesKept, BooksUntouched DEF Move, IInv, tables, handlers
<1>3. ASSUME NEW t \in Topics, ChangeTopic(t) PROVE IInv'
  <2> DEFINE k == IF t \in alive THEN "closed" ELSE "topic"
  <2>2. [kind |-> k, topic |-> t] \in Updates
    BY DEF Updates
  <2>3. updates' = updates \cup {[kind |-> k, topic |-> t]} /\ alive' \subseteq alive \cup {t}
    BY <1>3 DEF ChangeTopic
  <2> HIDE DEF k
  <2>1. TelegramOK'
    BY <1>3, <2>2, <2>3 DEF ChangeTopic, IInv, TelegramOK
  <2> QED
    BY <1>3, <2>1, HandlersKept, TablesKept, BooksUntouched DEF ChangeTopic, IInv, tables, handlers
<1> QED
  BY <1>1, <1>2, <1>3 DEF Telegram

-----------------------------------------------------------------------------
(***************************************************************************)
(* Handlers of updates.                                                    *)
(***************************************************************************)
\* An update says what its handler reads.
LEMMA UpdateTypes ==
  ASSUME IInv, NEW u \in updates
  PROVE  /\ u.kind \in {"added", "removed"} => u.tg \in Ids
         /\ u.kind = "added" => u.user \in Users
         /\ u.kind \in {"topic", "closed"} => u.topic \in Topics
<1>1. u \in Updates
  BY DEF IInv, TelegramOK
<1> QED
  BY <1>1 DEF Updates

\* An upgrade is followed by a handler.
LEMMA HandleChatMigratedKeeps ==
  ASSUME IInv, NEW u \in updates, HandleChatMigrated(u)
  PROVE  IInv'
<1>1. TablesOK' /\ SameBooks
  BY MigrateKeeps DEF IInv, HandleChatMigrated, handlers
<1> QED
  BY <1>1, TelegramKept, HandlersKept, BooksKept DEF IInv, HandleChatMigrated, Take, handlers

\* The bot was removed: the row, if there is one, is deleted.
LEMMA HandleRemovedKeeps ==
  ASSUME IInv, NEW u \in updates, HandleRemoved(u)
  PROVE  IInv'
<1>1. TablesOK' /\ SameBooks
  <2>1. CASE HasRow(u.tg)
    BY <2>1, RowOfId, DeleteRowKeeps DEF IInv, HandleRemoved, handlers
  <2>2. CASE ~HasRow(u.tg)
    BY <2>2, TablesKept DEF IInv, HandleRemoved, handlers, tables, SameBooks, SameFlaws
  <2> QED
    BY <2>1, <2>2
<1> QED
  BY <1>1, TelegramKept, HandlersKept, BooksKept DEF IInv, HandleRemoved, Take, handlers

\* A new row gets an id that no webhook, handler or key has seen.
LEMMA UpsertChatKeeps ==
  ASSUME IInv, NEW u \in updates, UpsertChat(u)
  PROVE  IInv'
<1> DEFINE c == IF HasRow(u.tg) THEN RowOf(u.tg) ELSE lastRow + 1
<1>1. u.tg \in Ids /\ u.user \in Users
  BY UpdateTypes DEF UpsertChat
<1>2. lastRow \in Nat /\ DOMAIN chats \subseteq 1..lastRow
  BY NumbersAssumption DEF IInv, TablesOK, ChatsOK
<1>3. c \in Nat
  BY <1>2, RowOfId, RowTypes DEF IInv
<1>4. HandlersOK'
  <2>1. [at |-> "manager", row |-> c, tg |-> u.tg, user |-> u.user]
          \in [at: {"manager", "revive"}, row: Nat, tg: Ids, user: Users]
    BY <1>1, <1>3
  <2>2. greeting' = greeting \cup {[at |-> "manager", row |-> c, tg |-> u.tg, user |-> u.user]}
    BY DEF UpsertChat
  <2> QED
    BY <2>1, <2>2 DEF IInv, HandlersOK, UpsertChat
<1>5. TablesOK'
  <2>1. CASE HasRow(u.tg)
    <3>1. UNCHANGED tables /\ loaded' = loaded
      BY <2>1 DEF UpsertChat, tables
    <3> QED
      BY <3>1, TablesKept DEF IInv
  <2>2. CASE ~HasRow(u.tg)
    <3>1. /\ DOMAIN chats' = DOMAIN chats \cup {lastRow + 1}
          /\ \A d \in DOMAIN chats' :
               chats'[d] = IF d = lastRow + 1 THEN [tg |-> u.tg, topic |-> General] ELSE chats[d]
          /\ chats' = [d \in DOMAIN chats' |-> chats'[d]]
          /\ lastRow' = lastRow + 1 /\ lastRow < MaxRows
          /\ UNCHANGED <<managers, seen, integs, outbox, loaded>>
      BY <2>2 DEF UpsertChat
    <3>2. lastRow + 1 \notin DOMAIN chats /\ \A d \in DOMAIN chats : chats[d].tg # u.tg
      BY <1>2, <2>2 DEF HasRow
    <3>3. [tg |-> u.tg, topic |-> General] \in ChatRow
      BY <1>1 DEF ChatRow, Threads
    <3>4. \A d \in DOMAIN chats' : chats'[d] \in ChatRow
      BY <3>1, <3>3, RowTypes DEF IInv
    <3>5. lastRow' \in 1..MaxRows
      BY <1>2, <3>1, NumbersAssumption
    <3>6. DOMAIN chats' \subseteq 1..lastRow'
      BY <1>2, <3>1
    <3>7. ChatsOK'
      BY <3>1, <3>2, <3>4, <3>5, <3>6 DEF IInv, TablesOK, ChatsOK
    <3>8. SetsOK'
      BY <3>1 DEF IInv, TablesOK, SetsOK
    <3>9. Connected' = Connected
      BY <3>1 DEF Connected
    <3>10. IntegsOK' /\ JobsOK'
      BY <3>1, <3>9 DEF IInv, TablesOK, IntegsOK, JobsOK
    <3>11. \A l \in loaded : l.row \in 1..lastRow' /\ (References(l)' => References(l))
      BY <1>2, <3>1, <3>9 DEF IInv, TablesOK, LoadedOK, References
    <3>12. LoadedOK'
      BY <3>1, <3>11 DEF IInv, TablesOK, LoadedOK
    <3> QED
      BY <3>7, <3>8, <3>10, <3>12 DEF TablesOK
  <2> QED
    BY <2>1, <2>2
<1> QED
  BY <1>4, <1>5, TelegramKept, BooksUntouched DEF IInv, UpsertChat, Take

\* A manager is added where the row is still there.
LEMMA AddChatManagerKeeps ==
  ASSUME IInv, NEW h \in greeting, AddChatManager(h)
  PROVE  IInv'
<1>1. h \in [at: {"manager", "revive"}, row: Nat, tg: Ids, user: Users]
  BY DEF IInv, HandlersOK
<1>2. HandlersOK'
  <2>1. [h EXCEPT !.at = "revive"] \in [at: {"manager", "revive"}, row: Nat, tg: Ids, user: Users]
    BY <1>1
  <2> QED
    BY <2>1 DEF IInv, HandlersOK, AddChatManager
<1>3. managers' \subseteq (DOMAIN chats) \X Users
  BY <1>1 DEF IInv, TablesOK, SetsOK, AddChatManager
<1>4. TablesOK'
  BY <1>3, TablesTouched DEF IInv, TablesOK, ChatsOK, SetsOK, IntegsOK, AddChatManager
<1> QED
  BY <1>2, <1>4, TelegramKept, BooksUntouched DEF IInv, AddChatManager

\* Marking integrations, broken or not, keeps the tables.
LEMMA MarkingKeeps ==
  ASSUME TablesOK, UNCHANGED <<chats, managers, seen, outbox, lastRow, loaded>>,
         integs' = [i \in DOMAIN integs |-> integs'[i]],
         \A i \in DOMAIN integs : \E b \in BOOLEAN : integs'[i] = [integs[i] EXCEPT !.broken = b]
  PROVE  TablesOK'
<1>1. integs \in Seq(IntegRow)
  BY DEF TablesOK, IntegsOK
<1>2. ASSUME NEW i \in DOMAIN integs
      PROVE  /\ integs'[i] \in IntegRow
             /\ integs'[i].chat = integs[i].chat /\ integs'[i].repo = integs[i].repo
  BY RowTypes DEF IntegRow
<1>3. integs' \in Seq(IntegRow) /\ DOMAIN integs' = DOMAIN integs
  BY <1>1, <1>2, Mapped
<1> QED
  BY <1>2, <1>3, TablesTouched DEF TablesOK, ChatsOK, SetsOK

\* Unmarking what is broken.
LEMMA ClearChatIntegrationsBrokenKeeps ==
  ASSUME IInv, NEW h \in greeting, ClearChatIntegrationsBroken(h)
  PROVE  IInv'
<1>1. integs' = [i \in DOMAIN integs |->
         IF HasRow(h.tg) /\ integs[i].chat = RowOf(h.tg)
         THEN [integs[i] EXCEPT !.broken = FALSE] ELSE integs[i]]
  BY DEF ClearChatIntegrationsBroken
<1>2. ASSUME NEW i \in DOMAIN integs
      PROVE  \E b \in BOOLEAN : integs'[i] = [integs[i] EXCEPT !.broken = b]
  <2>1. integs[i] \in IntegRow
    BY RowTypes DEF IInv
  <2>2. integs[i].broken \in BOOLEAN /\ [integs[i] EXCEPT !.broken = integs[i].broken] = integs[i]
    BY <2>1 DEF IntegRow
  <2>3. integs'[i] = [integs[i] EXCEPT !.broken = FALSE] \/ integs'[i] = integs[i]
    BY <1>1
  <2> QED
    BY <2>2, <2>3
<1>3. integs' = [i \in DOMAIN integs |-> integs'[i]]
  BY <1>1
<1>4. TablesOK'
  BY <1>2, <1>3, MarkingKeeps DEF IInv, ClearChatIntegrationsBroken
<1> QED
  BY <1>4, TelegramKept, HandlersKept, BooksUntouched DEF IInv, ClearChatIntegrationsBroken

\* A topic is kept or forgotten, of the row under the new id.
LEMMA RecordTopicKeeps ==
  ASSUME IInv, NEW u \in updates, RecordTopic(u)
  PROVE  IInv'
<1>1. u.topic \in Topics
  BY UpdateTypes DEF RecordTopic
<1>2. seen' \subseteq (DOMAIN chats) \X Topics
  <2>1. HasRow("new") => RowOf("new") \in DOMAIN chats
    BY RowOfId
  <2>2. \/ seen' \subseteq seen
        \/ HasRow("new") /\ seen' = seen \cup {<<RowOf("new"), u.topic>>}
    BY DEF RecordTopic
  <2> QED
    BY <1>1, <2>1, <2>2 DEF IInv, TablesOK, SetsOK
<1>3. TablesOK'
  BY <1>2, TablesTouched DEF IInv, TablesOK, ChatsOK, SetsOK, IntegsOK, RecordTopic, handlers
<1> QED
  BY <1>3, TelegramKept, HandlersKept, BooksUntouched DEF IInv, RecordTopic, Take, handlers

\* A connection is made where the row is still there and the repository is not.
LEMMA CreateIntegrationKeeps ==
  ASSUME IInv, NEW k \in connecting, CreateIntegration(k)
  PROVE  IInv'
<1>1. k \in [row: Nat, repo: Repos]
  BY DEF IInv, HandlersOK
<1>2. UNCHANGED <<chats, managers, seen, lastRow, outbox, loaded>>
  BY DEF CreateIntegration
<1>3. TablesOK'
  <2>1. CASE k.row \notin DOMAIN chats \/ \E i \in InRow(k.row) : integs[i].repo = k.repo
    <3>1. UNCHANGED tables
      BY <1>2, <2>1 DEF CreateIntegration, tables
    <3> QED
      BY <1>2, <3>1, TablesKept DEF IInv
  <2>2. CASE k.row \in DOMAIN chats /\ ~\E i \in InRow(k.row) : integs[i].repo = k.repo
    <3> DEFINE new == [chat |-> k.row, repo |-> k.repo, broken |-> FALSE]
    <3>1. new \in IntegRow
      BY <1>1 DEF IntegRow
    <3>2. integs' = Append(integs, new) /\ integs \in Seq(IntegRow)
      BY <2>2 DEF CreateIntegration, NewIntegration, IInv, TablesOK, IntegsOK
    <3>3. /\ integs' \in Seq(IntegRow) /\ Len(integs') = Len(integs) + 1
          /\ \A i \in 1..Len(integs) : integs'[i] = integs[i]
          /\ integs'[Len(integs) + 1] = new
      BY <3>1, <3>2, AppendProperties
    <3>4. DOMAIN integs = 1..Len(integs) /\ DOMAIN integs' = 1..Len(integs') /\ Len(integs) \in Nat
      BY <3>2, <3>3, Elements
    <3>5. /\ DOMAIN integs' = DOMAIN integs \cup {Len(integs) + 1}
          /\ Len(integs) + 1 \notin DOMAIN integs
      BY <3>3, <3>4
    <3>6. k.row # Gone
      BY <2>2, RowTypes DEF IInv
    <3>7. Connected' = Connected \cup {Len(integs) + 1} /\ integs'[Len(integs) + 1] = new
      BY <3>3, <3>4, <3>5, <3>6 DEF Connected
    <3>8. \A i \in Connected : integs'[i] = integs[i] /\ i # Len(integs) + 1
      BY <3>3, <3>4, <3>5 DEF Connected
    <3>9. \A i \in Connected : ~(integs[i].chat = k.row /\ integs[i].repo = k.repo)
      BY <2>2 DEF InRow
    <3>10. IntegsOK'
      BY <1>2, <2>2, <3>3, <3>7, <3>8, <3>9 DEF IInv, TablesOK, IntegsOK
    <3>11. JobsOK'
      BY <1>2, <3>3, <3>4, <3>5 DEF IInv, TablesOK, JobsOK
    <3>12. LoadedOK'
      BY <1>2, <3>3, <3>4, <3>5, <3>7, <3>8 DEF IInv, TablesOK, LoadedOK, References
    <3>13. ChatsOK' /\ SetsOK'
      BY <1>2 DEF IInv, TablesOK, ChatsOK, SetsOK
    <3> QED
      BY <3>10, <3>11, <3>12, <3>13 DEF TablesOK
  <2> QED
    BY <2>1, <2>2
<1> QED
  BY <1>3, TelegramKept, HandlersKept, BooksUntouched DEF IInv, CreateIntegration

\* The foreign keys are checked where the row is put, so it is put where its
\* integration is.
LEMMA EnqueueKeeps ==
  ASSUME IInv, NEW l \in loaded, Enqueue(l)
  PROVE  IInv'
<1>1. /\ Len(outbox) < MaxJobs /\ l.integ \in DOMAIN integs
      /\ References(l) => integs[l.integ].chat = l.row
  BY DEF IInv, TablesOK, LoadedOK
<1>2. loaded' = {} /\ UNCHANGED <<chats, managers, seen, lastRow, integs>>
  BY DEF Enqueue
<1>3. ChatsOK' /\ SetsOK' /\ IntegsOK' /\ LoadedOK' /\ Connected' = Connected
  BY <1>2 DEF IInv, TablesOK, ChatsOK, SetsOK, IntegsOK, LoadedOK, Connected
<1>4. JobsOK' /\ BooksOK'
  <2>1. CASE ~References(l)
    <3>1. UNCHANGED <<outbox, senders>>
      BY <2>1 DEF Enqueue, senders
    <3>2. JobsOK'
      BY <1>2, <3>1 DEF IInv, TablesOK, JobsOK
    <3> QED
      BY <3>1, <3>2, BooksUntouched DEF IInv
  <2>2. CASE References(l)
    <3>0. PICK flaws \in SUBSET (0..Parts) :
            outbox' = Append(outbox, NewJob(l.row, l.integ, flaws))
      BY <2>2 DEF Enqueue
    <3> DEFINE n == Len(outbox) + 1
               job == [chat |-> l.row, integ |-> l.integ, flaws |-> flaws,
                       status |-> "pending", attempts |-> 0]
               none == [p \in 1..Parts |-> 0]
    <3>1. outbox' = Append(outbox, job) /\ arrived' = Append(arrived, none)
      BY <2>2, <3>0 DEF Enqueue, NewJob
    <3>2. UNCHANGED <<sending, refused, overtaken>>
      BY DEF Enqueue
    <3>3. l.row \in Nat /\ l.integ \in Nat
      BY DEF IInv, HandlersOK
    <3>4. job \in JobRow /\ none \in [1..Parts -> Nat]
      BY <3>3, NumbersAssumption DEF JobRow
    <3>5. /\ outbox \in Seq(JobRow) /\ arrived \in Seq([1..Parts -> Nat])
          /\ Len(arrived) = Len(outbox)
      BY DEF IInv, TablesOK, JobsOK, BooksOK, SendersOK
    <3>6. /\ outbox' \in Seq(JobRow) /\ Len(outbox') = n
          /\ \A j \in 1..Len(outbox) : outbox'[j] = outbox[j]
          /\ outbox'[n] = job
      BY <3>1, <3>4, <3>5, AppendProperties
    <3>7. /\ arrived' \in Seq([1..Parts -> Nat]) /\ Len(arrived') = n
          /\ \A j \in 1..Len(outbox) : arrived'[j] = arrived[j]
          /\ arrived'[n] = none
      <4> HIDE DEF none
      <4> QED
        BY <3>1, <3>4, <3>5, AppendProperties
    <3>8. DOMAIN outbox = 1..Len(outbox) /\ DOMAIN outbox' = 1..n /\ Len(outbox) \in Nat
      BY <3>5, <3>6, Elements
    <3>9. DOMAIN outbox' = DOMAIN outbox \cup {n} /\ n \notin DOMAIN outbox
      BY <3>8
    <3>10. \A j \in DOMAIN outbox : outbox'[j] = outbox[j] /\ arrived'[j] = arrived[j]
      BY <3>6, <3>7, <3>8
    <3>11. n <= MaxJobs
      BY <1>1, <3>8, NumbersAssumption
    <3>12. JobsOK'
      <4>1. outbox'[n].integ = l.integ /\ outbox'[n].chat = l.row
        BY <3>6
      <4>2. ASSUME NEW j \in DOMAIN outbox'
            PROVE  /\ outbox'[j].integ \in DOMAIN integs
                   /\ outbox'[j].chat # Gone => outbox'[j].chat = integs[outbox'[j].integ].chat
        <5>1. CASE j = n
          BY <1>1, <2>2, <4>1, <5>1
        <5>2. CASE j \in DOMAIN outbox
          BY <3>10, <5>2 DEF IInv, TablesOK, JobsOK
        <5> QED
          BY <3>9, <5>1, <5>2
      <4> HIDE DEF n, job
      <4> QED
        BY <1>2, <3>6, <3>11, <4>2 DEF JobsOK
    <3> HIDE DEF n, job, none
    <3>16. Blamed \subseteq Blamed'
      BY <3>2, <3>9, <3>10, BlameStays DEF SameFlaws
    <3>13. SendersOK' /\ Held'
      BY <3>2, <3>6, <3>7, <3>9, <3>10, <3>16 DEF IInv, BooksOK, SendersOK, Held, Holding, Idle
    <3>14. Landed'
      <4> SUFFICES ASSUME NEW w \in Senders, Holding(w), NEW p \in 1..Parts
                   PROVE  /\ p < sending[w].part \/ sending[w].at = "sent" =>
                               arrived'[sending[w].job][p] >= 1
                          /\ p >= sending[w].part /\ sending[w].at \notin Done =>
                               arrived'[sending[w].job][p] <= outbox'[sending[w].job].attempts
        BY <3>2 DEF Landed, Holding
      <4>1. sending[w].job \in DOMAIN outbox
        BY DEF IInv, BooksOK, Held, Holding, Idle
      <4> QED
        BY <3>10, <4>1 DEF IInv, BooksOK, Landed
    <3>15. Counted'
      <4>1. ASSUME NEW j \in DOMAIN outbox'
            PROVE  /\ outbox'[j].status \in {"pending", "sending"} =>
                        outbox'[j].attempts < MaxAttempts
                   /\ outbox'[j].status = "failed" =>
                        j \in Blamed' \/ outbox'[j].attempts >= MaxAttempts
                   /\ \A p \in 1..Parts :
                        /\ outbox'[j].status = "sent" => arrived'[j][p] >= 1
                        /\ arrived'[j][p] <= outbox'[j].attempts
                                               + IF outbox'[j].status = "sending" THEN 1 ELSE 0
        <5>1. CASE j = n
          BY <3>6, <3>7, <5>1, NumbersAssumption DEF job, none
        <5>2. CASE j \in DOMAIN outbox
          BY <3>10, <3>16, <5>2 DEF IInv, BooksOK, Counted
        <5> QED
          BY <3>9, <5>1, <5>2
      <4> QED
        BY <3>2, <4>1 DEF Counted
    <3> QED
      BY <3>12, <3>13, <3>14, <3>15 DEF BooksOK
  <2> QED
    BY <2>1, <2>2
<1>5. HandlersOK' /\ TelegramOK'
  BY <1>2, TelegramKept, HandlersKept DEF IInv, Enqueue
<1> QED
  BY <1>3, <1>4, <1>5 DEF IInv, TablesOK

\* Every handler.
LEMMA HandlerKeeps == ASSUME IInv, Handler PROVE IInv'
BY HandleChatMigratedKeeps, HandleRemovedKeeps, UpsertChatKeeps, RecordTopicKeeps,
   AddChatManagerKeeps, ClearChatIntegrationsBrokenKeeps, CreateIntegrationKeeps, EnqueueKeeps
   DEF Handler

-----------------------------------------------------------------------------
(***************************************************************************)
(* Administrators, and webhooks.                                           *)
(***************************************************************************)
\* An upgrade is followed by the administrator checker.
LEMMA ChecksAdminsKeeps == ASSUME IInv, ChecksAdmins PROVE IInv'
<1>1. TablesOK' /\ SameBooks
  BY MigrateKeeps DEF IInv, ChecksAdmins, handlers
<1> QED
  BY <1>1, TelegramKept, HandlersKept, BooksKept DEF IInv, ChecksAdmins, handlers

\* A topic is set or cleared in a row.
LEMMA TopicKeeps ==
  ASSUME TablesOK, NEW c \in DOMAIN chats, NEW t \in Threads,
         chats' = [chats EXCEPT ![c].topic = t],
         UNCHANGED <<managers, seen, integs, outbox, lastRow, loaded>>
  PROVE  TablesOK'
<1>1. \A d \in DOMAIN chats : chats[d] \in ChatRow
  BY RowTypes
<1>2. DOMAIN chats' = DOMAIN chats /\ chats' \in [DOMAIN chats -> ChatRow]
  BY <1>1 DEF TablesOK, ChatsOK, ChatRow
<1>3. \A d \in DOMAIN chats : chats'[d].tg = chats[d].tg
  BY <1>1 DEF ChatRow
<1> QED
  BY <1>2, <1>3, TablesTouched DEF TablesOK, SetsOK, IntegsOK

\* An administrator chooses a topic.
LEMMA SetChatTopicKeeps ==
  ASSUME IInv, NEW tg, NEW t \in Threads, SetChatTopic(tg, t)
  PROVE  IInv'
<1>1. TablesOK'
  BY RowOfId, TopicKeeps DEF IInv, SetChatTopic, handlers
<1> QED
  BY <1>1, TelegramKept, HandlersKept, BooksUntouched DEF IInv, SetChatTopic, handlers

\* A tap on connect remembers the row.
LEMMA StartConnectKeeps ==
  ASSUME IInv, NEW c \in DOMAIN chats, NEW p \in Repos, StartConnect(c, p)
  PROVE  IInv'
<1>1. c \in Nat
  BY RowTypes DEF IInv
<1>2. HandlersOK'
  BY <1>1 DEF IInv, HandlersOK, StartConnect
<1>3. UNCHANGED tables /\ loaded' = loaded /\ UNCHANGED <<outbox, senders>>
  BY DEF StartConnect, tables
<1> QED
  BY <1>2, <1>3, TelegramKept, TablesKept, BooksUntouched DEF IInv, StartConnect

\* An integration is deleted, and its jobs with it.
LEMMA DisconnectKeeps ==
  ASSUME IInv, NEW i \in Connected, Disconnect(i)
  PROVE  IInv'
<1>1. integs \in Seq(IntegRow) /\ outbox \in Seq(JobRow)
  BY DEF IInv, TablesOK, IntegsOK, JobsOK
<1>2. /\ integs' = [integs EXCEPT ![i].chat = Gone]
      /\ outbox' = [j \in DOMAIN outbox |->
           IF outbox[j].integ = i THEN [outbox[j] EXCEPT !.chat = Gone] ELSE outbox[j]]
      /\ UNCHANGED <<chats, managers, seen, lastRow, loaded, senders>>
  BY DEF Disconnect, handlers
<1>3. i \in DOMAIN integs /\ integs[i] \in IntegRow
  BY RowTypes DEF IInv, Connected
<1>4. /\ DOMAIN integs' = DOMAIN integs /\ integs'[i] \in IntegRow
      /\ integs'[i].chat = Gone /\ integs'[i].repo = integs[i].repo
      /\ \A k \in DOMAIN integs \ {i} : integs'[k] = integs[k] /\ integs'[k] \in IntegRow
      /\ integs' = [k \in DOMAIN integs |-> integs'[k]]
  BY <1>2, <1>3, RowTypes DEF IInv, IntegRow, Gone
<1>5. integs' \in Seq(IntegRow)
  <2>1. \A k \in DOMAIN integs : integs'[k] \in IntegRow
    BY <1>4
  <2>2. integs' = [k \in DOMAIN integs |-> integs'[k]]
    BY <1>4
  <2> QED
    BY <1>1, <2>1, <2>2, Mapped
<1>6. ASSUME NEW j \in DOMAIN outbox
      PROVE  /\ outbox'[j] \in JobRow /\ outbox'[j].integ = outbox[j].integ
             /\ outbox'[j].chat = IF outbox[j].integ = i THEN Gone ELSE outbox[j].chat
             /\ outbox'[j].status = outbox[j].status /\ outbox'[j].attempts = outbox[j].attempts
             /\ outbox'[j].flaws = outbox[j].flaws
  <2>1. outbox[j] \in JobRow
    BY RowTypes DEF IInv
  <2> QED
    BY <1>2, <2>1 DEF JobRow, Gone
<1>7. outbox' = [j \in DOMAIN outbox |-> outbox'[j]]
  BY <1>2
<1>8. outbox' \in Seq(JobRow) /\ Len(outbox') = Len(outbox) /\ DOMAIN outbox' = DOMAIN outbox
  BY <1>1, <1>6, <1>7, Mapped
<1>9. Connected' = Connected \ {i}
  BY <1>4 DEF Connected
<1>10. SameBooks
  BY <1>6, <1>8 DEF SameBooks, SameFlaws
<1>11. ChatsOK' /\ SetsOK'
  BY <1>2 DEF IInv, TablesOK, ChatsOK, SetsOK
<1>12. IntegsOK'
  <2>1. \A k \in Connected' : k \in Connected /\ integs'[k] = integs[k]
    BY <1>4, <1>9 DEF Connected
  <2> QED
    BY <1>2, <1>5, <2>1 DEF IInv, TablesOK, IntegsOK
<1>13. JobsOK'
  <2>1. ASSUME NEW j \in DOMAIN outbox
        PROVE  /\ outbox'[j].integ \in DOMAIN integs'
               /\ outbox'[j].chat # Gone => outbox'[j].chat = integs'[outbox'[j].integ].chat
    <3>1. /\ outbox[j].integ \in DOMAIN integs
          /\ outbox[j].chat # Gone => outbox[j].chat = integs[outbox[j].integ].chat
      BY DEF IInv, TablesOK, JobsOK
    <3> QED
      BY <1>4, <1>6, <3>1
  <2> QED
    BY <1>8, <2>1 DEF IInv, TablesOK, JobsOK
<1>14. LoadedOK'
  <2> SUFFICES ASSUME NEW l \in loaded
               PROVE  /\ Len(outbox') < MaxJobs
                      /\ l.integ \in DOMAIN integs' /\ l.row \in 1..lastRow'
                      /\ References(l)' => integs'[l.integ].chat = l.row
    BY <1>2 DEF LoadedOK
  <2>1. /\ Len(outbox) < MaxJobs
        /\ l.integ \in DOMAIN integs /\ l.row \in 1..lastRow
        /\ References(l) => integs[l.integ].chat = l.row
    BY DEF IInv, TablesOK, LoadedOK
  <2>2. References(l)' => References(l) /\ l.integ # i
    BY <1>2, <1>9 DEF References
  <2> QED
    BY <1>2, <1>4, <1>8, <2>1, <2>2
<1>15. TablesOK'
  BY <1>11, <1>12, <1>13, <1>14 DEF TablesOK
<1> QED
  BY <1>2, <1>10, <1>15, TelegramKept, HandlersKept, BooksKept DEF IInv, Disconnect, handlers

\* A webhook reads where an integration is.
LEMMA WebhookKeeps ==
  ASSUME IInv, NEW i \in Connected, IntegrationsForRepo(i)
  PROVE  IInv'
<1>1. i \in DOMAIN integs /\ integs[i].chat \in DOMAIN chats
  BY DEF IInv, TablesOK, IntegsOK, Connected
<1>2. i \in Nat /\ integs[i].chat \in Nat
  BY <1>1, RowTypes DEF IInv
<1>3. loaded' = {[integ |-> i, row |-> integs[i].chat]} /\ Len(outbox) < MaxJobs /\ UNCHANGED tables
  BY DEF IntegrationsForRepo
<1>4. HandlersOK'
  BY <1>2, <1>3 DEF IInv, HandlersOK, IntegrationsForRepo
<1>5. LoadedOK'
  <2>1. integs[i].chat \in 1..lastRow
    BY <1>1 DEF IInv, TablesOK, ChatsOK
  <2> QED
    BY <1>1, <1>3, <2>1 DEF LoadedOK, tables
<1>6. ChatsOK' /\ SetsOK' /\ IntegsOK' /\ JobsOK'
  BY <1>3 DEF IInv, TablesOK, ChatsOK, SetsOK, IntegsOK, JobsOK, Connected, tables
<1> QED
  BY <1>3, <1>4, <1>5, <1>6, TelegramKept, BooksUntouched
  DEF IInv, TablesOK, IntegrationsForRepo, tables

\* Every administrator.
LEMMA AdministratorKeeps == ASSUME IInv, Administrator PROVE IInv'
BY ChecksAdminsKeeps, SetChatTopicKeeps, StartConnectKeeps, DisconnectKeeps
   DEF Administrator, ChoosesTopic, Threads

-----------------------------------------------------------------------------
(***************************************************************************)
(* The Sender.                                                             *)
(***************************************************************************)

\* What a worker that holds a job is at.
LEMMA InHand ==
  ASSUME IInv, NEW w \in Senders, Holding(w)
  PROVE  /\ sending[w] \in Sending /\ sending[w].job \in DOMAIN outbox
         /\ sending[w].part \in Nat /\ sending[w].part \in 1..Parts
         /\ outbox[sending[w].job] \in JobRow /\ outbox[sending[w].job].status = "sending"
         /\ sending[w].job \in DOMAIN arrived
         /\ \A j \in DOMAIN outbox :
              j \in DOMAIN arrived /\ arrived[j] \in [1..Parts -> Nat]
              /\ outbox[j].attempts \in 0..MaxAttempts
<1>1. sending[w] # Idle
  BY DEF Holding, Idle
<1>2. sending[w] \in Sending
  BY <1>1 DEF IInv, BooksOK, SendersOK
<1>3. sending[w].job \in DOMAIN outbox /\ outbox[sending[w].job].status = "sending"
  BY <1>1 DEF IInv, BooksOK, Held
<1>4. /\ DOMAIN outbox = 1..Len(outbox) /\ \A j \in DOMAIN outbox : outbox[j] \in JobRow
  BY RowTypes DEF IInv
<1>5. /\ arrived \in Seq([1..Parts -> Nat]) /\ Len(arrived) = Len(outbox)
  BY DEF IInv, BooksOK, SendersOK
<1>6. DOMAIN arrived = DOMAIN outbox /\ \A j \in DOMAIN arrived : arrived[j] \in [1..Parts -> Nat]
  BY <1>4, <1>5, Elements
<1>7. sending[w].part \in 1..Parts
  BY <1>2 DEF Sending
<1>8. sending[w].part \in Nat
  BY <1>7, NumbersAssumption
<1>9. \A j \in DOMAIN outbox : outbox[j].attempts \in 0..MaxAttempts
  BY <1>4 DEF JobRow
<1>10. \A j \in DOMAIN outbox : j \in DOMAIN arrived /\ arrived[j] \in [1..Parts -> Nat]
  BY <1>6
<1>11. outbox[sending[w].job] \in JobRow /\ sending[w].job \in DOMAIN arrived
  BY <1>3, <1>4, <1>6
<1> QED
  BY <1>2, <1>3, <1>7, <1>8, <1>9, <1>10, <1>11

\* A worker goes on with the job in its hands, which may have landed a part.
LEMMA GoesOn ==
  ASSUME IInv, NEW w \in Senders, Holding(w), NEW s \in Sending,
         sending' = [sending EXCEPT ![w] = s], s.job = sending[w].job, s.at # "hook",
         SameBooks,
         arrived' \in Seq([1..Parts -> Nat]), Len(arrived') = Len(arrived),
         \A j \in DOMAIN outbox \ {s.job} : arrived'[j] = arrived[j],
         \A p \in 1..Parts :
           /\ arrived'[s.job][p] >= arrived[s.job][p]
           /\ arrived'[s.job][p] <= outbox[s.job].attempts + 1
           /\ p < s.part \/ s.at = "sent" => arrived'[s.job][p] >= 1
           /\ p >= s.part /\ s.at \notin Done => arrived'[s.job][p] <= outbox[s.job].attempts,
         refused \subseteq refused', refused' \subseteq DOMAIN outbox,
         overtaken \subseteq overtaken', overtaken' \subseteq DOMAIN outbox,
         s.at \in {"kicked", "permanent"} => s.job \in Blamed'
  PROVE  BooksOK'
<1>1. /\ sending \in [Senders -> {Idle} \cup Sending]
      /\ \A v \in Senders \ {w} : sending'[v] = sending[v]
      /\ sending'[w] = s
  BY DEF IInv, BooksOK, SendersOK
<1>2. s.job \in DOMAIN outbox /\ outbox[s.job].status = "sending"
  BY InHand
<1>3. s # Idle /\ s.at # "idle"
  BY DEF Sending, Idle, Calls
<1>4. \A v \in Senders : Holding(v)' <=> Holding(v)
  BY <1>1, <1>3 DEF Holding
<1>5. \A v \in Senders \ {w} : Holding(v) =>
        sending[v].job # s.job /\ sending[v].job \in DOMAIN outbox
  BY DEF IInv, BooksOK, Held, Holding, Idle
<1>6. SendersOK'
  BY DEF IInv, BooksOK, SendersOK, SameBooks
<1>0. Blamed \subseteq Blamed'
  BY BlameStays DEF SameBooks
<1>7. Held'
  <2>1. ASSUME NEW v \in Senders
        PROVE  /\ sending'[v] # Idle => sending'[v].job \in DOMAIN outbox'
               /\ Holding(v)' => outbox'[sending'[v].job].status = "sending"
               /\ sending'[v].at \in {"kicked", "permanent"} => sending'[v].job \in Blamed'
    <3>1. CASE v = w
      BY <1>1, <1>2, <3>1 DEF SameBooks
    <3>2. CASE v # w
      BY <1>0, <1>1, <1>4, <1>5, <3>2 DEF IInv, BooksOK, Held, SameBooks
    <3> QED
      BY <3>1, <3>2
  <2>2. ASSUME NEW v \in Senders, NEW u \in Senders \ {v}, Holding(u)', Holding(v)'
        PROVE  sending'[u].job # sending'[v].job
    <3>1. sending'[u].job = sending[u].job /\ sending'[v].job = sending[v].job
      BY <1>1
    <3> QED
      BY <1>4, <2>2, <3>1 DEF IInv, BooksOK, Held
  <2> QED
    BY <2>1, <2>2 DEF Held
<1>8. Landed'
  <2> SUFFICES ASSUME NEW v \in Senders, Holding(v)', NEW p \in 1..Parts
               PROVE  /\ p < sending'[v].part \/ sending'[v].at = "sent" =>
                           arrived'[sending'[v].job][p] >= 1
                      /\ p >= sending'[v].part /\ sending'[v].at \notin Done =>
                           arrived'[sending'[v].job][p] <= outbox'[sending'[v].job].attempts
    BY DEF Landed
  <2>1. CASE v = w
    BY <1>1, <1>2, <2>1 DEF SameBooks
  <2>2. CASE v # w
    BY <1>1, <1>4, <1>5, <2>2 DEF IInv, BooksOK, Landed, SameBooks
  <2> QED
    BY <2>1, <2>2
<1>9. Counted'
  <2> SUFFICES ASSUME NEW j \in DOMAIN outbox
               PROVE  /\ outbox'[j].status \in {"pending", "sending"} =>
                           outbox'[j].attempts < MaxAttempts
                      /\ outbox'[j].status = "failed" =>
                           j \in Blamed' \/ outbox'[j].attempts >= MaxAttempts
                      /\ \A p \in 1..Parts :
                           /\ outbox'[j].status = "sent" => arrived'[j][p] >= 1
                           /\ arrived'[j][p] <= outbox'[j].attempts
                                                  + IF outbox'[j].status = "sending" THEN 1 ELSE 0
    BY DEF Counted, SameBooks
  <2>1. CASE j = s.job
    BY <1>0, <1>2, <2>1 DEF IInv, BooksOK, Counted, SameBooks
  <2>2. CASE j # s.job
    BY <1>0, <2>2 DEF IInv, BooksOK, Counted, SameBooks
  <2> QED
    BY <2>1, <2>2
<1> QED
  BY <1>6, <1>7, <1>8, <1>9 DEF BooksOK

\* A step of the remedy, or its failure.
LEMMA RemedyGoesOn ==
  ASSUME IInv, NEW w \in Senders, sending[w].at \in Remedies, NEW s \in Sending,
         sending' = [sending EXCEPT ![w] = s], s.job = sending[w].job, s.part = sending[w].part,
         s.at \in Remedies \cup Calls \cup {"retry"},
         SameBooks, UNCHANGED <<arrived, refused, overtaken>>
  PROVE  BooksOK'
<1>1. Holding(w) /\ sending[w].at \notin Done
  BY DEF Holding, Remedies, Done
<1>2. s.at \notin {"hook", "kicked", "permanent", "sent"}
  BY DEF Remedies, Calls
<1>3. /\ arrived \in Seq([1..Parts -> Nat]) /\ refused \subseteq DOMAIN outbox
      /\ overtaken \subseteq DOMAIN outbox
  BY DEF IInv, BooksOK, SendersOK
<1>4. ASSUME NEW p \in 1..Parts
      PROVE  /\ arrived[s.job][p] \in Nat /\ outbox[s.job].attempts \in Nat
             /\ arrived[s.job][p] <= outbox[s.job].attempts + 1
             /\ p < s.part => arrived[s.job][p] >= 1
             /\ p >= s.part => arrived[s.job][p] <= outbox[s.job].attempts
  <2>1. /\ s.job \in DOMAIN outbox /\ outbox[s.job].status = "sending"
        /\ arrived[s.job] \in [1..Parts -> Nat] /\ outbox[s.job].attempts \in Nat
    BY <1>1, InHand, NumbersAssumption
  <2>2. arrived[s.job][p] <= outbox[s.job].attempts + 1
    BY <2>1 DEF IInv, BooksOK, Counted
  <2>3. /\ p < s.part => arrived[s.job][p] >= 1
        /\ p >= s.part => arrived[s.job][p] <= outbox[s.job].attempts
    BY <1>1 DEF IInv, BooksOK, Landed
  <2> QED
    BY <2>1, <2>2, <2>3
<1>5. \A p \in 1..Parts :
        /\ arrived'[s.job][p] >= arrived[s.job][p]
        /\ arrived'[s.job][p] <= outbox[s.job].attempts + 1
        /\ p < s.part \/ s.at = "sent" => arrived'[s.job][p] >= 1
        /\ p >= s.part /\ s.at \notin Done => arrived'[s.job][p] <= outbox[s.job].attempts
  BY <1>2, <1>4
<1> QED
  BY <1>1, <1>2, <1>3, <1>5, GoesOn

\* An upgrade is followed by a worker, which then resends.
LEMMA OnMigratedKeeps ==
  ASSUME IInv, NEW w \in Senders, OnMigrated(w)
  PROVE  IInv'
<1> DEFINE s == [sending[w] EXCEPT !.at = "resend", !.here = "new"]
<1>1. Holding(w) /\ sending[w].at \in Remedies
  BY DEF OnMigrated, Holding, Remedies
<1>2. sending[w] \in Sending
  BY <1>1, InHand
<1>3. s \in Sending /\ s.job = sending[w].job /\ s.part = sending[w].part /\ s.at = "resend"
  BY <1>2 DEF Sending, Calls
<1>4. sending' = [sending EXCEPT ![w] = s]
  BY <1>2 DEF OnMigrated, IInv, BooksOK, SendersOK
<1>5. TablesOK' /\ SameBooks
  BY MigrateKeeps DEF IInv, OnMigrated, handlers
<1>6. UNCHANGED <<arrived, refused, overtaken>> /\ "resend" \in Calls
  BY DEF OnMigrated, Calls
<1>7. BooksOK'
  <2> HIDE DEF s
  <2> QED
    BY <1>1, <1>3, <1>4, <1>5, <1>6, RemedyGoesOn
<1> QED
  BY <1>5, <1>7, TelegramKept, HandlersKept DEF IInv, OnMigrated, handlers

\* The next stop of a worker at work on a remedy.
LEMMA GoKeeps ==
  ASSUME IInv, NEW w \in Senders, sending[w].at \in Remedies,
         NEW at \in Remedies \cup Calls \cup {"retry"}, Go(w, at),
         UNCHANGED <<outbox, arrived, refused, overtaken>>
  PROVE  BooksOK'
<1> DEFINE s == [sending[w] EXCEPT !.at = at]
<1>1. Holding(w)
  BY DEF Holding, Remedies
<1>2. sending[w] \in Sending
  BY <1>1, InHand
<1>3. s \in Sending /\ s.job = sending[w].job /\ s.part = sending[w].part /\ s.at = at
  BY <1>2 DEF Sending, Calls, Remedies
<1>4. sending' = [sending EXCEPT ![w] = s]
  BY <1>2 DEF Go, IInv, BooksOK, SendersOK
<1>5. SameBooks
  BY DEF SameBooks, SameFlaws
<1> HIDE DEF s
<1> QED
  BY <1>3, <1>4, <1>5, RemedyGoesOn

\* The missing topic is forgotten, or another that was chosen meanwhile.
LEMMA ForgetClearedTopicKeeps ==
  ASSUME IInv, NEW w \in Senders, ForgetClearedTopic(w)
  PROVE  IInv'
<1>1. seen' \subseteq seen
  BY DEF ForgetClearedTopic
<1>2. TablesOK'
  BY <1>1, TablesTouched DEF IInv, TablesOK, ChatsOK, SetsOK, IntegsOK, ForgetClearedTopic, handlers
<1>3. sending[w].at \in Remedies /\ "unset" \in Remedies
  BY DEF ForgetClearedTopic, Remedies
<1>4. BooksOK'
  BY <1>3, GoKeeps DEF ForgetClearedTopic
<1> QED
  BY <1>2, <1>4, TelegramKept, HandlersKept DEF IInv, ForgetClearedTopic, handlers

\* The chat's topic is cleared, or another that was chosen meanwhile.
LEMMA ClearTopicKeeps ==
  ASSUME IInv, NEW w \in Senders, ClearTopic(w)
  PROVE  IInv'
<1> DEFINE tg == sending[w].here
<1>1. UNCHANGED <<managers, seen, integs, outbox, lastRow, loaded>>
  BY DEF ClearTopic, handlers
<1>2. TablesOK'
  <2>1. CASE HasRow(tg)
    <3>1. chats' = [chats EXCEPT ![RowOf(tg)].topic = General]
      BY <2>1 DEF ClearTopic
    <3>2. General \in Threads
      BY DEF Threads
    <3> QED
      BY <1>1, <2>1, <3>1, <3>2, RowOfId, TopicKeeps DEF IInv
  <2>2. CASE ~HasRow(tg)
    <3>1. UNCHANGED tables
      BY <1>1, <2>2 DEF ClearTopic, tables
    <3> QED
      BY <1>1, <3>1, TablesKept DEF IInv
  <2> QED
    BY <2>1, <2>2
<1>3. sending[w].at \in Remedies /\ "general" \in Calls
  BY DEF ClearTopic, Remedies, Calls
<1>4. BooksOK'
  BY <1>3, GoKeeps DEF ClearTopic
<1> QED
  BY <1>2, <1>4, TelegramKept, HandlersKept DEF IInv, ClearTopic, handlers

\* A statement of a remedy fails.
LEMMA RemedyFailsKeeps ==
  ASSUME IInv, NEW w \in Senders, RemedyFails(w)
  PROVE  IInv'
<1>1. UNCHANGED tables /\ UNCHANGED <<outbox, arrived, refused, overtaken>>
  BY DEF RemedyFails, tables
<1>2. sending[w].at \in Remedies
  BY DEF RemedyFails, Remedies
<1>3. BooksOK'
  BY <1>1, <1>2, GoKeeps DEF RemedyFails
<1> QED
  BY <1>1, <1>3, TelegramKept, HandlersKept, TablesKept DEF IInv, RemedyFails, handlers

\* A job changes, not its place.
LEMMA JobChanges ==
  ASSUME TablesOK, NEW j \in DOMAIN outbox, NEW row \in JobRow,
         outbox' = [outbox EXCEPT ![j] = row],
         row.chat = outbox[j].chat, row.integ = outbox[j].integ,
         UNCHANGED <<chats, managers, seen, integs, lastRow, loaded>>
  PROVE  /\ DOMAIN outbox' = DOMAIN outbox /\ Len(outbox') = Len(outbox)
         /\ outbox'[j] = row
         /\ \A i \in DOMAIN outbox \ {j} : outbox'[i] = outbox[i]
         /\ TablesOK'
<1>1. DOMAIN outbox = 1..Len(outbox) /\ outbox \in Seq(JobRow)
  BY RowTypes DEF TablesOK, JobsOK
<1>2. /\ outbox' \in Seq(JobRow) /\ Len(outbox') = Len(outbox)
      /\ \A i \in 1..Len(outbox) : outbox'[i] = IF i = j THEN row ELSE outbox[i]
  BY <1>1, ExceptSeq
<1>3. /\ DOMAIN outbox' = DOMAIN outbox /\ outbox'[j] = row
      /\ \A i \in DOMAIN outbox \ {j} : outbox'[i] = outbox[i]
  BY <1>1, <1>2, Elements
<1>4. \A i \in DOMAIN outbox :
        outbox'[i].chat = outbox[i].chat /\ outbox'[i].integ = outbox[i].integ
  BY <1>3
<1>5. ChatsOK' /\ SetsOK' /\ IntegsOK'
  BY DEF TablesOK, ChatsOK, SetsOK, IntegsOK, Connected
<1>6. JobsOK' /\ LoadedOK'
  BY <1>2, <1>3, <1>4 DEF TablesOK, JobsOK, LoadedOK, References, Connected
<1> QED
  BY <1>2, <1>3, <1>5, <1>6 DEF TablesOK

\* A worker takes a pending job, which nobody else holds.
LEMMA ClaimKeeps ==
  ASSUME IInv, NEW w \in Senders, NEW j \in DOMAIN outbox, Claim(w, j)
  PROVE  IInv'
<1> DEFINE c == chats[outbox[j].chat]
           s == [at |-> IF Rendered(j) THEN "send" ELSE "permanent", job |-> j, tg |-> c.tg, here |-> c.tg, topic |-> c.topic,
                 part |-> 1]
<1>1. /\ sending[w] = Idle /\ outbox[j].chat # Gone /\ outbox[j].status = "pending"
      /\ outbox' = [outbox EXCEPT ![j].status = "sending"]
      /\ sending' = [sending EXCEPT ![w] = s]
      /\ UNCHANGED <<telegram, updates, chats, managers, seen, integs, lastRow,
                     handlers, arrived, refused, overtaken>>
  BY DEF Claim
<1>2. /\ outbox[j] \in JobRow /\ outbox[j].chat \in DOMAIN chats
      /\ DOMAIN outbox = 1..Len(outbox) /\ Len(outbox) \in Nat
      /\ outbox \in Seq(JobRow) /\ Len(outbox) <= MaxJobs
  BY <1>1, RowTypes DEF IInv, TablesOK, JobsOK
<1>3. /\ [outbox[j] EXCEPT !.status = "sending"] \in JobRow
      /\ outbox' = [outbox EXCEPT ![j] = [outbox[j] EXCEPT !.status = "sending"]]
  BY <1>1, <1>2 DEF JobRow
<1>4. /\ DOMAIN outbox' = DOMAIN outbox /\ Len(outbox') = Len(outbox)
      /\ outbox'[j] = [outbox[j] EXCEPT !.status = "sending"]
      /\ \A i \in DOMAIN outbox \ {j} : outbox'[i] = outbox[i]
      /\ TablesOK'
  <2>1. /\ [outbox[j] EXCEPT !.status = "sending"].chat = outbox[j].chat
        /\ [outbox[j] EXCEPT !.status = "sending"].integ = outbox[j].integ
    BY <1>2 DEF JobRow
  <2> QED
    BY <1>1, <1>3, <2>1, JobChanges DEF IInv, handlers
<1>5. \A i \in DOMAIN outbox :
        /\ outbox'[i].attempts = outbox[i].attempts /\ outbox'[i].flaws = outbox[i].flaws
        /\ outbox'[i].status = IF i = j THEN "sending" ELSE outbox[i].status
  BY <1>2, <1>4 DEF JobRow
<1>6. s \in Sending
  <2>1. c \in ChatRow
    BY <1>2, RowTypes DEF IInv
  <2>2. j \in 1..MaxJobs /\ 1 \in 1..Parts
    BY <1>2, NumbersAssumption
  <2> QED
    BY <2>1, <2>2 DEF Sending, ChatRow, Ids, Threads, Calls
<1>7. /\ sending' \in [Senders -> {Idle} \cup Sending]
      /\ sending'[w] = s /\ \A v \in Senders \ {w} : sending'[v] = sending[v]
  BY <1>1, <1>6 DEF IInv, BooksOK, SendersOK
<1>8. /\ s.job = j /\ s.at \in {"send", "permanent"} /\ s.part = 1
      /\ s.at = "permanent" => j \in Flawed
  BY DEF Rendered, Flawed
<1> HIDE DEF s
<1>9. \A v \in Senders \ {w} : (Holding(v)' <=> Holding(v)) /\ (Holding(v) => sending[v].job # j)
  <2>1. \A v \in Senders \ {w} : Holding(v) => sending[v].job # j
    BY <1>1 DEF IInv, BooksOK, Held
  <2> QED
    BY <1>7, <2>1 DEF Holding
<1>10. SendersOK'
  BY <1>1, <1>4, <1>7 DEF IInv, BooksOK, SendersOK
<1>0. Blamed \subseteq Blamed' /\ (j \in Flawed => j \in Blamed)
  BY <1>1, <1>4, <1>5, BlameStays DEF SameFlaws, Blamed
<1>11. Held'
  <2>1. ASSUME NEW v \in Senders
        PROVE  /\ sending'[v] # Idle => sending'[v].job \in DOMAIN outbox'
               /\ Holding(v)' => outbox'[sending'[v].job].status = "sending"
               /\ sending'[v].at \in {"kicked", "permanent"} => sending'[v].job \in Blamed'
    <3>1. CASE v = w
      BY <1>0, <1>4, <1>5, <1>7, <1>8, <3>1
    <3>2. CASE v # w
      <4>1. sending'[v] = sending[v]
        BY <1>7, <3>2
      <4>2. /\ sending[v] # Idle => sending[v].job \in DOMAIN outbox
            /\ Holding(v) => outbox[sending[v].job].status = "sending" /\ sending[v] # Idle
            /\ sending[v].at \in {"kicked", "permanent"} => sending[v].job \in Blamed
        BY DEF IInv, BooksOK, Held, Holding, Idle
      <4> QED
        BY <1>0, <1>1, <1>4, <1>5, <1>9, <3>2, <4>1, <4>2
    <3> QED
      BY <3>1, <3>2
  <2>2. ASSUME NEW v \in Senders, NEW u \in Senders \ {v}, Holding(u)', Holding(v)'
        PROVE  sending'[u].job # sending'[v].job
    <3>1. CASE u # w /\ v # w
      BY <1>7, <1>9, <2>2, <3>1 DEF IInv, BooksOK, Held
    <3>2. CASE u = w \/ v = w
      BY <1>7, <1>8, <1>9, <2>2, <3>2
    <3> QED
      BY <3>1, <3>2
  <2> QED
    BY <2>1, <2>2 DEF Held
<1>12. Landed'
  <2> SUFFICES ASSUME NEW v \in Senders, Holding(v)', NEW p \in 1..Parts
               PROVE  /\ p < sending'[v].part \/ sending'[v].at = "sent" =>
                           arrived'[sending'[v].job][p] >= 1
                      /\ p >= sending'[v].part /\ sending'[v].at \notin Done =>
                           arrived'[sending'[v].job][p] <= outbox'[sending'[v].job].attempts
    BY DEF Landed
  <2>1. CASE v = w
    <3>1. ~(p < s.part) /\ s.at # "sent"
      BY <1>8, NumbersAssumption
    <3>2. arrived[j][p] <= outbox[j].attempts + 0
      BY <1>1 DEF IInv, BooksOK, Counted
    <3>3. outbox[j].attempts \in Nat
      BY <1>2, NumbersAssumption DEF JobRow
    <3> QED
      BY <1>1, <1>5, <1>7, <1>8, <2>1, <3>1, <3>2, <3>3
  <2>2. CASE v # w
    <3>1. sending[v].job \in DOMAIN outbox /\ Holding(v) /\ sending'[v] = sending[v]
      BY <1>7, <1>9, <2>2 DEF IInv, BooksOK, Held, Holding, Idle
    <3> QED
      BY <1>1, <1>5, <3>1 DEF IInv, BooksOK, Landed
  <2> QED
    BY <2>1, <2>2
<1>13. Counted'
  <2> SUFFICES ASSUME NEW i \in DOMAIN outbox
               PROVE  /\ outbox'[i].status \in {"pending", "sending"} =>
                           outbox'[i].attempts < MaxAttempts
                      /\ outbox'[i].status = "failed" =>
                           i \in Blamed' \/ outbox'[i].attempts >= MaxAttempts
                      /\ \A p \in 1..Parts :
                           /\ outbox'[i].status = "sent" => arrived'[i][p] >= 1
                           /\ arrived'[i][p] <= outbox'[i].attempts
                                                  + IF outbox'[i].status = "sending" THEN 1 ELSE 0
    BY <1>4 DEF Counted
  <2>1. CASE i = j
    <3>1. outbox[j].attempts \in Nat /\ arrived[j] \in [1..Parts -> Nat]
      <4>1. arrived \in Seq([1..Parts -> Nat]) /\ Len(arrived) = Len(outbox)
        BY DEF IInv, BooksOK, SendersOK
      <4>2. j \in DOMAIN arrived /\ \A k \in DOMAIN arrived : arrived[k] \in [1..Parts -> Nat]
        BY <1>2, <4>1, Elements
      <4>3. outbox[j].attempts \in Nat
        BY <1>2, NumbersAssumption DEF JobRow
      <4> QED
        BY <4>2, <4>3
    <3>2. \A p \in 1..Parts : arrived[j][p] <= outbox[j].attempts + 0
      BY <1>1 DEF IInv, BooksOK, Counted
    <3>3. outbox[j].attempts < MaxAttempts
      BY <1>1 DEF IInv, BooksOK, Counted
    <3>4. outbox'[i].status = "sending" /\ outbox'[i].attempts = outbox[j].attempts
      BY <1>5, <2>1
    <3>5. \A p \in 1..Parts : arrived'[i][p] <= outbox[j].attempts + 1
      <4> SUFFICES ASSUME NEW p \in 1..Parts PROVE arrived[j][p] <= outbox[j].attempts + 1
        BY <1>1, <2>1
      <4> DEFINE x == arrived[j][p]
                 y == outbox[j].attempts
      <4>1. x \in Nat /\ y \in Nat /\ x <= y + 0
        BY <3>1, <3>2
      <4> HIDE DEF x, y
      <4>2. x <= y + 1
        BY <4>1
      <4> QED
        BY <4>2 DEF x, y
    <3> QED
      BY <3>3, <3>4, <3>5
  <2>2. CASE i # j
    BY <1>0, <1>1, <1>5, <2>2 DEF IInv, BooksOK, Counted
  <2> QED
    BY <2>1, <2>2
<1> QED
  BY <1>1, <1>4, <1>10, <1>11, <1>12, <1>13, TelegramKept, HandlersKept DEF IInv, BooksOK, handlers

\* What is tried next: an "ok" goes on to the next part, nothing else ends well,
\* and a job is given up when the payload or the bot's absence is to blame, or
\* after a remedy the upgrade overtook.
AllAnswers == {"ok", "malformed", "kicked", "not found", "migrated", "topic", "emoji"}

LEMMA AfterShape ==
  ASSUME NEW s \in Sending, s.at \in Calls, NEW a \in AllAnswers
  PROVE  /\ After(s, a) \in Sending /\ After(s, a).job = s.job /\ After(s, a).at # "hook"
         /\ a = "ok" => \/ After(s, a).at = "sent" /\ After(s, a).part = Parts /\ s.part = Parts
                        \/ After(s, a).at = "send" /\ After(s, a).part = s.part + 1
         /\ a # "ok" => After(s, a).at # "sent" /\ After(s, a).part = s.part
         /\ After(s, a).at \in {"kicked", "permanent"} =>
              \/ a \in {"kicked", "not found", "malformed"}
              \/ a = "migrated" /\ s.at # "send"
<1>1. /\ s.at \in Calls /\ s.job \in 1..MaxJobs
      /\ s.tg \in {"old", "new"} /\ s.here \in {"old", "new"}
      /\ s.topic \in Topics \cup {General} /\ s.part \in 1..Parts
  BY DEF Sending
<1>2. \A at \in Calls \cup Remedies \cup Done :
        /\ [s EXCEPT !.at = at] \in Sending
        /\ [s EXCEPT !.at = at].job = s.job /\ [s EXCEPT !.at = at].part = s.part
        /\ [s EXCEPT !.at = at].at = at
  BY DEF Sending, Remedies, Done
<1>3. CASE a = "ok"
  <2>1. After(s, a) = NextPart(s)
    BY <1>3 DEF After
  <2>2. CASE s.part = Parts
    <3>1. After(s, a) = [s EXCEPT !.at = "sent"] /\ "sent" \in Done
      BY <2>1, <2>2 DEF NextPart, Done
    <3>2. /\ [s EXCEPT !.at = "sent"] \in Sending
          /\ [s EXCEPT !.at = "sent"].job = s.job /\ [s EXCEPT !.at = "sent"].part = s.part
          /\ [s EXCEPT !.at = "sent"].at = "sent"
      BY <1>2, <3>1
    <3> QED
      BY <1>3, <2>2, <3>1, <3>2
  <2>3. CASE s.part # Parts
    <3>1. After(s, a) = [s EXCEPT !.at = "send", !.part = s.part + 1, !.here = s.tg]
      BY <2>1, <2>3 DEF NextPart
    <3>2. s.part + 1 \in 1..Parts /\ "send" \in Calls
      BY <1>1, <2>3, NumbersAssumption DEF Calls
    <3>3. \A q \in 1..Parts :
            /\ [s EXCEPT !.at = "send", !.part = q, !.here = s.tg] \in Sending
            /\ [s EXCEPT !.at = "send", !.part = q, !.here = s.tg].job = s.job
            /\ [s EXCEPT !.at = "send", !.part = q, !.here = s.tg].at = "send"
            /\ [s EXCEPT !.at = "send", !.part = q, !.here = s.tg].part = q
      BY <1>1, <3>2 DEF Sending
    <3> QED
      BY <1>3, <3>1, <3>2, <3>3
  <2> QED
    BY <2>2, <2>3
<1>4. CASE a # "ok"
  <2>1. PICK at \in {"kicked", "migrate", "permanent", "forget", "plain", "retry"} :
          /\ After(s, a) = [s EXCEPT !.at = at]
          /\ at \in {"kicked", "permanent"} =>
               \/ a \in {"kicked", "not found", "malformed"}
               \/ a = "migrated" /\ s.at # "send"
    <3>1. CASE a = "kicked"
      BY <3>1 DEF After
    <3>6. CASE a \in {"not found", "malformed"}
      BY <3>6 DEF After
    <3>2. CASE a = "migrated" /\ s.at = "send"
      BY <3>2 DEF After, Migrated
    <3>3. CASE a = "migrated" /\ s.at # "send"
      BY <3>3 DEF After, Migrated
    <3>4. CASE a = "topic"
      BY <3>4 DEF After
    <3>5. CASE a = "emoji"
      BY <3>5 DEF After
    <3> QED
      BY <1>4, <3>1, <3>2, <3>3, <3>4, <3>5, <3>6 DEF AllAnswers
  <2>2. at \in Calls \cup Remedies \cup Done /\ at # "hook" /\ at # "sent"
    BY DEF Calls, Remedies, Done
  <2> QED
    BY <1>2, <1>4, <2>1, <2>2
<1> QED
  BY <1>3, <1>4

\* A call is over: what it put into the group is its part, once.
LEMMA CallGoesOn ==
  ASSUME IInv, NEW w \in Senders, sending[w].at \in Calls, NEW s \in Sending,
         sending' = [sending EXCEPT ![w] = s], s.job = sending[w].job, s.at # "hook",
         UNCHANGED outbox,
         \/ UNCHANGED arrived /\ s.part = sending[w].part /\ s.at # "sent"
         \/ /\ Lands(sending[w])
            /\ \/ s.at = "retry" /\ s.part = sending[w].part
               \/ s.at = "sent" /\ s.part = Parts /\ sending[w].part = Parts
               \/ s.at = "send" /\ s.part = sending[w].part + 1,
         refused \subseteq refused', refused' \subseteq DOMAIN outbox,
         overtaken \subseteq overtaken', overtaken' \subseteq DOMAIN outbox,
         s.at \in {"kicked", "permanent"} => s.job \in Blamed'
  PROVE  BooksOK'
<1> DEFINE q == sending[w].part
           n == outbox[s.job].attempts
<1>1. Holding(w) /\ sending[w].at \notin Done /\ Calls \cap Done = {} /\ "retry" \in Done
  BY DEF Holding, Done, Calls
<1>2. /\ s.job \in DOMAIN outbox /\ outbox[s.job].status = "sending" /\ s.job \in DOMAIN arrived
      /\ arrived[s.job] \in [1..Parts -> Nat] /\ n \in Nat /\ q \in 1..Parts /\ q \in Nat
  BY <1>1, InHand, NumbersAssumption
<1>3. arrived \in Seq([1..Parts -> Nat]) /\ Len(arrived) = Len(outbox)
  BY DEF IInv, BooksOK, SendersOK
<1>4. DOMAIN arrived = 1..Len(arrived)
  BY <1>3, Elements
<1>5. ASSUME NEW p \in 1..Parts
      PROVE  /\ arrived[s.job][p] \in Nat
             /\ p < q => arrived[s.job][p] >= 1
             /\ p >= q => arrived[s.job][p] <= n
             /\ arrived[s.job][p] <= n + 1
  <2>1. arrived[s.job][p] <= n + 1
    BY <1>2 DEF IInv, BooksOK, Counted
  <2>2. /\ p < q => arrived[s.job][p] >= 1
        /\ p >= q => arrived[s.job][p] <= n
    BY <1>1 DEF IInv, BooksOK, Landed
  <2> QED
    BY <1>2, <2>1, <2>2
<1>6. SameBooks
  BY DEF SameBooks, SameFlaws
<1>7. CASE UNCHANGED arrived /\ s.part = q /\ s.at # "sent"
  <2>1. \A p \in 1..Parts :
          /\ arrived'[s.job][p] >= arrived[s.job][p]
          /\ arrived'[s.job][p] <= n + 1
          /\ p < s.part \/ s.at = "sent" => arrived'[s.job][p] >= 1
          /\ p >= s.part /\ s.at \notin Done => arrived'[s.job][p] <= n
    BY <1>5, <1>7
  <2> QED
    BY <1>1, <1>3, <1>6, <1>7, <2>1, GoesOn
<1>8. CASE /\ Lands(sending[w])
           /\ \/ s.at = "retry" /\ s.part = q
              \/ s.at = "sent" /\ s.part = Parts /\ q = Parts
              \/ s.at = "send" /\ s.part = q + 1
  <2> DEFINE there == [arrived[s.job] EXCEPT ![q] = arrived[s.job][q] + 1]
  <2>1. arrived' = [arrived EXCEPT ![s.job] = there]
    BY <1>8 DEF Lands
  <2>2. there \in [1..Parts -> Nat]
    <3> DEFINE x == arrived[s.job][q]
    <3>1. x \in Nat
      BY <1>2
    <3> HIDE DEF x
    <3>3. x + 1 \in Nat
      BY <3>1
    <3>2. arrived[s.job][q] + 1 \in Nat
      BY <3>3 DEF x
    <3> QED
      BY <1>2, <3>2
  <2>3. \A p \in 1..Parts : there[p] = IF p = q THEN arrived[s.job][p] + 1 ELSE arrived[s.job][p]
    BY <1>2
  <2> HIDE DEF there
  <2>4. /\ arrived' \in Seq([1..Parts -> Nat]) /\ Len(arrived') = Len(arrived)
        /\ \A j \in 1..Len(arrived) : arrived'[j] = IF j = s.job THEN there ELSE arrived[j]
    BY <1>2, <1>3, <1>4, <2>1, <2>2, ExceptSeq
  <2>5. \A j \in DOMAIN outbox \ {s.job} : arrived'[j] = arrived[j]
    BY <1>3, <1>4, <2>4, RowTypes DEF IInv
  <2>6. ASSUME NEW p \in 1..Parts
        PROVE  /\ arrived'[s.job][p] >= arrived[s.job][p]
               /\ arrived'[s.job][p] <= n + 1
               /\ p < s.part \/ s.at = "sent" => arrived'[s.job][p] >= 1
               /\ p >= s.part /\ s.at \notin Done => arrived'[s.job][p] <= n
    <3> DEFINE x == arrived[s.job][p]
               y == arrived'[s.job][p]
    <3>1. y = IF p = q THEN x + 1 ELSE x
      BY <1>2, <1>4, <2>3, <2>4
    <3>2. x \in Nat /\ n \in Nat /\ q \in Nat /\ p \in Nat /\ p <= Parts /\ Parts \in Nat
      BY <1>2, <1>5, NumbersAssumption
    <3>3. (p < q => x >= 1) /\ (p >= q => x <= n) /\ x <= n + 1
      BY <1>5
    <3> HIDE DEF x, y, n, q
    <3>4. y >= x /\ y <= n + 1 /\ (p <= q => y >= 1) /\ (p > q => y <= n)
      BY <3>1, <3>2, <3>3
    <3>5. p < s.part \/ s.at = "sent" => p <= q
      BY <1>8, <3>2
    <3>6. p >= s.part /\ s.at \notin Done => p > q
      BY <1>8, <3>2 DEF Done
    <3> QED
      BY <3>4, <3>5, <3>6 DEF x, y, n, q
  <2> QED
    BY <1>1, <1>6, <2>4, <2>5, <2>6, GoesOn
<1> QED
  BY <1>7, <1>8

\* A call and its answer.
LEMMA SendMessageKeeps ==
  ASSUME IInv, NEW w \in Senders, SendMessage(w)
  PROVE  IInv'
<1>0. PICK a \in Ask(sending[w]) : Answered(w, a)
  BY DEF SendMessage
<1>1. /\ sending' = [sending EXCEPT ![w] = After(sending[w], a)]
      /\ IF a = "ok" THEN Lands(sending[w]) ELSE UNCHANGED arrived
      /\ refused' = IF a \in {"kicked", "not found"} THEN refused \cup {sending[w].job} ELSE refused
      /\ overtaken' = IF a = "migrated" /\ sending[w].at # "send"
                    THEN overtaken \cup {sending[w].job} ELSE overtaken
      /\ UNCHANGED <<telegram, updates, tables, handlers>>
  BY <1>0 DEF SendMessage, Answered
<1>2. sending[w].at \in Calls /\ Holding(w)
  BY DEF SendMessage, Holding, Calls
<1>3. sending[w] \in Sending /\ sending[w].job \in DOMAIN outbox
  BY <1>2, InHand
<1>4. a \in AllAnswers /\ (a = "malformed" => sending[w].job \in Flawed)
  BY <1>0, <1>3 DEF Ask, Answers, AllAnswers, Flawed
<1>5. /\ After(sending[w], a) \in Sending /\ After(sending[w], a).job = sending[w].job
      /\ After(sending[w], a).at # "hook"
      /\ a = "ok" =>
           \/ /\ After(sending[w], a).at = "sent" /\ After(sending[w], a).part = Parts
              /\ sending[w].part = Parts
           \/ /\ After(sending[w], a).at = "send"
              /\ After(sending[w], a).part = sending[w].part + 1
      /\ a # "ok" => After(sending[w], a).at # "sent" /\ After(sending[w], a).part = sending[w].part
      /\ After(sending[w], a).at \in {"kicked", "permanent"} =>
           \/ a \in {"kicked", "not found", "malformed"}
           \/ a = "migrated" /\ sending[w].at # "send"
  BY <1>2, <1>3, <1>4, AfterShape
<1>6. /\ refused \subseteq refused' /\ refused' \subseteq DOMAIN outbox
      /\ overtaken \subseteq overtaken' /\ overtaken' \subseteq DOMAIN outbox
      /\ After(sending[w], a).at \in {"kicked", "permanent"} => sending[w].job \in Blamed'
  <2>1. /\ refused \subseteq refused' /\ refused' \subseteq DOMAIN outbox
        /\ overtaken \subseteq overtaken' /\ overtaken' \subseteq DOMAIN outbox
    BY <1>1, <1>3 DEF IInv, BooksOK, SendersOK
  <2>2. Blamed \subseteq Blamed'
    BY <1>1, <2>1, BlameStays DEF SameFlaws, tables
  <2>3. a = "malformed" => sending[w].job \in Blamed
    BY <1>4 DEF Blamed
  <2> QED
    BY <1>1, <1>5, <2>1, <2>2, <2>3 DEF Blamed
<1>7. BooksOK'
  <2> DEFINE t == After(sending[w], a)
  <2>1. UNCHANGED outbox
    BY <1>1 DEF tables
  <2>2. \/ UNCHANGED arrived /\ t.part = sending[w].part /\ t.at # "sent"
        \/ /\ Lands(sending[w])
           /\ \/ t.at = "retry" /\ t.part = sending[w].part
              \/ t.at = "sent" /\ t.part = Parts /\ sending[w].part = Parts
              \/ t.at = "send" /\ t.part = sending[w].part + 1
    BY <1>1, <1>5
  <2>3. t \in Sending /\ t.job = sending[w].job /\ t.at # "hook"
    BY <1>5
  <2>4. sending' = [sending EXCEPT ![w] = t]
    BY <1>1
  <2>5. t.at \in {"kicked", "permanent"} => t.job \in Blamed'
    BY <1>6, <2>3
  <2> HIDE DEF t
  <2> QED
    BY <1>2, <1>6, <2>1, <2>2, <2>3, <2>4, <2>5, CallGoesOn
<1> QED
  BY <1>1, <1>7, TelegramKept, HandlersKept, TablesKept DEF IInv, handlers

\* A call without an answer, which may have arrived.
LEMMA SendTimesOutKeeps ==
  ASSUME IInv, NEW w \in Senders, SendTimesOut(w)
  PROVE  IInv'
<1> DEFINE s == [sending[w] EXCEPT !.at = "retry"]
<1>1. /\ sending[w].at \in Calls
      /\ UNCHANGED arrived \/ Lands(sending[w])
      /\ UNCHANGED <<telegram, updates, tables, handlers, refused, overtaken>>
  BY DEF SendTimesOut
<1>2. Holding(w)
  BY <1>1 DEF Holding, Calls
<1>3. sending[w] \in Sending
  BY <1>2, InHand
<1>4. s \in Sending /\ s.job = sending[w].job /\ s.part = sending[w].part /\ s.at = "retry"
  BY <1>3 DEF Sending
<1>5. sending' = [sending EXCEPT ![w] = s]
  BY <1>3 DEF SendTimesOut, Go, IInv, BooksOK, SendersOK
<1>6. UNCHANGED outbox /\ refused \subseteq DOMAIN outbox /\ overtaken \subseteq DOMAIN outbox
  BY <1>1 DEF tables, IInv, BooksOK, SendersOK
<1>7. BooksOK'
  <2> HIDE DEF s
  <2> QED
    BY <1>1, <1>4, <1>5, <1>6, CallGoesOn
<1> QED
  BY <1>1, <1>7, TelegramKept, HandlersKept, TablesKept DEF IInv, handlers

\* A worker lets its job go: what the tables of the job hold is settled before.
LEMMA LetsGo ==
  ASSUME IInv, NEW w \in Senders, NEW s \in {Idle} \cup Sending, s.at \in {"idle", "hook"},
         sending' = [sending EXCEPT ![w] = s],
         s # Idle => s.job \in DOMAIN outbox,
         UNCHANGED <<arrived, refused, overtaken>>,
         DOMAIN outbox' = DOMAIN outbox, Len(outbox') = Len(outbox), SameFlaws,
         \A j \in DOMAIN outbox :
           \/ Holding(w) /\ j = sending[w].job
           \/ outbox'[j].status = outbox[j].status /\ outbox'[j].attempts = outbox[j].attempts,
         Counted'
  PROVE  BooksOK'
<1>1. /\ sending' \in [Senders -> {Idle} \cup Sending]
      /\ \A v \in Senders \ {w} : sending'[v] = sending[v]
      /\ sending'[w] = s
  BY DEF IInv, BooksOK, SendersOK
<1>2. SendersOK'
  BY <1>1 DEF IInv, BooksOK, SendersOK
<1>3. ~Holding(w)' /\ \A v \in Senders \ {w} : Holding(v)' <=> Holding(v)
  BY <1>1 DEF Holding
<1>4. ASSUME NEW v \in Senders \ {w}, Holding(v)
      PROVE  /\ sending[v].job \in DOMAIN outbox
             /\ outbox'[sending[v].job].status = outbox[sending[v].job].status
             /\ outbox'[sending[v].job].attempts = outbox[sending[v].job].attempts
  <2>1. sending[v].job \in DOMAIN outbox /\ (Holding(w) => sending[v].job # sending[w].job)
    BY <1>4 DEF IInv, BooksOK, Held, Holding, Idle
  <2> QED
    BY <2>1
<1>0. Blamed \subseteq Blamed'
  BY BlameStays
<1>5. Held'
  <2>1. ASSUME NEW v \in Senders
        PROVE  /\ sending'[v] # Idle => sending'[v].job \in DOMAIN outbox'
               /\ Holding(v)' => outbox'[sending'[v].job].status = "sending"
               /\ sending'[v].at \in {"kicked", "permanent"} => sending'[v].job \in Blamed'
    <3>1. CASE v = w
      BY <1>1, <1>3, <3>1
    <3>2. CASE v # w
      BY <1>0, <1>1, <1>3, <1>4, <3>2 DEF IInv, BooksOK, Held
    <3> QED
      BY <3>1, <3>2
  <2>2. ASSUME NEW v \in Senders, NEW u \in Senders \ {v}, Holding(u)', Holding(v)'
        PROVE  sending'[u].job # sending'[v].job
    <3>1. u # w /\ v # w /\ Holding(u) /\ Holding(v)
      BY <1>3, <2>2
    <3> QED
      BY <1>1, <3>1 DEF IInv, BooksOK, Held
  <2> QED
    BY <2>1, <2>2 DEF Held
<1>6. Landed'
  <2> SUFFICES ASSUME NEW v \in Senders, Holding(v)', NEW p \in 1..Parts
               PROVE  /\ p < sending'[v].part \/ sending'[v].at = "sent" =>
                           arrived'[sending'[v].job][p] >= 1
                      /\ p >= sending'[v].part /\ sending'[v].at \notin Done =>
                           arrived'[sending'[v].job][p] <= outbox'[sending'[v].job].attempts
    BY DEF Landed
  <2>1. v # w /\ Holding(v) /\ sending'[v] = sending[v]
    BY <1>1, <1>3
  <2> QED
    BY <1>4, <2>1 DEF IInv, BooksOK, Landed
<1> QED
  BY <1>2, <1>5, <1>6 DEF BooksOK

\* The outcome of a try: whole if sent, for a cause if given up.
LEMMA RecordKeeps ==
  ASSUME IInv, NEW w \in Senders, Record(w)
  PROVE  IInv'
<1> DEFINE j == sending[w].job
           at == sending[w].at
           n == outbox[j].attempts + 1
           status == CASE at = "sent" -> "sent"
                       [] at \in {"permanent", "kicked"} \/ (at = "retry" /\ n >= MaxAttempts)
                            -> "failed"
                       [] OTHER -> "pending"
           row == [outbox[j] EXCEPT !.attempts = n, !.status = status]
<1>1. /\ at \in {"sent", "retry", "permanent", "kicked"}
      /\ outbox' = [outbox EXCEPT ![j] = row]
      /\ IF at = "kicked" THEN Go(w, "hook") ELSE sending' = [sending EXCEPT ![w] = Idle]
      /\ UNCHANGED <<telegram, updates, chats, managers, seen, integs, lastRow,
                     handlers, arrived, refused, overtaken>>
  BY DEF Record
<1>2. at \in Done /\ Holding(w)
  BY <1>1 DEF Holding, Done
<1>3. /\ sending[w] \in Sending /\ j \in DOMAIN outbox /\ outbox[j] \in JobRow
      /\ outbox[j].status = "sending" /\ outbox[j].attempts \in Nat
      /\ arrived[j] \in [1..Parts -> Nat]
  BY <1>2, InHand, NumbersAssumption
<1>4. outbox[j].attempts < MaxAttempts
  BY <1>3 DEF IInv, BooksOK, Counted
<1>5. n \in Nat /\ n \in 0..MaxAttempts
  <2>1. outbox[j].attempts \in Nat /\ MaxAttempts \in Nat
    BY <1>3, NumbersAssumption
  <2> QED
    BY <2>1, <1>4
<1>6. /\ status = "sent" => at = "sent"
      /\ status = "failed" => at = "permanent" \/ at = "kicked" \/ n >= MaxAttempts
      /\ status = "pending" => at = "retry" /\ ~(n >= MaxAttempts)
      /\ status \in {"sent", "failed", "pending"}
  <2>1. CASE at = "sent"
    BY <2>1
  <2>2. CASE at \in {"permanent", "kicked"}
    BY <2>2
  <2>3. CASE at = "retry" /\ n >= MaxAttempts
    BY <2>3
  <2>4. CASE at = "retry" /\ ~(n >= MaxAttempts)
    BY <2>4
  <2> QED
    BY <1>1, <2>1, <2>2, <2>3, <2>4
<1>7. /\ row \in JobRow /\ row.chat = outbox[j].chat /\ row.integ = outbox[j].integ
      /\ row.attempts = n /\ row.status = status /\ row.flaws = outbox[j].flaws
  <2> HIDE DEF n, status
  <2> QED
    BY <1>3, <1>5, <1>6 DEF JobRow
<1>8. /\ DOMAIN outbox' = DOMAIN outbox /\ Len(outbox') = Len(outbox) /\ outbox'[j] = row
      /\ \A i \in DOMAIN outbox \ {j} : outbox'[i] = outbox[i]
      /\ TablesOK'
  <2> HIDE DEF row
  <2> QED
    BY <1>1, <1>3, <1>7, JobChanges DEF IInv, handlers
<1>0. SameFlaws /\ Blamed \subseteq Blamed'
  <2>1. SameFlaws
    BY <1>7, <1>8 DEF SameFlaws
  <2> QED
    BY <1>1, <2>1, BlameStays
<1>9. Counted'
  <2> SUFFICES ASSUME NEW i \in DOMAIN outbox
               PROVE  /\ outbox'[i].status \in {"pending", "sending"} =>
                           outbox'[i].attempts < MaxAttempts
                      /\ outbox'[i].status = "failed" =>
                           i \in Blamed' \/ outbox'[i].attempts >= MaxAttempts
                      /\ \A p \in 1..Parts :
                           /\ outbox'[i].status = "sent" => arrived'[i][p] >= 1
                           /\ arrived'[i][p] <= outbox'[i].attempts
                                                  + IF outbox'[i].status = "sending" THEN 1 ELSE 0
    BY <1>8 DEF Counted
  <2>1. CASE i # j
    BY <1>0, <1>1, <1>8, <2>1 DEF IInv, BooksOK, Counted
  <2>2. CASE i = j
    <3>1. outbox'[i].status = status /\ outbox'[i].attempts = n /\ arrived' = arrived
      BY <1>1, <1>7, <1>8, <2>2
    <3>2. at \in {"kicked", "permanent"} => j \in Blamed
      BY DEF IInv, BooksOK, Held
    <3>3. ASSUME NEW p \in 1..Parts
          PROVE  /\ arrived[j][p] <= n + 0
                 /\ status = "sent" => arrived[j][p] >= 1
      <4>1. arrived[j][p] <= outbox[j].attempts + 1
        BY <1>3 DEF IInv, BooksOK, Counted
      <4>2. at = "sent" => arrived[j][p] >= 1
        BY <1>2 DEF IInv, BooksOK, Landed
      <4>3. n + 0 = n
        BY <1>5
      <4> HIDE DEF status
      <4> QED
        BY <1>6, <4>1, <4>2, <4>3
    <3>4. status \in {"pending", "sending"} => n < MaxAttempts
      <4> HIDE DEF n, status
      <4> QED
        BY <1>5, <1>6, NumbersAssumption
    <3>5. status = "failed" => j \in Blamed \/ n >= MaxAttempts
      <4> HIDE DEF n, status
      <4> QED
        BY <1>6, <3>2
    <3> HIDE DEF n, status
    <3> QED
      BY <1>0, <1>1, <1>6, <2>2, <3>1, <3>3, <3>4, <3>5
  <2> QED
    BY <2>1, <2>2
<1>10. BooksOK'
  <2>1. \A i \in DOMAIN outbox :
          \/ Holding(w) /\ i = sending[w].job
          \/ outbox'[i].status = outbox[i].status /\ outbox'[i].attempts = outbox[i].attempts
    BY <1>2, <1>8
  <2>2. UNCHANGED <<arrived, refused, overtaken>>
    BY <1>1
  <2>3. CASE at = "kicked"
    <3> DEFINE s == [sending[w] EXCEPT !.at = "hook"]
    <3>1. s \in {Idle} \cup Sending /\ s.at = "hook" /\ s.job = j
      BY <1>3 DEF Sending
    <3>2. sending' = [sending EXCEPT ![w] = s]
      BY <1>1, <1>3, <2>3 DEF Go, IInv, BooksOK, SendersOK
    <3> HIDE DEF s
    <3> QED
      BY <1>0, <1>3, <1>8, <1>9, <2>1, <2>2, <3>1, <3>2, LetsGo
  <2>4. CASE at # "kicked"
    <3>1. sending' = [sending EXCEPT ![w] = Idle]
      BY <1>1, <2>4
    <3>2. Idle.at = "idle"
      BY DEF Idle
    <3> QED
      BY <1>0, <1>8, <1>9, <2>1, <2>2, <3>1, <3>2, LetsGo
  <2> QED
    BY <2>3, <2>4
<1> QED
  BY <1>1, <1>8, <1>10, TelegramKept, HandlersKept DEF IInv, handlers

\* Marking the integration of a job that met a 403.
LEMMA MarkIntegrationBrokenKeeps ==
  ASSUME IInv, NEW w \in Senders, MarkIntegrationBroken(w)
  PROVE  IInv'
<1> DEFINE i == outbox[sending[w].job].integ
<1>1. /\ integs' = IF i \in Connected THEN [integs EXCEPT ![i].broken = TRUE] ELSE integs
      /\ sending' = [sending EXCEPT ![w] = Idle]
      /\ UNCHANGED <<telegram, updates, chats, managers, seen, outbox, lastRow,
                     handlers, arrived, refused, overtaken>>
  BY DEF MarkIntegrationBroken
<1> HIDE DEF i
<1>2. ASSUME NEW k \in DOMAIN integs
      PROVE  \E b \in BOOLEAN : integs'[k] = [integs[k] EXCEPT !.broken = b]
  <2>1. integs[k] \in IntegRow
    BY RowTypes DEF IInv
  <2>2. integs[k].broken \in BOOLEAN /\ [integs[k] EXCEPT !.broken = integs[k].broken] = integs[k]
    BY <2>1 DEF IntegRow
  <2>3. integs'[k] = [integs[k] EXCEPT !.broken = TRUE] \/ integs'[k] = integs[k]
    BY <1>1
  <2> QED
    BY <2>2, <2>3
<1>3. integs' = [k \in DOMAIN integs |-> integs'[k]]
  <2>1. integs \in Seq(IntegRow)
    BY DEF IInv, TablesOK, IntegsOK
  <2>2. integs = [k \in DOMAIN integs |-> integs[k]]
    BY <2>1, LenProperties
  <2> QED
    BY <1>1, <2>2
<1>4. TablesOK'
  BY <1>1, <1>2, <1>3, MarkingKeeps DEF IInv, handlers
<1>5. Counted'
  BY <1>1 DEF IInv, BooksOK, Counted, Blamed, Flawed
<1>6. Idle.at = "idle"
  BY DEF Idle
<1>7. BooksOK'
  BY <1>1, <1>5, <1>6, LetsGo DEF SameFlaws
<1> QED
  BY <1>1, <1>4, <1>7, TelegramKept, HandlersKept DEF IInv, handlers

-----------------------------------------------------------------------------
(***************************************************************************)
(* Every step.                                                             *)
(***************************************************************************)
\* The invariant is inductive.
LEMMA NextKeeps == IInv /\ [Next]_vars => IInv'
<1> SUFFICES ASSUME IInv, [Next]_vars PROVE IInv'
  OBVIOUS
<1>1. CASE UNCHANGED vars
  <2>1. UNCHANGED <<telegram, updates, tables, handlers, senders>> /\ UNCHANGED outbox
    BY <1>1 DEF vars, tables
  <2> QED
    BY <2>1, TelegramKept, HandlersKept, TablesKept, BooksUntouched DEF IInv, handlers
<1>2. CASE Webhook
  BY <1>2, WebhookKeeps DEF Webhook
<1>3. CASE Faulty
  BY <1>3, SendTimesOutKeeps, RemedyFailsKeeps DEF Faulty
<1>4. ASSUME NEW w \in Senders, Worker(w) PROVE IInv'
  BY <1>4, SendMessageKeeps, OnMigratedKeeps, ForgetClearedTopicKeeps, ClearTopicKeeps,
     RecordKeeps, MarkIntegrationBrokenKeeps, ClaimKeeps DEF Worker, Deliver
<1> QED
  BY <1>1, <1>2, <1>3, <1>4, TelegramKeeps, HandlerKeeps, AdministratorKeeps DEF Next

-----------------------------------------------------------------------------
(***************************************************************************)
(* Following an upgrade.                                                   *)
(***************************************************************************)

\* Nothing else gives a row the new id.
LEMMA OnlyMigrates ==
  ASSUME IInv, Next, Followed
  PROVE  MigrateChat
<1>1. PICK c \in DOMAIN chats : c \in DOMAIN chats' /\ chats[c].tg = "old" /\ chats'[c].tg = "new"
  BY DEF Followed
<1>2. chats[c] \in ChatRow /\ chats'[c] # chats[c]
  BY <1>1, RowTypes DEF IInv
<1>3. chats' # chats
  BY <1>2
<1>4. ~Telegram /\ ~Webhook /\ ~Faulty
  BY <1>3 DEF Telegram, Upgrade, Move, ChangeTopic, Webhook, IntegrationsForRepo,
     Faulty, SendTimesOut, RemedyFails, tables
<1>5. CASE Handler
  <2>1. ASSUME NEW u \in updates, HandleRemoved(u) PROVE FALSE
    BY <1>1, <1>2, <1>3, <2>1 DEF HandleRemoved, DeleteRow, tables
  <2>2. ASSUME NEW u \in updates, UpsertChat(u) PROVE FALSE
    <3>1. lastRow + 1 \notin DOMAIN chats
      BY NumbersAssumption DEF IInv, TablesOK, ChatsOK
    <3> QED
      BY <1>1, <1>2, <1>3, <2>2, <3>1 DEF UpsertChat
  <2>3. ASSUME NEW u \in updates, RecordTopic(u) PROVE FALSE
    BY <1>3, <2>3 DEF RecordTopic
  <2>4. ASSUME NEW h \in greeting, AddChatManager(h) \/ ClearChatIntegrationsBroken(h) PROVE FALSE
    BY <1>3, <2>4 DEF AddChatManager, ClearChatIntegrationsBroken
  <2>5. ASSUME NEW k \in connecting, CreateIntegration(k) PROVE FALSE
    BY <1>3, <2>5 DEF CreateIntegration
  <2>6. ASSUME NEW l \in loaded, Enqueue(l) PROVE FALSE
    BY <1>3, <2>6 DEF Enqueue
  <2> QED
    BY <1>5, <2>1, <2>2, <2>3, <2>4, <2>5, <2>6 DEF Handler, HandleChatMigrated
<1>6. CASE Administrator
  <2>1. ASSUME NEW tg, NEW t, SetChatTopic(tg, t) PROVE FALSE
    <3>1. chats' = [chats EXCEPT ![RowOf(tg)].topic = t]
      BY <2>1 DEF SetChatTopic
    <3>2. chats'[c].tg = chats[c].tg
      BY <1>2, <3>1 DEF ChatRow
    <3> QED
      BY <1>1, <3>2
  <2>2. ASSUME NEW d, NEW p, StartConnect(d, p) PROVE FALSE
    BY <1>3, <2>2 DEF StartConnect, tables
  <2>3. ASSUME NEW i, Disconnect(i) PROVE FALSE
    BY <1>3, <2>3 DEF Disconnect
  <2> QED
    BY <1>6, <2>1, <2>2, <2>3 DEF Administrator, ChecksAdmins, ChoosesTopic
<1>7. ASSUME NEW w \in Senders, Worker(w) PROVE MigrateChat
  <2>1. ~ClearTopic(w)
    <3> SUFFICES ASSUME ClearTopic(w) PROVE FALSE
      OBVIOUS
    <3>1. PICK d : chats' = [chats EXCEPT ![d].topic = General]
      BY <1>3 DEF ClearTopic
    <3>2. chats'[c].tg = chats[c].tg
      BY <1>2, <3>1 DEF ChatRow
    <3> QED
      BY <1>1, <3>2
  <2>2. ~SendMessage(w) /\ ~ForgetClearedTopic(w) /\ ~Record(w) /\ ~MarkIntegrationBroken(w)
    BY <1>3 DEF SendMessage, ForgetClearedTopic, Record, MarkIntegrationBroken, tables
  <2>3. \A j \in DOMAIN outbox : ~Claim(w, j)
    BY <1>3 DEF Claim
  <2> QED
    BY <1>7, <2>1, <2>2, <2>3 DEF Worker, Deliver, OnMigrated
<1> QED
  BY <1>4, <1>5, <1>6, <1>7 DEF Next

\* What following an upgrade keeps.
Kept ==
  /\ {integs[i].repo : i \in Connected} \subseteq {integs[i].repo : i \in Connected}'
  /\ {m[2] : m \in managers} \subseteq {m[2] : m \in managers}'
  /\ {s[2] : s \in seen} \subseteq {s[2] : s \in seen}'
  /\ \A i, k \in Connected' : integs'[i].repo = integs'[k].repo => i = k
  /\ \A j \in DOMAIN outbox : outbox[j].chat # Gone /\ outbox'[j].chat = Gone =>
       \E k \in Connected \ {outbox[j].integ} :
         integs[k].repo = integs[outbox[j].integ].repo

\* There are no other rows than those of the two ids, so an integration is in
\* one or the other.
LEMMA MigrationLosesNothing ==
  ASSUME IInv, MigrateChat, Followed
  PROVE  Kept
<1>1. PICK c \in DOMAIN chats : c \in DOMAIN chats' /\ chats[c].tg = "old" /\ chats'[c].tg = "new"
  BY DEF Followed
<1>2. HasRow("old") /\ \A d \in DOMAIN chats : chats[d].tg = "old" => d = c
  BY <1>1 DEF HasRow, IInv, TablesOK, ChatsOK
<1>3. RowOf("old") = c
  BY <1>2, RowOfId
<1>4. \A d \in DOMAIN chats : chats[d].tg \in {"old", "new"}
  BY RowTypes DEF IInv, ChatRow, Ids
<1>5. \A i \in Connected : integs[i].chat \in DOMAIN chats
  BY DEF IInv, TablesOK, IntegsOK
<1>6. \A i, k \in Connected :
        integs[i].chat = integs[k].chat /\ integs[i].repo = integs[k].repo => i = k
  BY DEF IInv, TablesOK, IntegsOK
<1>7. CASE ~HasRow("new")
  <2>1. UNCHANGED <<managers, seen, integs, outbox>>
    BY <1>2, <1>7 DEF MigrateChat
  <2>2. \A i \in Connected : integs[i].chat = c
    BY <1>2, <1>4, <1>5, <1>7 DEF HasRow
  <2>3. Connected' = Connected
    BY <2>1 DEF Connected
  <2> QED
    BY <1>6, <2>1, <2>2, <2>3 DEF Kept
<1>8. CASE HasRow("new")
  <2> DEFINE n == RowOf("new")
  <2>1. n \in DOMAIN chats /\ chats[n].tg = "new" /\ n # c
    BY <1>1, <1>8, RowOfId
  <2>2. \A d \in DOMAIN chats : d = c \/ d = n
    BY <1>2, <1>4, <2>1 DEF IInv, TablesOK, ChatsOK
  <2>3. Fold(c, n)
    BY <1>2, <1>3, <1>8 DEF MigrateChat
  <2> HIDE DEF n
  <2>4. /\ DOMAIN integs' = DOMAIN integs
        /\ \A i \in DOMAIN integs :
             /\ integs'[i].repo = integs[i].repo
             /\ integs'[i].chat = IF integs[i].chat # n THEN integs[i].chat
                                  ELSE IF Moves(i, c, n) THEN c ELSE Gone
        /\ Connected' = {i \in Connected : integs[i].chat = n => Moves(i, c, n)}
        /\ \A j \in DOMAIN outbox :
             outbox'[j].chat = IF outbox[j].integ \in {i \in InRow(n) : ~Moves(i, c, n)} THEN Gone
                               ELSE QueueMoves(outbox[j].chat, c, n)
    BY <2>1, <2>3, FoldShape DEF IInv
  <2>5. Connected \subseteq DOMAIN integs /\ c # Gone /\ n # Gone
    BY <2>1, RowTypes DEF Connected, IInv
  <2>6. ASSUME NEW i \in Connected
        PROVE  \E k \in Connected' : integs'[k].repo = integs[i].repo
    <3>1. CASE integs[i].chat = n => Moves(i, c, n)
      BY <2>4, <2>5, <3>1
    <3>2. CASE integs[i].chat = n /\ ~Moves(i, c, n)
      <4>1. PICK k \in InRow(c) : integs[k].repo = integs[i].repo
        BY <3>2 DEF Moves
      <4>2. k \in Connected /\ integs[k].chat # n
        BY <2>1 DEF InRow
      <4> QED
        BY <2>4, <2>5, <4>1, <4>2
    <3> QED
      BY <3>1, <3>2
  <2>7. {integs[i].repo : i \in Connected} \subseteq {integs'[i].repo : i \in Connected'}
    BY <2>6
  <2>8. {m[2] : m \in managers} \subseteq {m[2] : m \in managers'}
    <3>1. managers' = {<<IF m[1] = n THEN c ELSE m[1], m[2]>> : m \in managers}
      BY <2>3 DEF Fold
    <3>2. ASSUME NEW x \in managers PROVE \E y \in managers' : y[2] = x[2]
      <4>1. <<IF x[1] = n THEN c ELSE x[1], x[2]>> \in managers'
        BY <3>1
      <4> QED
        BY <4>1
    <3> QED
      BY <3>2
  <2>9. {s[2] : s \in seen} \subseteq {s[2] : s \in seen'}
    <3>1. seen' = {<<IF s[1] = n THEN c ELSE s[1], s[2]>> : s \in seen}
      BY <2>3 DEF Fold
    <3>2. ASSUME NEW x \in seen PROVE \E y \in seen' : y[2] = x[2]
      <4>1. <<IF x[1] = n THEN c ELSE x[1], x[2]>> \in seen'
        BY <3>1
      <4> QED
        BY <4>1
    <3> QED
      BY <3>2
  <2>10. ASSUME NEW i \in Connected', NEW k \in Connected', integs'[i].repo = integs'[k].repo
         PROVE  i = k
    <3>1. /\ i \in Connected /\ (integs[i].chat = n => Moves(i, c, n))
          /\ k \in Connected /\ (integs[k].chat = n => Moves(k, c, n))
      BY <2>4
    <3>2. integs[i].repo = integs[k].repo
      BY <2>4, <2>5, <2>10, <3>1
    <3>3. integs[i].chat \in {c, n} /\ integs[k].chat \in {c, n}
      BY <1>5, <2>2, <3>1
    <3>4. integs[i].chat = integs[k].chat
      BY <3>1, <3>2, <3>3 DEF Moves, InRow
    <3> QED
      BY <1>6, <3>1, <3>2, <3>4
  <2>11. ASSUME NEW j \in DOMAIN outbox, outbox[j].chat # Gone, outbox'[j].chat = Gone
         PROVE  \E k \in Connected \ {outbox[j].integ} :
                  integs[k].repo = integs[outbox[j].integ].repo
    <3>1. outbox[j].integ \in InRow(n) /\ ~Moves(outbox[j].integ, c, n)
      BY <2>4, <2>5, <2>11 DEF QueueMoves
    <3>2. PICK k \in InRow(c) : integs[k].repo = integs[outbox[j].integ].repo
      BY <3>1 DEF Moves, InRow
    <3>3. k \in Connected /\ k # outbox[j].integ
      BY <2>1, <3>1 DEF InRow
    <3> QED
      BY <3>2, <3>3
  <2> QED
    BY <2>7, <2>8, <2>9, <2>10, <2>11 DEF Kept
<1> QED
  BY <1>7, <1>8

-----------------------------------------------------------------------------
(***************************************************************************)
(* The theorems.                                                           *)
(***************************************************************************)

\* The inductive invariant holds throughout.
THEOREM Invariance == Spec => []IInv
BY InitHolds, NextKeeps, PTL DEF Spec

\* Every variable stays within its type, the foreign keys of the tables hold
\* and no two rows have the same id, whatever is folded or deleted under the
\* handlers and workers that still refer to it.
THEOREM TypeCorrect == Spec => []TypeOK
BY PartsGiveTypeOK, Invariance, PTL

\* A queued job and the integration it reports for are in the same chat, also
\* when the chat was folded into another between reading and queueing.
THEOREM JobsStayWhereConnected == Spec => []QueuedWhereConnected
<1>1. IInv => QueuedWhereConnected
  BY DEF IInv, TablesOK, JobsOK, QueuedWhereConnected
<1> QED
  BY <1>1, Invariance, PTL

\* No event is given up but for a payload that cannot be rendered or parsed,
\* because the bot is not in the chat, after the last try, or where the upgrade
\* came between a first call and its remedy.
THEOREM NothingIsGivenUpIdly == Spec => []GivenUpForCause
<1>1. IInv => GivenUpForCause
  BY DEF IInv, BooksOK, Counted, GivenUpForCause
<1> QED
  BY <1>1, Invariance, PTL

\* What is recorded as sent has arrived whole, and no try puts a part into the
\* group twice, through whichever remedies it goes.
THEOREM PartsArriveWholeAndOncePerTry == Spec => []WholeAndOncePerTry
<1>1. IInv => WholeAndOncePerTry
  BY DEF IInv, BooksOK, Counted, WholeAndOncePerTry
<1> QED
  BY <1>1, Invariance, PTL

\* Following an upgrade keeps the group's repositories, managers and topics,
\* connects none of them twice, and costs only what the dropped duplicate of
\* another integration had queued.
THEOREM FollowingKeeps == Spec => MigrationKeeps
<1>1. IInv /\ [Next]_vars => [Followed => Kept]_vars
  BY OnlyMigrates, MigrationLosesNothing
<1> QED
  BY <1>1, Invariance, PTL DEF Spec, MigrationKeeps, Kept

=============================================================================
