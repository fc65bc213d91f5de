---------------------------- MODULE ServiceProof ----------------------------
(***************************************************************************)
(* ServiceInv is an invariant of Service for every value of its constants, *)
(* and what follows from it for the database and for the queue.            *)
(***************************************************************************)
EXTENDS Service, SequenceTheorems, TLAPS

-----------------------------------------------------------------------------
(* The queue as a sequence: what removing, inserting and appending do.     *)

\* The sequence without its i-th element.
LEMMA RemovedElements ==
  ASSUME NEW S, NEW q \in Seq(S), NEW i \in 1..Len(q)
  PROVE  /\ RemoveAt(q, i) \in Seq(S)
         /\ Len(RemoveAt(q, i)) = Len(q) - 1
         /\ \A j \in 1..(Len(q) - 1) : RemoveAt(q, i)[j] = IF j < i THEN q[j] ELSE q[j + 1]
<1>1. /\ SubSeq(q, 1, i - 1) \in Seq(S) /\ SubSeq(q, i + 1, Len(q)) \in Seq(S)
      /\ Len(SubSeq(q, 1, i - 1)) = i - 1
      /\ Len(SubSeq(q, i + 1, Len(q))) = Len(q) - i
      /\ \A j \in 1..(i - 1) : SubSeq(q, 1, i - 1)[j] = q[j]
      /\ \A j \in 1..(Len(q) - i) : SubSeq(q, i + 1, Len(q))[j] = q[i + j]
  OBVIOUS
<1>. DEFINE a == SubSeq(q, 1, i - 1)
            b == SubSeq(q, i + 1, Len(q))
<1>2. RemoveAt(q, i) = a \o b
  BY DEF RemoveAt
<1>3. /\ a \in Seq(S) /\ Len(a) = i - 1
      /\ \A j \in 1..(i - 1) : a[j] = q[j]
      /\ b \in Seq(S) /\ Len(b) = Len(q) - i
      /\ \A j \in 1..(Len(q) - i) : b[j] = q[i + j]
  BY <1>1
<1>. HIDE DEF a, b
<1>4. a \o b \in Seq(S) /\ Len(a \o b) = Len(q) - 1
  <2>1. a \o b \in Seq(S) /\ Len(a \o b) = Len(a) + Len(b)
    BY <1>3, ConcatProperties
  <2>. QED BY <1>3, <2>1
<1>5. ASSUME NEW j \in 1..(Len(q) - 1)
      PROVE  (a \o b)[j] = IF j < i THEN q[j] ELSE q[j + 1]
  <2>1. (a \o b)[j] = IF j <= i - 1 THEN a[j] ELSE b[j - (i - 1)]
    BY <1>3
  <2>. QED BY <1>3, <2>1
<1>. QED BY <1>2, <1>4, <1>5

\* The sequence with e put before its k-th element.
LEMMA InsertedElements ==
  ASSUME NEW S, NEW q \in Seq(S), NEW e \in S, NEW k \in 1..(Len(q) + 1)
  PROVE  /\ InsertAt(q, k, e) \in Seq(S)
         /\ Len(InsertAt(q, k, e)) = Len(q) + 1
         /\ \A j \in 1..(k - 1) : InsertAt(q, k, e)[j] = q[j]
         /\ InsertAt(q, k, e)[k] = e
         /\ \A j \in (k + 1)..(Len(q) + 1) : InsertAt(q, k, e)[j] = q[j - 1]
<1>1. /\ SubSeq(q, 1, k - 1) \in Seq(S) /\ SubSeq(q, k, Len(q)) \in Seq(S)
      /\ Len(SubSeq(q, 1, k - 1)) = k - 1
      /\ Len(SubSeq(q, k, Len(q))) = Len(q) - k + 1
      /\ \A j \in 1..(k - 1) : SubSeq(q, 1, k - 1)[j] = q[j]
      /\ \A j \in 1..(Len(q) - k + 1) : SubSeq(q, k, Len(q))[j] = q[k + j - 1]
  OBVIOUS
<1>. DEFINE a == SubSeq(q, 1, k - 1)
            b == <<e>>
            c == SubSeq(q, k, Len(q))
<1>2. InsertAt(q, k, e) = (a \o b) \o c
  BY DEF InsertAt
<1>3. /\ a \in Seq(S) /\ Len(a) = k - 1
      /\ \A j \in 1..(k - 1) : a[j] = q[j]
      /\ b \in Seq(S) /\ Len(b) = 1 /\ b[1] = e
      /\ c \in Seq(S) /\ Len(c) = Len(q) - k + 1
      /\ \A j \in 1..(Len(q) - k + 1) : c[j] = q[k + j - 1]
  BY <1>1
<1>n. Len(q) \in Nat /\ k \in Nat /\ k >= 1 /\ k <= Len(q) + 1
  OBVIOUS
<1>. HIDE DEF a, b, c
<1>. DEFINE ab == a \o b
            d == ab \o c
<1>4. /\ ab \in Seq(S) /\ Len(ab) = k
      /\ \A j \in 1..k : ab[j] = IF j <= k - 1 THEN a[j] ELSE b[j - (k - 1)]
  <2>1. /\ ab \in Seq(S) /\ Len(ab) = Len(a) + Len(b)
        /\ \A j \in 1..(Len(a) + Len(b)) :
             ab[j] = IF j <= Len(a) THEN a[j] ELSE b[j - Len(a)]
    <3>. a \in Seq(S) /\ b \in Seq(S) BY <1>3
    <3>. QED BY ConcatProperties, Zenon
  <2>2. Len(a) = k - 1 /\ Len(a) + Len(b) = k BY <1>3, <1>n
  <2>. HIDE DEF ab
  <2>. QED BY <2>1, <2>2
<1>. HIDE DEF ab
<1>5. /\ d \in Seq(S) /\ Len(d) = Len(q) + 1
      /\ \A j \in 1..(Len(q) + 1) : d[j] = IF j <= k THEN ab[j] ELSE c[j - k]
  <2>1. /\ d \in Seq(S) /\ Len(d) = Len(ab) + Len(c)
        /\ \A j \in 1..(Len(ab) + Len(c)) :
             d[j] = IF j <= Len(ab) THEN ab[j] ELSE c[j - Len(ab)]
    <3>. ab \in Seq(S) /\ c \in Seq(S) BY <1>3, <1>4
    <3>. QED BY ConcatProperties, Zenon
  <2>2. Len(ab) = k /\ Len(ab) + Len(c) = Len(q) + 1 BY <1>3, <1>4, <1>n
  <2>. HIDE DEF d
  <2>. QED BY <2>1, <2>2
<1>6. InsertAt(q, k, e) = d
  BY <1>2 DEF ab
<1>. HIDE DEF d
<1>7. \A j \in 1..(k - 1) : d[j] = q[j]
  <2>. SUFFICES ASSUME NEW j \in 1..(k - 1) PROVE d[j] = q[j]
    OBVIOUS
  <2>1. d[j] = ab[j] /\ ab[j] = a[j] BY <1>4, <1>5, <1>n
  <2>. QED BY <1>3, <2>1
<1>8. d[k] = e
  <2>1. d[k] = ab[k] /\ ab[k] = b[1] BY <1>4, <1>5, <1>n
  <2>. QED BY <1>3, <2>1
<1>9. \A j \in (k + 1)..(Len(q) + 1) : d[j] = q[j - 1]
  <2>. SUFFICES ASSUME NEW j \in (k + 1)..(Len(q) + 1) PROVE d[j] = q[j - 1]
    OBVIOUS
  <2>1. d[j] = c[j - k] BY <1>5, <1>n
  <2>2. j - k \in 1..(Len(q) - k + 1) /\ k + (j - k) - 1 = j - 1 BY <1>n
  <2>. QED BY <1>3, <2>1, <2>2
<1>. QED BY <1>5, <1>6, <1>7, <1>8, <1>9

\* Removal from a queue without duplicates takes its element, and no other.
LEMMA RemovalTakesOne ==
  ASSUME NEW S, NEW q \in Seq(S), NEW i \in 1..Len(q), IsInjective(q)
  PROVE  /\ IsInjective(RemoveAt(q, i))
         /\ ToSet(RemoveAt(q, i)) = ToSet(q) \ {q[i]}
<1>. DEFINE r == RemoveAt(q, i)
<1>0. /\ r \in Seq(S) /\ Len(r) = Len(q) - 1
      /\ \A j \in 1..(Len(q) - 1) : r[j] = IF j < i THEN q[j] ELSE q[j + 1]
  BY RemovedElements, Zenon
<1>. HIDE DEF r
<1>1. /\ r \in Seq(S) /\ Len(r) = Len(q) - 1
      /\ DOMAIN r = 1..(Len(q) - 1) /\ DOMAIN q = 1..Len(q)
      /\ \A j \in 1..(Len(q) - 1) : r[j] = IF j < i THEN q[j] ELSE q[j + 1]
  BY <1>0
<1>. DEFINE from(x) == IF x < i THEN x ELSE x + 1
<1>i. \A m, n \in 1..Len(q) : q[m] = q[n] => m = n
  BY <1>1 DEF IsInjective
<1>f. ASSUME NEW x \in 1..(Len(q) - 1)
      PROVE  from(x) \in 1..Len(q) /\ from(x) # i /\ r[x] = q[from(x)]
  <2>1. r[x] = IF x < i THEN q[x] ELSE q[x + 1] BY <1>1
  <2>. QED BY <2>1
<1>2. IsInjective(r)
  <2>. SUFFICES ASSUME NEW x \in 1..(Len(q) - 1), NEW y \in 1..(Len(q) - 1), r[x] = r[y]
                PROVE  x = y
    BY <1>1 DEF IsInjective
  <2>1. from(x) = from(y)
    <3>. HIDE DEF from
    <3>. QED BY <1>i, <1>f
  <2>. QED BY <2>1
<1>3. ToSet(r) \subseteq ToSet(q) \ {q[i]}
  <2>. SUFFICES ASSUME NEW x \in 1..(Len(q) - 1) PROVE r[x] \in ToSet(q) \ {q[i]}
    BY <1>1 DEF ToSet
  <2>. HIDE DEF from
  <2>1. from(x) \in 1..Len(q) /\ r[x] = q[from(x)] /\ from(x) # i BY <1>f
  <2>2. q[from(x)] # q[i] BY <1>i, <2>1
  <2>. QED BY <1>1, <2>1, <2>2 DEF ToSet
<1>. HIDE DEF from
<1>4. ASSUME NEW j \in 1..Len(q), q[j] # q[i] PROVE q[j] \in ToSet(r)
  <2>1. CASE j < i
    <3>1. j \in 1..(Len(q) - 1) /\ r[j] = q[j] BY <1>1, <2>1
    <3>. QED BY <1>1, <3>1 DEF ToSet
  <2>2. CASE j > i
    <3>1. j - 1 \in 1..(Len(q) - 1) /\ r[j - 1] = q[j] BY <1>1, <2>2
    <3>. QED BY <1>1, <3>1 DEF ToSet
  <2>. QED BY <1>4, <2>1, <2>2
<1>5. ToSet(q) \ {q[i]} \subseteq ToSet(r)
  BY <1>1, <1>4 DEF ToSet
<1>. QED BY <1>2, <1>3, <1>5 DEF r

\* Insertion of a new element keeps a queue free of duplicates.
LEMMA InsertionAddsOne ==
  ASSUME NEW S, NEW q \in Seq(S), NEW e \in S, NEW k \in 1..(Len(q) + 1),
         IsInjective(q), e \notin ToSet(q)
  PROVE  /\ IsInjective(InsertAt(q, k, e))
         /\ ToSet(InsertAt(q, k, e)) = ToSet(q) \union {e}
<1>. DEFINE r == InsertAt(q, k, e)
<1>1. /\ r \in Seq(S) /\ Len(r) = Len(q) + 1
      /\ DOMAIN r = 1..(Len(q) + 1) /\ DOMAIN q = 1..Len(q)
      /\ \A j \in 1..(k - 1) : r[j] = q[j]
      /\ r[k] = e
      /\ \A j \in (k + 1)..(Len(q) + 1) : r[j] = q[j - 1]
  BY InsertedElements
<1>2. \A j \in 1..Len(q) : q[j] # e
  BY <1>1 DEF ToSet
<1>3. IsInjective(r)
  <2>. HIDE DEF r
  <2>. SUFFICES ASSUME NEW x \in 1..(Len(q) + 1), NEW y \in 1..(Len(q) + 1), r[x] = r[y]
                PROVE  x = y
    BY <1>1 DEF IsInjective
  <2>1. \A m, n \in 1..Len(q) : q[m] = q[n] => m = n
    BY <1>1 DEF IsInjective
  <2>0. ASSUME NEW z \in 1..(Len(q) + 1), z # k PROVE r[z] # e
    <3>1. CASE z < k
      <4>1. r[z] = q[z] /\ z \in 1..Len(q) BY <1>1, <3>1
      <4>. QED BY <1>2, <4>1
    <3>2. CASE z > k
      <4>1. r[z] = q[z - 1] /\ z - 1 \in 1..Len(q) BY <1>1, <3>2
      <4>. QED BY <1>2, <4>1
    <3>. QED BY <2>0, <3>1, <3>2
  <2>2. CASE x = k
    BY <1>1, <2>0, <2>2
  <2>3. CASE y = k
    BY <1>1, <2>0, <2>3
  <2>4. CASE x # k /\ y # k
    <3>. DEFINE m == IF x < k THEN x ELSE x - 1
                n == IF y < k THEN y ELSE y - 1
    <3>1. m \in 1..Len(q) /\ n \in 1..Len(q) /\ r[x] = q[m] /\ r[y] = q[n]
      BY <1>1, <2>4
    <3>2. m = n
      <4>. HIDE DEF m, n
      <4>. QED BY <2>1, <3>1
    <3>. QED BY <2>4, <3>2
  <2>. QED BY <2>2, <2>3, <2>4
<1>4. ToSet(r) \subseteq ToSet(q) \union {e}
  <2>. HIDE DEF r
  <2>. SUFFICES ASSUME NEW x \in 1..(Len(q) + 1), x # k PROVE r[x] \in ToSet(q)
    BY <1>1 DEF ToSet
  <2>1. CASE x < k
    <3>1. r[x] = q[x] /\ x \in 1..Len(q) BY <1>1, <2>1
    <3>. QED BY <1>1, <3>1 DEF ToSet
  <2>2. CASE x > k
    <3>1. r[x] = q[x - 1] /\ x - 1 \in 1..Len(q) BY <1>1, <2>2
    <3>. QED BY <1>1, <3>1 DEF ToSet
  <2>. QED BY <2>1, <2>2
<1>5. e \in ToSet(r)
  BY <1>1 DEF ToSet
<1>6. ASSUME NEW j \in 1..Len(q) PROVE q[j] \in ToSet(r)
  <2>1. CASE j < k BY <1>1, <2>1 DEF ToSet
  <2>2. CASE j >= k
    <3>1. j + 1 \in 1..(Len(q) + 1) /\ r[j + 1] = q[j] BY <1>1, <2>2
    <3>. QED BY <1>1, <3>1 DEF ToSet
  <2>. QED BY <2>1, <2>2
<1>7. ToSet(q) \subseteq ToSet(r)
  BY <1>1, <1>6 DEF ToSet
<1>. QED BY <1>3, <1>4, <1>5, <1>7

\* So does a new element at the end.
LEMMA AppendAddsOne ==
  ASSUME NEW S, NEW q \in Seq(S), NEW e \in S, IsInjective(q), e \notin ToSet(q)
  PROVE  /\ IsInjective(Append(q, e))
         /\ ToSet(Append(q, e)) = ToSet(q) \union {e}
<1>. DEFINE r == Append(q, e)
            n == Len(q) + 1
<1>1. /\ DOMAIN r = 1..n /\ DOMAIN q = 1..Len(q) /\ n \in 1..n
      /\ \A k \in 1..Len(q) : r[k] = q[k]
      /\ r[n] = e
      /\ \A k \in 1..n : k # n => k \in 1..Len(q)
      /\ 1..Len(q) \subseteq 1..n
  BY AppendProperties
<1>. HIDE DEF r, n
<1>2. \A k \in 1..Len(q) : q[k] # e
  BY <1>1 DEF ToSet
<1>3. IsInjective(r)
  BY <1>1, <1>2, Zenon DEF IsInjective
<1>4. ToSet(r) = ToSet(q) \union {e}
  BY <1>1 DEF ToSet
<1>. QED BY <1>3, <1>4 DEF r

-----------------------------------------------------------------------------
(* The database and the workers that start on it.                          *)

BootInv == BootTypeOK /\ FlockInv /\ WorkerInv /\ DatabaseInv

LEMMA ColumnFacts ==
  /\ WorldGuid \notin Columns
  /\ AddedColumns \subseteq Columns /\ LastIp \in Columns /\ Columns = AddedColumns \union {LastIp}
  /\ <<"versions", "save_identity">> \in Columns /\ <<"active_lock", "token_id">> \in Columns
  /\ BaseTables \subseteq Tables
  /\ "pending_backups" \in Tables
<1>1. "pending_backups" \in Tables
  <2>1. SchemaTables[9] = "pending_backups" BY DEF SchemaTables
  <2>. QED BY <2>1 DEF Tables
<1>2. WorldGuid \notin Columns
  BY DEF WorldGuid, Columns, AddedColumns, LastIp
<1>. QED BY <1>1, <1>2 DEF Columns, AddedColumns, LastIp, BaseTables

\* What a start may find satisfies the invariant.
LEMMA InitBoot == BootInit => BootInv
<1>. SUFFICES ASSUME BootInit PROVE BootInv
  OBVIOUS
<1>. USE WorkersAssumption
<1>1. /\ version \in Nat /\ tables \subseteq Tables
      /\ columns \subseteq Columns \union {WorldGuid} /\ triggers \in BOOLEAN
      /\ CurrentSchemaIsComplete
      /\ WorldGuid \in columns => version = 0
  <2>. USE ColumnFacts DEF CurrentSchemaIsComplete, SchemaVersion, Complete
  <2>1. CASE NewDatabase
    <3>1. triggers \in BOOLEAN BY <2>1, Zenon DEF NewDatabase
    <3>. QED BY <2>1, <3>1 DEF NewDatabase
  <2>2. CASE Version1
    <3>1. triggers \in BOOLEAN BY <2>2, Zenon DEF Version1
    <3>. QED BY <2>2, <3>1 DEF Version1
  <2>3. CASE Unversioned
    <3>1. columns \subseteq Columns /\ WorldGuid \notin columns BY <2>3, SMT DEF Unversioned
    <3>. QED BY <2>3, <3>1 DEF Unversioned
  <2>4. CASE Schema3
    <3>1. columns \subseteq Columns /\ WorldGuid \notin columns BY <2>4, SMT DEF Schema3
    <3>2. tables \subseteq Tables BY <2>4, Zenon DEF Schema3
    <3>. QED BY <2>4, <3>1, <3>2 DEF Schema3
  <2>5. CASE Schema4 BY <2>5 DEF Schema4
  <2>6. CASE Schema5Or(6) BY <2>6 DEF Schema5Or
  <2>. QED BY <2>1, <2>2, <2>3, <2>4, <2>5, <2>6 DEF BootInit
<1>2. rows \in {"none", "valid", "invalid"} /\ migrator = NoWorker /\ faults \in 0..MaxFaults
  BY DEF BootInit, StoredRows
<1>3. /\ worker \in [Workers -> [pc : WorkerPC, seen : Nat]]
      /\ \A w \in Workers : worker[w].pc = "down"
  BY DEF BootInit, WorkerPC
<1>. QED
  BY <1>1, <1>2, <1>3
     DEF BootInv, BootTypeOK, FlockInv, WorkerInv, WorkerOk, DatabaseInv

\* A worker's step leaves the other workers alone.
LEMMA WorkerMoves ==
  ASSUME BootTypeOK, NEW w \in Workers, NEW pc \in WorkerPC, NEW n \in Nat,
         \/ n = worker[w].seen /\ WorkerAt(w, pc)
         \/ n = 0 /\ WorkerLeaves(w, pc)
         \/ worker' = [worker EXCEPT ![w] = [pc |-> pc, seen |-> n]]
  PROVE  /\ worker' \in [Workers -> [pc : WorkerPC, seen : Nat]]
         /\ worker'[w].pc = pc /\ worker'[w].seen = n
         /\ \A v \in Workers : v # w => worker'[v] = worker[v]
<1>1. worker' = [worker EXCEPT ![w] = [pc |-> pc, seen |-> n]]
  BY DEF BootTypeOK, WorkerAt, WorkerLeaves
<1>. QED BY <1>1 DEF BootTypeOK

\* No start of a worker, wherever it is killed, breaks the invariant.
LEMMA StepBoot == BootInv /\ BootNext => BootInv'
<1>. SUFFICES ASSUME BootInv, NEW w \in Workers, BootProgress(w) \/ WorkerKilled(w)
              PROVE  BootInv'
  BY DEF BootNext
<1>. USE WorkersAssumption DEF BootInv
<1>0. BootTypeOK /\ worker[w] \in [pc : WorkerPC, seen : Nat]
  BY DEF BootTypeOK
<1>. DEFINE Moved(pc, n) ==
       /\ worker' \in [Workers -> [pc : WorkerPC, seen : Nat]]
       /\ worker'[w].pc = pc /\ worker'[w].seen = n
       /\ \A v \in Workers : v # w => worker'[v] = worker[v]
<1>a. \A pc \in WorkerPC : WorkerAt(w, pc) => Moved(pc, worker[w].seen)
  BY <1>0, WorkerMoves
<1>b. \A pc \in WorkerPC : WorkerLeaves(w, pc) => Moved(pc, 0)
  BY <1>0, WorkerMoves
<1>. USE DEF BootTypeOK, FlockInv, WorkerInv, WorkerOk, DatabaseInv, CurrentSchemaIsComplete,
             Complete, SchemaVersion, database
<1>1. CASE BootLock(w)
  <2>1. Moved("opening", worker[w].seen) BY <1>a, <1>1 DEF BootLock, WorkerPC
  <2>. QED BY <1>1, <2>1 DEF BootLock
<1>2. CASE BootOpen(w)
  <2>1. Moved("script", version) BY <1>0, <1>2, WorkerMoves DEF BootOpen, WorkerPC
  <2>. QED BY <1>2, <2>1 DEF BootOpen
<1>3. CASE RefuseNewer(w) \/ RefuseVersion1(w) \/ RefuseIdentity(w)
  <2>1. Refuse(w) /\ worker[w].pc \in {"opening", "migrate", "validate"}
    BY <1>3 DEF RefuseNewer, RefuseVersion1, RefuseIdentity
  <2>2. Moved("down", 0) BY <1>b, <2>1 DEF Refuse, WorkerPC
  <2>. QED BY <2>1, <2>2 DEF Refuse
<1>4. ASSUME NEW i \in 1..9, CreateTable(w, i) PROVE BootInv'
  <2>1. SchemaTables[i] \in Tables BY DEF Tables
  <2>2. ColumnsOf(SchemaTables[i]) \subseteq Columns BY DEF ColumnsOf
  <2>. QED BY <1>4, <2>1, <2>2, ColumnFacts DEF CreateTable
<1>5. CASE ScriptEnds(w)
  <2>1. Moved("migrate", worker[w].seen) BY <1>a, <1>5 DEF ScriptEnds, WorkerPC
  <2>. QED BY <1>5, <2>1 DEF ScriptEnds
<1>6. CASE Migrate(w)
  <2>1. Moved("validate", worker[w].seen) BY <1>a, <1>6 DEF Migrate, WorkerPC
  <2>2. Columns \subseteq columns' /\ columns' \subseteq Columns \union {WorldGuid}
        /\ WorldGuid \notin columns'
    <3>1. worker[w].seen = version BY <1>6 DEF Migrate
    <3>2. CASE version < 5 BY <1>6, <3>1, <3>2, ColumnFacts DEF Migrate
    <3>3. CASE version = 5 BY <1>6, <3>1, <3>3, ColumnFacts DEF Migrate
    <3>. QED BY <1>6, <3>2, <3>3 DEF Migrate
  <2>. QED BY <1>6, <2>1, <2>2 DEF Migrate
<1>7. CASE BootServe(w)
  <2>1. Moved("serving", 0) BY <1>b, <1>7 DEF BootServe, WorkerPC
  <2>. QED BY <1>7, <2>1 DEF BootServe
<1>8. CASE WorkerKilled(w)
  <2>1. Moved("down", 0) BY <1>b, <1>8 DEF WorkerKilled, WorkerPC
  <2>. QED BY <1>8, <2>1 DEF WorkerKilled
<1>. QED
  BY <1>1, <1>2, <1>3, <1>4, <1>5, <1>6, <1>7, <1>8 DEF BootProgress

-----------------------------------------------------------------------------
(* The supervisor and its queue.                                           *)

QueueInv ==
  SupTypeOK /\ SingletonInv /\ JobInv /\ QueuedOrDecided /\ armed \subseteq 1..head /\ OutcomeIsReal

LEMMA QueuedVersions == queue \in Seq(Versions) => Queued \subseteq Versions /\ DOMAIN queue = 1..Len(queue)
BY DEF ToSet, Queued

\* A supervisor's step leaves the other supervisors alone.
LEMMA SupMoves ==
  ASSUME SupTypeOK, NEW s \in Supervisors, NEW r \in SupState,
         \/ r = [sup[s] EXCEPT !.pc = r.pc] /\ SupAt(s, r.pc)
         \/ r = NoJob("idle", sup[s].stop) /\ SupIdle(s)
         \/ sup' = [sup EXCEPT ![s] = r]
  PROVE  /\ sup' \in [Supervisors -> SupState]
         /\ sup'[s] = r
         /\ \A t \in Supervisors : t # s => sup'[t] = sup[t]
<1>1. sup' = [sup EXCEPT ![s] = r]
  BY DEF SupTypeOK, SupAt, SupIdle
<1>. QED BY <1>1 DEF SupTypeOK

\* Only the supervisor that holds the flock does anything.
LEMMA OthersAreDown ==
  ASSUME SingletonInv, NEW s \in Supervisors, NEW t \in Supervisors,
         sup[s].pc # "down", t # s, SupTypeOK
  PROVE  sup[t].pc = "down" /\ hook[t] = "none" /\ singleton = s
BY DEF SingletonInv, SingletonOk, SupTypeOK

\* A step that touches neither the queue nor what is recorded has only to keep
\* what it says of its own supervisor.
LEMMA QuietStep ==
  ASSUME QueueInv, NEW s \in Supervisors,
         UNCHANGED <<enabled, ledger, armed, version>>,
         succeeded \subseteq succeeded', failed \subseteq failed',
         succeeded' \subseteq Versions, failed' \subseteq Versions,
         sup' \in [Supervisors -> SupState],
         hook' \in [Supervisors -> {"none", "running", "exit0", "exit1"}],
         orphans' \in [Supervisors -> SUBSET Versions],
         singleton' \in Supervisors \union {NoSupervisor},
         \A t \in Supervisors : t # s =>
            sup'[t] = sup[t] /\ hook'[t] = hook[t] /\ (singleton' = t <=> singleton = t),
         SingletonOk(s)', JobOk(s)'
  PROVE  QueueInv'
<1>. USE DEF QueueInv, ledger
<1>1. SupTypeOK' BY DEF SupTypeOK
<1>2. SingletonInv' BY DEF SingletonInv, SingletonOk
<1>3. JobInv' BY DEF JobInv, JobOk, Queued
<1>4. QueuedOrDecided' BY DEF QueuedOrDecided, Queued
<1>5. OutcomeIsReal' BY DEF OutcomeIsReal
<1>. QED BY <1>1, <1>2, <1>3, <1>4, <1>5

\* What a new service finds.
LEMMA InitQueue == BootInit /\ SupInit => QueueInv
<1>. SUFFICES ASSUME BootInit, SupInit PROVE QueueInv
  OBVIOUS
<1>. USE SupervisorsAssumption DEF SupInit
<1>1. head \in 0..MaxVersion BY DEF Versions
<1>2. queue \in Seq(1..MaxVersion) /\ IsInjective(queue) /\ Queued \subseteq 1..head
  <2>1. CASE queue = <<>> BY <2>1 DEF IsInjective, Queued, ToSet
  <2>2. CASE queue = <<head>> /\ head # 0 BY <1>1, <2>2 DEF IsInjective, Queued, ToSet
  <2>. QED BY <2>1, <2>2
<1>3. SupTypeOK
  <2>1. Down \in SupState BY DEF Down, NoJob, SupState, SupPC, Result
  <2>2. enabled \in BOOLEAN BY Zenon
  <2>3. armed \subseteq Versions BY <1>1, <1>2 DEF Versions
  <2>. QED BY <1>1, <1>2, <2>1, <2>2, <2>3 DEF SupTypeOK
<1>4. SingletonInv /\ JobInv
  BY DEF SingletonInv, SingletonOk, JobInv, JobOk, Down, NoJob, BusyPC
<1>5. QueuedOrDecided /\ OutcomeIsReal
  BY <1>2 DEF QueuedOrDecided, OutcomeIsReal
<1>. QED BY <1>2, <1>3, <1>4, <1>5 DEF QueueInv

\* A start of a worker leaves a migrated database migrated.
LEMMA QueueByBoot == BootInv /\ QueueInv /\ BootNext /\ UNCHANGED supVars => QueueInv'
<1>. SUFFICES ASSUME BootInv, QueueInv, BootNext, UNCHANGED supVars PROVE QueueInv'
  OBVIOUS
<1>1. version = SchemaVersion => version' = SchemaVersion
  BY DEF BootNext, BootProgress, BootLock, BootOpen, RefuseNewer, CreateTable, ScriptEnds,
     Migrate, RefuseVersion1, BootServe, RefuseIdentity, WorkerKilled, Refuse, database
<1>. USE DEF QueueInv, supVars
<1>2. SupTypeOK' BY DEF SupTypeOK
<1>3. SingletonInv' BY <1>1 DEF SingletonInv, SingletonOk
<1>4. JobInv' BY DEF JobInv, JobOk, Queued
<1>5. QueuedOrDecided' BY DEF QueuedOrDecided, Queued
<1>6. OutcomeIsReal' BY DEF OutcomeIsReal
<1>. QED BY <1>2, <1>3, <1>4, <1>5, <1>6

\* A new version goes to the end of the queue, where it is not yet.
LEMMA QueueByPublish == QueueInv /\ Publish => QueueInv'
<1>. SUFFICES ASSUME QueueInv, Publish PROVE QueueInv'
  OBVIOUS
<1>. USE SupervisorsAssumption DEF QueueInv
<1>0. /\ head \in Nat /\ head + 1 \in 1..MaxVersion /\ head' = head + 1
      /\ Versions = 1..MaxVersion /\ queue \in Seq(Versions)
  BY DEF Publish, SupTypeOK, Versions
<1>1. /\ queue' \in Seq(Versions) /\ IsInjective(queue')
      /\ Queued \subseteq Queued' /\ Len(queue) <= Len(queue')
      /\ Queued' = Queued \union (armed' \ armed)
      /\ armed' \subseteq 1..head' /\ armed \subseteq armed'
      /\ armed' \ armed \subseteq {head + 1}
  <2>1. CASE ~enabled
    BY <1>0, <2>1 DEF Publish, QueuedOrDecided, Queued
  <2>2. CASE enabled
    <3>1. head + 1 \notin armed BY <1>0
    <3>2. head + 1 \notin Queued BY <3>1 DEF QueuedOrDecided
    <3>3. /\ queue' = Append(queue, head + 1) /\ armed' = armed \union {head + 1}
      BY <2>2 DEF Publish
    <3>4. queue' \in Seq(Versions) /\ Len(queue') = Len(queue) + 1
      BY <1>0, <3>3, AppendProperties
    <3>5. IsInjective(queue') /\ Queued' = Queued \union {head + 1}
      BY <1>0, <3>2, <3>3, AppendAddsOne DEF Queued, QueuedOrDecided
    <3>. QED BY <1>0, <3>1, <3>3, <3>4, <3>5
  <2>. QED BY <2>1, <2>2
<1>2. SupTypeOK'
  BY <1>0, <1>1 DEF SupTypeOK, Publish
<1>3. SingletonInv' /\ OutcomeIsReal'
  BY DEF SingletonInv, SingletonOk, OutcomeIsReal, Publish
<1>4. JobInv'
  BY <1>0, <1>1 DEF JobInv, JobOk, Publish, SupTypeOK, SupState
<1>5. QueuedOrDecided'
  <2>1. outcome' = outcome BY DEF Publish
  <2>. QED BY <1>0, <1>1, <2>1 DEF QueuedOrDecided
<1>. QED BY <1>1, <1>2, <1>3, <1>4, <1>5

\* The job is where it was, behind those that were queued when it was picked.
LEMMA RequeuedQueue ==
  ASSUME queue \in Seq(Versions), IsInjective(queue), NEW job \in Queued, NEW k \in 1..Len(queue)
  PROVE  /\ Requeued(job, k) \in Seq(Versions)
         /\ Len(Requeued(job, k)) = Len(queue)
         /\ IsInjective(Requeued(job, k))
         /\ ToSet(Requeued(job, k)) = Queued
<1>. DEFINE i == CHOOSE j \in 1..Len(queue) : queue[j] = job
            r == RemoveAt(queue, i)
<1>1. i \in 1..Len(queue) /\ queue[i] = job
  BY DEF Queued, ToSet
<1>2. Requeued(job, k) = InsertAt(r, k, job)
  BY DEF Requeued
<1>. HIDE DEF i
<1>3. /\ r \in Seq(Versions) /\ Len(r) = Len(queue) - 1
      /\ IsInjective(r) /\ ToSet(r) = Queued \ {job}
  BY <1>1, RemovedElements, RemovalTakesOne DEF Queued
<1>. HIDE DEF r
<1>4. job \in Versions
  BY <1>1
<1>5. k \in 1..(Len(r) + 1) /\ job \notin ToSet(r)
  BY <1>3
<1>6. InsertAt(r, k, job) \in Seq(Versions) /\ Len(InsertAt(r, k, job)) = Len(r) + 1
  BY <1>3, <1>4, <1>5, InsertedElements
<1>7. IsInjective(InsertAt(r, k, job)) /\ ToSet(InsertAt(r, k, job)) = ToSet(r) \union {job}
  BY <1>3, <1>4, <1>5, InsertionAddsOne
<1>. QED BY <1>2, <1>3, <1>6, <1>7

\* No step of a supervisor, and no failure of one, breaks the invariant.
LEMMA QueueBySupervisor ==
  QueueInv /\ SupNext /\ UNCHANGED database => QueueInv'
<1>. SUFFICES ASSUME QueueInv, UNCHANGED version, NEW s \in Supervisors,
                     \/ SupProgress(s) \/ StopRequest(s) \/ SupKilled(s)
                     \/ HookExits(s) \/ HeartbeatFails(s)
                     \/ \E v \in Versions : OrphanExits(s, v)
              PROVE  QueueInv'
  BY DEF SupNext, database
<1>. USE SupervisorsAssumption
<1>0. /\ SupTypeOK /\ SingletonInv /\ SingletonOk(s) /\ JobOk(s)
      /\ sup[s] \in SupState /\ Queued \subseteq Versions
      /\ queue \in Seq(Versions) /\ IsInjective(queue)
  BY QueuedVersions DEF QueueInv, SingletonInv, JobInv, SupTypeOK, Versions, QueuedOrDecided
<1>o. \A t \in Supervisors : t # s /\ sup[s].pc # "down" =>
         sup[t].pc = "down" /\ hook[t] = "none" /\ singleton = s
  BY <1>0, OthersAreDown
<1>. DEFINE Moved(r) ==
       /\ sup' \in [Supervisors -> SupState]
       /\ sup'[s] = r
       /\ \A t \in Supervisors : t # s => sup'[t] = sup[t]
            Hooked(h) ==
       /\ hook' \in [Supervisors -> {"none", "running", "exit0", "exit1"}]
       /\ hook'[s] = h
       /\ \A t \in Supervisors : t # s => hook'[t] = hook[t]
            IdleState == NoJob("idle", sup[s].stop)
            Ok(r, h) ==
       /\ r.pc # "down" <=> singleton' = s
       /\ h # "none" => r.pc \in {"hook", "terminating"}
       /\ r.pc \notin {"down", "schema"} => version = SchemaVersion
       /\ r.pc \in BusyPC => r.job \in Queued
       /\ r.pc = "claiming" => r.seen \in 1..Len(queue)
       /\ h = "exit0" => r.job \in succeeded'
       /\ h = "exit1" => r.job \in failed'
       /\ r.pc = "terminating" => r.result \in {"interrupted", "failed"}
       /\ r.pc = "finalizing" => r.result \in {"completed", "failed"}
       /\ r.pc \in {"terminating", "finalizing"} /\ r.result = "failed" => r.job \in failed'
       /\ r.pc = "finalizing" /\ r.result = "completed" => r.job \in succeeded'
<1>i. IdleState \in SupState /\ Down \in SupState
  <2>1. sup[s].stop \in BOOLEAN /\ MaxVersion \in Nat BY <1>0 DEF SupState
  <2>. QED BY <2>1 DEF Down, NoJob, SupState, SupPC, Result
<1>m. \A r \in SupState : sup' = [sup EXCEPT ![s] = r] => Moved(r)
  BY <1>0, SupMoves
<1>p. \A pc \in SupPC : SupAt(s, pc) => Moved([sup[s] EXCEPT !.pc = pc])
  <2>. SUFFICES ASSUME NEW pc \in SupPC, SupAt(s, pc) PROVE Moved([sup[s] EXCEPT !.pc = pc])
    OBVIOUS
  <2>1. [sup[s] EXCEPT !.pc = pc] \in SupState BY <1>0 DEF SupState
  <2>2. sup' = [sup EXCEPT ![s] = [sup[s] EXCEPT !.pc = pc]] BY <1>0 DEF SupAt, SupTypeOK
  <2>. QED BY <1>m, <2>1, <2>2
<1>r. SupIdle(s) => Moved(IdleState)
  BY <1>m, <1>i DEF SupIdle
<1>h. \A h \in {"none", "running", "exit0", "exit1"} :
         hook' = [hook EXCEPT ![s] = h] => Hooked(h)
  BY <1>0 DEF SupTypeOK
<1>k. hook' = hook => Hooked(hook[s])
  BY <1>0 DEF SupTypeOK
<1>. HIDE DEF Moved, Hooked
<1>q. ASSUME NEW r \in SupState, Moved(r), NEW h, Hooked(h),
             UNCHANGED <<enabled, ledger, armed>>,
             succeeded \subseteq succeeded', failed \subseteq failed',
             succeeded' \subseteq Versions, failed' \subseteq Versions,
             orphans' \in [Supervisors -> SUBSET Versions],
             singleton' \in Supervisors \union {NoSupervisor},
             \A t \in Supervisors : t # s => (singleton' = t <=> singleton = t),
             Ok(r, h)
      PROVE  QueueInv'
  <2>1. /\ sup'[s] = r /\ hook'[s] = h /\ version' = version
        /\ queue' = queue
    BY <1>q DEF Moved, Hooked, ledger
  <2>2. SingletonOk(s)' BY <1>q, <2>1 DEF SingletonOk
  <2>3. JobOk(s)' BY <1>q, <2>1 DEF JobOk, Queued
  <2>. QED BY <1>q, <2>2, <2>3, QuietStep DEF Moved, Hooked
<1>. DEFINE S == sup[s]
<1>s. /\ S = [pc |-> S.pc, stop |-> S.stop, job |-> S.job, seen |-> S.seen, result |-> S.result]
      /\ S.pc \in SupPC /\ S.stop \in BOOLEAN /\ S.job \in 0..MaxVersion /\ S.seen \in Nat
      /\ S.result \in Result
  BY <1>0 DEF SupState
<1>t. /\ S.pc # "down" <=> singleton = s
      /\ hook[s] # "none" => S.pc \in {"hook", "terminating"}
      /\ S.pc \notin {"down", "schema"} => version = SchemaVersion
      /\ S.pc \in BusyPC => S.job \in Queued
      /\ S.pc = "claiming" => S.seen \in 1..Len(queue)
      /\ hook[s] = "exit0" => S.job \in succeeded
      /\ hook[s] = "exit1" => S.job \in failed
      /\ S.pc = "terminating" => S.result \in {"interrupted", "failed"}
      /\ S.pc = "finalizing" => S.result \in {"completed", "failed"}
      /\ S.pc \in {"terminating", "finalizing"} /\ S.result = "failed" => S.job \in failed
      /\ S.pc = "finalizing" /\ S.result = "completed" => S.job \in succeeded
  BY <1>0 DEF SingletonOk, JobOk
<1>u. /\ hook[s] \in {"none", "running", "exit0", "exit1"}
      /\ orphans \in [Supervisors -> SUBSET Versions]
      /\ singleton \in Supervisors \union {NoSupervisor}
      /\ succeeded \subseteq Versions /\ failed \subseteq Versions
      /\ NoSupervisor \notin Supervisors
  BY <1>0 DEF SupTypeOK
<1>. USE DEF BusyPC, ghosts
<1>v. S.pc \in BusyPC => S.job \in Versions
  BY <1>0, <1>t
<1>1. CASE SupLock(s)
  <2>. DEFINE r == [S EXCEPT !.pc = "schema"]
  <2>1. r \in SupState BY <1>s, <1>i DEF SupState, SupPC, Result
  <2>2. Moved(r) /\ Hooked(hook[s]) BY <1>1, <1>p, <1>k DEF SupLock, SupPC
  <2>3. Ok(r, hook[s]) BY <1>1, <1>s, <1>t DEF SupLock
  <2>. QED BY <1>1, <1>q, <1>u, <2>1, <2>2, <2>3 DEF SupLock
<1>2. CASE SchemaFound(s)
  <2>. DEFINE r == [S EXCEPT !.pc = "idle"]
  <2>1. r \in SupState BY <1>s, <1>i DEF SupState, SupPC, Result
  <2>2. Moved(r) /\ Hooked(hook[s]) BY <1>2, <1>p, <1>k DEF SchemaFound, SupPC
  <2>3. Ok(r, hook[s]) BY <1>2, <1>s, <1>t DEF SchemaFound, SchemaReady
  <2>. QED BY <1>2, <1>q, <1>u, <2>1, <2>2, <2>3 DEF SchemaFound
<1>3. CASE StopRequest(s)
  <2>. DEFINE r == [S EXCEPT !.stop = TRUE]
  <2>1. r \in SupState BY <1>s, <1>i DEF SupState, SupPC, Result
  <2>2. Moved(r) /\ Hooked(hook[s]) BY <1>3, <1>0, <1>m, <1>k, <2>1 DEF StopRequest, SupPC
  <2>3. Ok(r, hook[s]) BY <1>3, <1>s, <1>t DEF StopRequest
  <2>. QED BY <1>3, <1>q, <1>u, <2>1, <2>2, <2>3 DEF StopRequest
<1>4. CASE SupExit(s)
  <2>. DEFINE r == Down
  <2>1. r \in SupState BY <1>s, <1>i DEF SupState, SupPC, Result
  <2>2. Moved(r) /\ Hooked(hook[s]) BY <1>4, <1>m, <1>i, <1>k DEF SupExit, SupPC
  <2>3. Ok(r, hook[s]) BY <1>4, <1>s, <1>t DEF SupExit, Down, NoJob
  <2>4. singleton = s /\ singleton' = NoSupervisor BY <1>4, <1>t DEF SupExit
  <2>5. /\ orphans' \in [Supervisors -> SUBSET Versions]
        /\ UNCHANGED <<enabled, ledger, armed, succeeded, failed>>
    BY <1>4, <1>u DEF SupExit
  <2>6. /\ singleton' \in Supervisors \union {NoSupervisor}
        /\ \A t \in Supervisors : t # s => (singleton' = t <=> singleton = t)
    BY <2>4, <1>u
  <2>. HIDE DEF r, Ok
  <2>7. /\ succeeded \subseteq succeeded' /\ failed \subseteq failed'
        /\ succeeded' \subseteq Versions /\ failed' \subseteq Versions
    BY <2>5, <1>u
  <2>. QED BY <1>q, <2>1, <2>2, <2>3, <2>5, <2>6, <2>7
<1>5. CASE SupKilled(s)
  <2>. DEFINE r == Down
  <2>1. r \in SupState BY <1>s, <1>i DEF SupState, SupPC, Result
  <2>2. Moved(r) /\ Hooked("none") BY <1>5, <1>m, <1>i, <1>h DEF SupKilled, SupPC
  <2>3. Ok(r, "none") BY <1>5, <1>s, <1>t, <1>u DEF SupKilled, Down, NoJob
  <2>4. singleton = s /\ singleton' = NoSupervisor BY <1>5, <1>t DEF SupKilled
  <2>5. /\ orphans' \in [Supervisors -> SUBSET Versions]
        /\ UNCHANGED <<enabled, ledger, armed, succeeded, failed>>
    BY <1>5, <1>u DEF SupKilled
  <2>6. /\ singleton' \in Supervisors \union {NoSupervisor}
        /\ \A t \in Supervisors : t # s => (singleton' = t <=> singleton = t)
    BY <2>4, <1>u
  <2>. HIDE DEF r, Ok
  <2>7. /\ succeeded \subseteq succeeded' /\ failed \subseteq failed'
        /\ succeeded' \subseteq Versions /\ failed' \subseteq Versions
    BY <2>5, <1>u
  <2>. QED BY <1>q, <2>1, <2>2, <2>3, <2>5, <2>6, <2>7
<1>6. CASE Pick(s)
  <2>. DEFINE r == [pc |-> "claiming", stop |-> FALSE, job |-> Head(queue),
                    seen |-> Len(queue), result |-> "none"]
  <2>0. /\ Head(queue) \in Queued /\ Head(queue) \in 0..MaxVersion
        /\ Len(queue) \in 1..Len(queue) /\ Len(queue) \in Nat
    <3>1. Head(queue) = queue[1] /\ 1 \in DOMAIN queue /\ Len(queue) \in Nat \ {0}
      BY <1>0, <1>6 DEF Pick
    <3>. QED BY <1>0, <3>1 DEF Queued, ToSet, Versions
  <2>1. r \in SupState BY <2>0 DEF SupState, SupPC, Result
  <2>2. Moved(r) /\ Hooked(hook[s]) BY <1>6, <1>m, <1>k, <2>1 DEF Pick
  <2>3. Ok(r, hook[s]) BY <1>6, <1>s, <1>t, <2>0 DEF Pick, SchemaReady
  <2>. QED BY <1>6, <1>q, <1>u, <2>1, <2>2, <2>3 DEF Pick
<1>7. CASE MarkFails(s)
  <2>. DEFINE r == IdleState
  <2>1. r \in SupState BY <1>s, <1>i DEF SupState, SupPC, Result
  <2>2. Moved(r) /\ Hooked(hook[s]) BY <1>7, <1>r, <1>k DEF MarkFails, SupPC
  <2>3. Ok(r, hook[s]) BY <1>7, <1>s, <1>t DEF MarkFails, NoJob
  <2>. QED BY <1>7, <1>q, <1>u, <2>1, <2>2, <2>3 DEF MarkFails
<1>8. CASE Launch(s)
  <2>. DEFINE r == [S EXCEPT !.pc = "hook"]
  <2>1. r \in SupState BY <1>s, <1>i DEF SupState, SupPC, Result
  <2>2. Moved(r) /\ Hooked("running") BY <1>8, <1>p, <1>h DEF Launch, SupPC
  <2>3. Ok(r, "running") BY <1>8, <1>s, <1>t DEF Launch
  <2>. QED BY <1>8, <1>q, <1>u, <2>1, <2>2, <2>3 DEF Launch
<1>9. CASE LaunchFails(s)
  <2>. DEFINE r == [S EXCEPT !.pc = "finalizing", !.result = "failed"]
  <2>1. r \in SupState BY <1>s, <1>i DEF SupState, SupPC, Result
  <2>2. Moved(r) /\ Hooked(hook[s]) BY <1>9, <1>0, <1>m, <1>k, <2>1 DEF LaunchFails, SupPC
  <2>3. Ok(r, hook[s]) BY <1>9, <1>s, <1>t DEF LaunchFails
  <2>. QED BY <1>9, <1>q, <1>u, <2>1, <2>2, <2>3, <1>v DEF LaunchFails
<1>10. CASE SeeExit(s)
  <2>. DEFINE r == [S EXCEPT !.pc = "finalizing", !.result = IF hook[s] = "exit0" THEN "completed" ELSE "failed"]
  <2>1. r \in SupState BY <1>s, <1>i DEF SupState, SupPC, Result
  <2>2. Moved(r) /\ Hooked("none") BY <1>10, <1>0, <1>m, <1>h, <2>1 DEF SeeExit, SupPC
  <2>3. Ok(r, "none") BY <1>10, <1>s, <1>t DEF SeeExit
  <2>. QED BY <1>10, <1>q, <1>u, <2>1, <2>2, <2>3 DEF SeeExit
<1>11. CASE SeeStop(s)
  <2>. DEFINE r == [S EXCEPT !.pc = "terminating", !.result = "interrupted"]
  <2>1. r \in SupState BY <1>s, <1>i DEF SupState, SupPC, Result
  <2>2. Moved(r) /\ Hooked(hook[s]) BY <1>11, <1>0, <1>m, <1>k, <2>1 DEF SeeStop, SupPC
  <2>3. Ok(r, hook[s]) BY <1>11, <1>s, <1>t DEF SeeStop
  <2>. QED BY <1>11, <1>q, <1>u, <2>1, <2>2, <2>3 DEF SeeStop
<1>12. CASE Deadline(s)
  <2>. DEFINE r == [S EXCEPT !.pc = "terminating", !.result = "failed"]
  <2>1. r \in SupState BY <1>s, <1>i DEF SupState, SupPC, Result
  <2>2. Moved(r) /\ Hooked(hook[s]) BY <1>12, <1>0, <1>m, <1>k, <2>1 DEF Deadline, SupPC
  <2>3. Ok(r, hook[s]) BY <1>12, <1>s, <1>t DEF Deadline
  <2>. QED BY <1>12, <1>q, <1>u, <2>1, <2>2, <2>3, <1>v DEF Deadline
<1>13. CASE HeartbeatFails(s)
  <2>. DEFINE r == IdleState
  <2>1. r \in SupState BY <1>s, <1>i DEF SupState, SupPC, Result
  <2>2. Moved(r) /\ Hooked("none") BY <1>13, <1>r, <1>h DEF HeartbeatFails, SupPC
  <2>3. Ok(r, "none") BY <1>13, <1>s, <1>t DEF HeartbeatFails, NoJob
  <2>. QED BY <1>13, <1>q, <1>u, <2>1, <2>2, <2>3, <1>v DEF HeartbeatFails
<1>14. CASE Terminated(s)
  <2>. DEFINE r == IF S.result = "interrupted" THEN IdleState ELSE [S EXCEPT !.pc = "finalizing"]
  <2>1. r \in SupState BY <1>s, <1>i DEF SupState, SupPC, Result
  <2>2. Moved(r) /\ Hooked("none") BY <1>14, <1>r, <1>p, <1>h DEF Terminated, SupPC
  <2>3. Ok(r, "none") BY <1>14, <1>s, <1>t DEF Terminated, NoJob
  <2>. QED BY <1>14, <1>q, <1>u, <2>1, <2>2, <2>3 DEF Terminated
<1>15. CASE FinalizeFails(s)
  <2>. DEFINE r == IdleState
  <2>1. r \in SupState BY <1>s, <1>i DEF SupState, SupPC, Result
  <2>2. Moved(r) /\ Hooked(hook[s]) BY <1>15, <1>r, <1>k DEF FinalizeFails, SupPC
  <2>3. Ok(r, hook[s]) BY <1>15, <1>s, <1>t DEF FinalizeFails, NoJob
  <2>. QED BY <1>15, <1>q, <1>u, <2>1, <2>2, <2>3 DEF FinalizeFails
<1>16. ASSUME HookExits(s) PROVE QueueInv'
  <2>1. sup' = sup /\ S \in SupState /\ Moved(S) BY <1>0, <1>16 DEF HookExits, Moved, SupTypeOK
  <2>2. S.job \in Versions BY <1>16, <1>t, <1>v DEF HookExits
  <2>3. CASE /\ hook' = [hook EXCEPT ![s] = "exit0"]
             /\ succeeded' = succeeded \union {S.job} /\ failed' = failed /\ armed' = armed
    <3>1. Hooked("exit0") BY <1>h, <2>3
    <3>2. Ok(S, "exit0") BY <1>16, <1>t, <2>3 DEF HookExits
    <3>. QED BY <1>16, <1>q, <1>u, <2>1, <2>2, <2>3, <3>1, <3>2 DEF HookExits
  <2>4. CASE /\ hook' = [hook EXCEPT ![s] = "exit1"]
             /\ failed' = failed \union {S.job} /\ succeeded' = succeeded /\ armed' = armed
    <3>1. Hooked("exit1") BY <1>h, <2>4
    <3>2. Ok(S, "exit1") BY <1>16, <1>t, <2>4 DEF HookExits
    <3>. QED BY <1>16, <1>q, <1>u, <2>1, <2>2, <2>4, <3>1, <3>2 DEF HookExits
  <2>. QED BY <1>16, <2>3, <2>4 DEF HookExits
<1>17. ASSUME NEW v \in Versions, OrphanExits(s, v) PROVE QueueInv'
  <2>1. S \in SupState /\ Moved(S) /\ Hooked(hook[s])
    BY <1>0, <1>k, <1>17 DEF OrphanExits, Moved, SupTypeOK
  <2>2. Ok(S, hook[s]) BY <1>17, <1>t DEF OrphanExits
  <2>. QED BY <1>17, <1>q, <1>u, <2>1, <2>2 DEF OrphanExits
<1>18. CASE Mark(s)
  <2>. DEFINE r == [S EXCEPT !.pc = "launching"]
  <2>1. S.job \in Queued /\ S.seen \in 1..Len(queue) /\ S.pc = "claiming"
    BY <1>18, <1>t DEF Mark
  <2>2. r \in SupState /\ Moved(r) BY <1>18, <1>p, <1>s, <2>1 DEF Mark, SupState, SupPC
  <2>3. /\ queue' = Requeued(S.job, S.seen)
        /\ queue' \in Seq(Versions) /\ Len(queue') = Len(queue)
        /\ IsInjective(queue') /\ ToSet(queue') = Queued
    BY <1>0, <1>18, <2>1, RequeuedQueue DEF Mark
  <2>4. Queued' = Queued BY <2>3 DEF Queued
  <2>5. SupTypeOK' BY <1>0, <1>18, <2>2, <2>3 DEF SupTypeOK, Mark, Moved, Versions
  <2>6. SingletonInv'
    <3>1. hook[s] = "none" BY <1>t, <2>1
    <3>. QED BY <1>0, <1>18, <1>s, <1>t, <2>1, <2>2, <3>1
         DEF SingletonInv, SingletonOk, Mark, Moved
  <2>7. JobInv'
    <3>1. JobOk(s)' BY <1>18, <1>s, <1>t, <2>1, <2>2, <2>4 DEF JobOk, Mark, Moved
    <3>2. ASSUME NEW t \in Supervisors, t # s PROVE JobOk(t)'
      <4>1. sup'[t] = sup[t] /\ hook'[t] = hook[t] /\ sup[t].pc = "down" /\ hook[t] = "none"
        BY <1>18, <1>o, <2>1, <2>2, <3>2 DEF Mark, Moved
      <4>. QED BY <4>1 DEF JobOk
    <3>. QED BY <3>1, <3>2 DEF JobInv
  <2>8. QueuedOrDecided' /\ OutcomeIsReal'
    BY <1>18, <2>3, <2>4 DEF QueueInv, QueuedOrDecided, OutcomeIsReal, Mark
  <2>. QED BY <1>18, <2>5, <2>6, <2>7, <2>8 DEF QueueInv, Mark
<1>19. CASE Finalize(s)
  <2>. DEFINE i == CHOOSE k \in 1..Len(queue) : queue[k] = S.job
  <2>1. /\ S.job \in Queued /\ S.job \in Versions /\ S.pc = "finalizing"
        /\ S.result \in {"completed", "failed"}
        /\ S.result = "completed" => S.job \in succeeded
        /\ S.result = "failed" => S.job \in failed
    BY <1>19, <1>t, <1>v DEF Finalize
  <2>2. i \in 1..Len(queue) /\ queue[i] = S.job
    BY <1>0, <2>1 DEF Queued, ToSet
  <2>3. /\ queue' = RemoveAt(queue, i)
        /\ queue' \in Seq(Versions) /\ IsInjective(queue') /\ Queued' = Queued \ {S.job}
    <3>1. queue' = RemoveAt(queue, i) BY <1>19, <2>1 DEF Finalize
    <3>. HIDE DEF i
    <3>. QED BY <1>0, <2>2, <3>1, RemovedElements, RemovalTakesOne DEF Queued
  <2>4. Moved(IdleState) /\ hook' = hook BY <1>19, <1>r DEF Finalize
  <2>5. /\ outcome' \in [Versions -> {"none", "completed", "failed"}]
        /\ outcome'[S.job] = S.result
        /\ \A v \in Versions : v # S.job => outcome'[v] = outcome[v]
    BY <1>0, <1>19, <2>1 DEF Finalize, SupTypeOK
  <2>6. SupTypeOK' BY <1>0, <1>19, <2>3, <2>4, <2>5 DEF SupTypeOK, Finalize, Moved, Versions
  <2>7. SingletonInv'
    <3>1. hook[s] = "none" BY <1>t, <2>1
    <3>. QED BY <1>0, <1>19, <1>t, <2>1, <2>4, <3>1
         DEF SingletonInv, SingletonOk, Finalize, Moved, NoJob
  <2>8. JobInv'
    <3>1. JobOk(s)' BY <1>t, <2>1, <2>4 DEF JobOk, Moved, NoJob
    <3>2. ASSUME NEW t \in Supervisors, t # s PROVE JobOk(t)'
      <4>1. sup'[t] = sup[t] /\ hook'[t] = hook[t] /\ sup[t].pc = "down" /\ hook[t] = "none"
        BY <1>o, <2>1, <2>4, <3>2 DEF Moved
      <4>. QED BY <4>1 DEF JobOk
    <3>. QED BY <3>1, <3>2 DEF JobInv
  <2>9. QueuedOrDecided'
    BY <1>0, <1>19, <2>1, <2>3, <2>5 DEF QueueInv, QueuedOrDecided, Finalize
  <2>10. OutcomeIsReal'
    BY <1>19, <2>1, <2>5 DEF QueueInv, OutcomeIsReal, Finalize
  <2>. QED BY <1>19, <2>6, <2>7, <2>8, <2>9, <2>10 DEF QueueInv, Finalize
<1>. QED
  BY <1>1, <1>2, <1>3, <1>4, <1>5, <1>6, <1>7, <1>8, <1>9, <1>10, <1>11, <1>12, <1>13,
     <1>14, <1>15, <1>16, <1>17, <1>18, <1>19 DEF SupProgress

-----------------------------------------------------------------------------
(* The service.                                                            *)

LEMMA InvariantParts ==
  ServiceInv <=> BootInv /\ QueueInv
BY DEF ServiceInv, TypeOK, BootInv, QueueInv

\* A step of a supervisor or a publication leaves the schema as it is.
LEMMA BootByOthers ==
  ASSUME BootInv, UNCHANGED <<version, tables, columns, triggers, migrator, worker>>,
         faults' \in 0..MaxFaults, rows' = rows \/ rows' = "valid"
  PROVE  BootInv'
BY DEF BootInv, BootTypeOK, FlockInv, WorkerInv, WorkerOk, DatabaseInv,
       CurrentSchemaIsComplete, Complete

LEMMA SupervisorFaults == BootInv /\ SupNext => faults' \in 0..MaxFaults
BY WorkersAssumption
   DEF BootInv, BootTypeOK, SupNext, SupProgress, SupLock, SchemaFound, SupExit, Pick, Mark,
       MarkFails, Launch, LaunchFails, SeeExit, SeeStop, Deadline, Terminated, Finalize,
       FinalizeFails, StopRequest, SupKilled, HookExits, HeartbeatFails, OrphanExits

LEMMA InvariantStep == ServiceInv /\ [Next]_vars => ServiceInv'
<1>. SUFFICES ASSUME BootInv, QueueInv, [Next]_vars PROVE BootInv' /\ QueueInv'
  BY DEF ServiceInv, TypeOK, BootInv, QueueInv
<1>1. CASE BootNext /\ UNCHANGED supVars
  BY <1>1, StepBoot, QueueByBoot
<1>2. CASE SupNext /\ UNCHANGED <<database, migrator, worker>>
  <2>1. UNCHANGED <<version, tables, columns, triggers, rows, migrator, worker>>
    BY <1>2 DEF database
  <2>. QED BY <1>2, <2>1, SupervisorFaults, BootByOthers, QueueBySupervisor
<1>3. CASE Publish
  <2>1. /\ UNCHANGED <<version, tables, columns, triggers, migrator, worker>>
        /\ faults' \in 0..MaxFaults /\ rows' = "valid"
    BY <1>3 DEF Publish, BootInv, BootTypeOK
  <2>. QED BY <1>3, <2>1, BootByOthers, QueueByPublish
<1>4. CASE UNCHANGED vars
  <2>1. BootInv'
    BY <1>4, BootByOthers DEF vars, bootVars, BootInv, BootTypeOK
  <2>2. QueueInv'
    BY <1>4 DEF vars, bootVars, supVars, QueueInv, SupTypeOK, SingletonInv, SingletonOk, JobInv,
                JobOk, Queued, QueuedOrDecided, OutcomeIsReal
  <2>. QED BY <2>1, <2>2
<1>. QED BY <1>1, <1>2, <1>3, <1>4 DEF Next

\* Types, flocks, schema, queue and outcomes are in order in every state,
\* whatever is killed, stopped or fails (database.py, backup_supervisor.py).
THEOREM ServiceInvariant == Spec => []ServiceInv
<1>1. Init => ServiceInv
  BY InitBoot, InitQueue, InvariantParts DEF Init
<1>. QED BY <1>1, InvariantStep, PTL DEF Spec

\* A database that says schema 5 has all of it (docs/ARCHITECTURE.md:102).
THEOREM SchemaIsComplete == Spec => []CurrentSchemaIsComplete
<1>1. ServiceInv => CurrentSchemaIsComplete
  BY DEF ServiceInv, DatabaseInv
<1>. QED BY ServiceInvariant, <1>1, PTL

\* Workers serve only what they understand (docs/MIGRATIONS.md:13-14).
THEOREM WorkersServeSchema5 == Spec => []ServesWhatItUnderstands
<1>1. ServiceInv => ServesWhatItUnderstands
  BY DEF ServiceInv, DatabaseInv, WorkerInv, WorkerOk, CurrentSchemaIsComplete,
         ServesWhatItUnderstands, SchemaVersion
<1>. QED BY ServiceInvariant, <1>1, PTL

\* Two hooks never run at once (docs/ARCHITECTURE.md:97).
THEOREM HooksRunOneAtATime == Spec => []OneHookAtATime
<1>1. ServiceInv => OneHookAtATime
  BY DEF ServiceInv, SingletonInv, SingletonOk, OneHookAtATime
<1>. QED BY ServiceInvariant, <1>1, PTL

\* The supervisor does nothing to a database that is not migrated.
THEOREM SupervisorWaitsForSchema == Spec => []WorksOnMigratedDatabase
<1>1. ServiceInv => WorksOnMigratedDatabase
  BY DEF ServiceInv, SingletonInv, SingletonOk, DatabaseInv, CurrentSchemaIsComplete,
         WorksOnMigratedDatabase
<1>. QED BY ServiceInvariant, <1>1, PTL

\* No backup is lost and none is decided twice (docs/API.md:260).
THEOREM NoBackupIsLost == Spec => []QueuedOrDecided
<1>1. ServiceInv => QueuedOrDecided
  BY DEF ServiceInv
<1>. QED BY ServiceInvariant, <1>1, PTL

\* An outcome that was recorded is what happened to the backup
\* (docs/ARCHITECTURE.md:93-95): only the exit of its hook, its launch that failed
\* or its deadline decides it, never a stop or a crash of the supervisor.
THEOREM OutcomesAreReal == Spec => []OutcomeIsReal
<1>1. ServiceInv => OutcomeIsReal
  BY DEF ServiceInv
<1>. QED BY ServiceInvariant, <1>1, PTL

\* What the status of the backup says is true (docs/API.md:256-262).
THEOREM StatusTellsTheTruth == Spec => []StatusIsHonest
<1>1. ServiceInv => StatusIsHonest
  <2>. SUFFICES ASSUME ServiceInv, NEW stale \in SUBSET Queued
                PROVE  LET state == BackupState(stale)
                       IN  /\ state = "completed" => head \in succeeded
                           /\ state = "failed" => head \in failed
                           /\ state = "unknown" => head \in stale \/ head \notin armed
    BY DEF StatusIsHonest
  <2>1. CASE head = 0 BY <2>1 DEF BackupState
  <2>2. CASE head # 0 /\ head \in Queued \ stale BY <2>2 DEF BackupState
  <2>3. CASE head # 0 /\ head \notin Queued \ stale /\ outcome[head] # "none"
    BY <2>3 DEF BackupState, ServiceInv, TypeOK, SupTypeOK, OutcomeIsReal, Versions
  <2>4. CASE head # 0 /\ head \notin Queued \ stale /\ outcome[head] = "none"
    BY <2>4 DEF BackupState, ServiceInv, TypeOK, SupTypeOK, QueuedOrDecided, Versions
  <2>. QED BY <2>1, <2>2, <2>3, <2>4
<1>. QED BY ServiceInvariant, <1>1, PTL

\* No version is lowered, nothing is dropped, and a newer database is left alone
\* (docs/MIGRATIONS.md:13).
THEOREM NothingIsDowngraded == Spec => NoDowngrade
<1>1. ServiceInv /\ [Next]_vars =>
        [/\ version > SchemaVersion => UNCHANGED <<database, ledger>>
         /\ version' >= version
         /\ tables \subseteq tables' /\ columns \subseteq columns']_vars
  <2>. SUFFICES ASSUME ServiceInv, Next
                PROVE  /\ version > SchemaVersion => UNCHANGED <<database, ledger>>
                       /\ version' >= version
                       /\ tables \subseteq tables' /\ columns \subseteq columns'
    OBVIOUS
  <2>. USE DEF database
  <2>1. version \in Nat /\ WorkerInv /\ SingletonInv
    BY DEF ServiceInv, TypeOK, BootTypeOK
  <2>2. CASE BootNext /\ UNCHANGED supVars
    <3>. PICK w \in Workers : BootProgress(w) \/ WorkerKilled(w) BY <2>2 DEF BootNext
    <3>1. WorkerOk(w) BY <2>1 DEF WorkerInv
    <3>2. UNCHANGED ledger BY <2>2 DEF supVars, ledger
    <3>3. CASE Migrate(w)
      <4>1. version <= SchemaVersion BY <3>1, <3>3 DEF Migrate, WorkerOk
      <4>2. version' = SchemaVersion /\ tables' = tables BY <3>3 DEF Migrate
      <4>3. columns \subseteq columns' BY <3>3 DEF Migrate
      <4>. QED BY <2>1, <4>1, <4>2, <4>3 DEF SchemaVersion
    <3>4. ASSUME NEW i \in 1..9, CreateTable(w, i)
          PROVE  /\ version' = version /\ version <= SchemaVersion
                 /\ tables \subseteq tables' /\ columns \subseteq columns'
      BY <3>1, <3>4 DEF CreateTable, WorkerOk
    <3>5. CASE UNCHANGED database
      BY <2>1, <3>2, <3>5
    <3>6. CASE BootLock(w) \/ BootOpen(w) \/ RefuseNewer(w) \/ ScriptEnds(w)
      <4>. UNCHANGED database
        BY <3>6 DEF BootLock, BootOpen, RefuseNewer, ScriptEnds, Refuse
      <4>. QED BY <3>5
    <3>7. CASE RefuseVersion1(w) \/ BootServe(w) \/ RefuseIdentity(w) \/ WorkerKilled(w)
      <4>. UNCHANGED database
        BY <3>7 DEF RefuseVersion1, BootServe, RefuseIdentity, WorkerKilled, Refuse
      <4>. QED BY <3>5
    <3>8. CASE \E i \in 1..9 : CreateTable(w, i)
      <4>. PICK i \in 1..9 : CreateTable(w, i) BY <3>8
      <4>. QED BY <2>1, <3>4 DEF SchemaVersion
    <3>. QED BY <3>3, <3>6, <3>7, <3>8 DEF BootProgress
  <2>3. CASE SupNext /\ UNCHANGED <<database, migrator, worker>>
    <3>1. version > SchemaVersion => UNCHANGED ledger
      BY <2>1, <2>3
         DEF SupNext, SupProgress, SupLock, SchemaFound, SupExit, Pick, Mark, MarkFails, Launch,
             LaunchFails, SeeExit, SeeStop, Deadline, Terminated, Finalize, FinalizeFails,
             StopRequest, SupKilled, HookExits, HeartbeatFails, OrphanExits, SingletonInv,
             SingletonOk, SchemaVersion
    <3>. QED BY <2>1, <2>3, <3>1
  <2>4. CASE Publish
    <3>1. version = SchemaVersion BY <2>1, <2>4 DEF Publish, WorkerInv, WorkerOk
    <3>. QED BY <2>1, <2>4, <3>1 DEF Publish, SchemaVersion
  <2>. QED BY <2>2, <2>3, <2>4 DEF Next
<1>. QED BY ServiceInvariant, <1>1, PTL DEF Spec, NoDowngrade
=============================================================================
