------------------------ MODULE MemoryReplicationProofs ------------------------
(* What TLAPS proves of MemoryReplication, for every number of vaults,     *)
(* concepts, memories, drain loops, attempts, faults and crashes.          *)
EXTENDS MemoryReplication, NumberLemmas, TLAPS

(* The ids of the table have a bound: what MAX(id) + 1 is taken over.      *)
IdsBounded == \E n \in Nat : \A k \in Queued : row[k].id <= n

(* Only memories that were written are being enqueued or fanned out.       *)
Begun ==
  /\ \A m \in Memory : asking[m] # {} => m <= Len(about)
  /\ \A f \in Copy : fan[f] # "none" => f[1] <= Len(about)

(* A loop holds snapshots of pending rows only: each had an attempt left   *)
(* when it was read, whatever its row has become since.                    *)
HasAttempt(e) == e.attempts < MaxAttempts

Sound(x) ==
  /\ \A e \in x.todo : HasAttempt(e)
  /\ x.pc \in {"write", "dequeue", "misled", "failed"} => HasAttempt(x.cur)

(* TypeOK, with its retry budget, is not inductive: the count a loop writes *)
(* back comes from its snapshot, the id of a new row from the whole table.  *)
TableInv ==
  /\ TypeOK
  /\ IdsBounded
  /\ Begun
  /\ \A d \in Drainer : Sound(drain[d])

(* What the statements on the table keep. *)
TableOK ==
  /\ row \in [Key -> Row \cup {NoRow}]
  /\ DeadIsSpent
  /\ IdsBounded
  /\ faults \in 0..MaxFaults

--------------------------------------------------------------------------------

(* A nonempty, bounded set of naturals has a largest element, and Max is it. *)
LEMMA MaxOfBounded ==
  ASSUME NEW S \in SUBSET Nat, S # {}, NEW b \in Nat, \A x \in S : x <= b
  PROVE  Max(S) \in S /\ \A x \in S : x <= Max(S)
  <1> DEFINE U == {n \in Nat : \A x \in S : x <= n}
  <1>1. PICK n \in U : \A m \in U : n <= m
    <2>1. U \in SUBSET Nat /\ U # {}
      OBVIOUS
    <2> HIDE DEF U
    <2> QED
      BY <2>1, LeastNat
  <1>2. n \in S
    <2> SUFFICES ASSUME n \notin S PROVE FALSE
      OBVIOUS
    <2>1. \A x \in S : x <= n - 1
      BY <1>1
    <2>2. n # 0
      <3>1. PICK x \in S : TRUE
        OBVIOUS
      <3>2. x \in Nat /\ x <= n /\ x # n
        BY <1>1, <3>1
      <3> QED
        BY <3>2
    <2>3. n - 1 \in U
      BY <1>1, <2>1, <2>2
    <2> QED
      BY <1>1, <2>3
  <1>3. \E x \in S : \A y \in S : x >= y
    BY <1>1, <1>2
  <1> QED
    BY <1>3 DEF Max

(* SQLite's next id is a positive integer above every id of the table. *)
LEMMA NextIdFresh ==
  ASSUME row \in [Key -> Row \cup {NoRow}], IdsBounded
  PROVE  NextId \in Nat \ {0} /\ \A k \in Queued : row[k].id < NextId
  <1> DEFINE S == {0} \cup {row[k].id : k \in Queued}
  <1>1. PICK b \in Nat : \A k \in Queued : row[k].id <= b
    BY DEF IdsBounded
  <1>2. \A k \in Queued : row[k].id \in Nat
    BY DEF Queued, Row
  <1>3. S \in SUBSET Nat /\ S # {} /\ \A x \in S : x <= b
    BY <1>1, <1>2
  <1>4. Max(S) \in S /\ \A x \in S : x <= Max(S)
    <2> HIDE DEF S
    <2> QED
      BY <1>3, MaxOfBounded
  <1>5. Max(S) \in Nat
    BY <1>3, <1>4
  <1> HIDE DEF S
  <1>6. NextId = 1 + Max(S)
    BY DEF NextId, S
  <1>7. \A k \in Queued : row[k].id \in S
    BY DEF S
  <1> QED
    BY <1>2, <1>4, <1>5, <1>6, <1>7

(* The record the upsert leaves: pending, or untouched, with its budget. *)
LEMMA UpsertedTyped ==
  ASSUME TableOK, NEW k \in Key
  PROVE  /\ Upserted(k) \in Row
         /\ Upserted(k).status = "dead" <=> Upserted(k).attempts = MaxAttempts
         /\ Upserted(k).id = IF row[k] = NoRow THEN NextId ELSE row[k].id
  <1>1. NextId \in Nat \ {0}
    BY NextIdFresh DEF TableOK
  <1>2. MaxAttempts \in Nat /\ MaxAttempts # 0
    BY ReplicationAssumption DEF ReplicationAssumption
  <1>3. CASE row[k] = NoRow
    <2>1. Upserted(k) = [status |-> "pending", id |-> NextId, attempts |-> 0,
                         due |-> FALSE, old |-> FALSE]
      BY <1>3 DEF Upserted, NoRow
    <2> QED
      BY <1>1, <1>2, <1>3, <2>1 DEF Row
  <1>4. CASE row[k] \in Row /\ row[k].status = "dead"
    <2>1. Upserted(k) = [row[k] EXCEPT !.status = "pending", !.attempts = 0, !.due = FALSE]
      BY <1>4 DEF Upserted
    <2>2. row[k] # NoRow
      BY <1>4 DEF NoRow
    <2>3. /\ Upserted(k) \in Row
          /\ Upserted(k).status = "pending"
          /\ Upserted(k).attempts = 0
          /\ Upserted(k).id = row[k].id
      <3>1. Upserted(k) = [status |-> "pending", id |-> row[k].id, attempts |-> 0,
                           due |-> FALSE, old |-> row[k].old]
        BY <1>4, <2>1 DEF Row
      <3>2. row[k].id \in Nat \ {0} /\ row[k].old \in BOOLEAN
        BY <1>4 DEF Row
      <3> QED
        BY <1>2, <3>1, <3>2 DEF Row
    <2> QED
      BY <1>2, <2>2, <2>3
  <1>5. CASE row[k] \in Row /\ row[k].status = "pending"
    <2>1. Upserted(k) = row[k]
      BY <1>5 DEF Upserted
    <2>2. row[k] # NoRow
      BY <1>5 DEF NoRow
    <2>3. k \in Queued
      BY <2>2 DEF Queued
    <2> QED
      BY <1>5, <2>1, <2>2, <2>3 DEF TableOK, DeadIsSpent
  <1> QED
    BY <1>3, <1>4, <1>5 DEF TableOK, Row

(* Any rewriting of the table keeps it sound when every row it leaves is   *)
(* well typed, within its budget and under some bound.                     *)
LEMMA TableRewritten ==
  ASSUME TableOK, NEW b \in Nat, row' \in [Key -> Row \cup {NoRow}],
         \A k \in Key : row'[k] # NoRow =>
           /\ row'[k].status = "dead" <=> row'[k].attempts = MaxAttempts
           /\ row'[k].id <= b,
         faults' \in 0..MaxFaults
  PROVE  TableOK'
  <1>1. DeadIsSpent'
    BY DEF DeadIsSpent, Queued
  <1>2. IdsBounded'
    BY DEF IdsBounded, Queued
  <1> QED
    BY <1>1, <1>2 DEF TableOK

(* A failed statement changes nothing but the count of failures. *)
LEMMA FaultTyped ==
  ASSUME faults \in 0..MaxFaults, Fault \/ UNCHANGED faults
  PROVE  faults' \in 0..MaxFaults
  BY ReplicationAssumption DEF Fault, ReplicationAssumption

(* A step that leaves the table alone leaves it sound. *)
LEMMA TableUntouched ==
  ASSUME TableOK, UNCHANGED row, Fault \/ UNCHANGED faults
  PROVE  TableOK'
  <1>1. faults' \in 0..MaxFaults
    BY FaultTyped DEF TableOK
  <1> QED
    BY <1>1 DEF TableOK, DeadIsSpent, IdsBounded, Queued

(* What is known of one row. *)
LEMMA RowFacts ==
  ASSUME TableOK, NEW k \in Key, row[k] # NoRow
  PROVE  /\ row[k] \in Row /\ k \in Queued
         /\ row[k].status = "dead" <=> row[k].attempts = MaxAttempts
  BY DEF TableOK, Queued, DeadIsSpent

(* enqueueRetry keeps the table sound and loses no row. *)
LEMMA EnqueueKeepsTable ==
  ASSUME TableOK, NEW k \in Key, EnqueueRetry(k)
  PROVE  TableOK' /\ \A j \in Key : row[j] # NoRow => row'[j] # NoRow
  <1>1. CASE UNCHANGED row
    BY <1>1, TableUntouched DEF EnqueueRetry
  <1>2. CASE row' = [row EXCEPT ![k] = Upserted(k)] /\ UNCHANGED faults
    <2> DEFINE u == Upserted(k)
    <2>1. /\ u \in Row
          /\ u.status = "dead" <=> u.attempts = MaxAttempts
          /\ u.id = IF row[k] = NoRow THEN NextId ELSE row[k].id
      BY UpsertedTyped
    <2>2. PICK n \in Nat : \A j \in Queued : row[j].id <= n
      BY DEF TableOK, IdsBounded
    <2>3. NextId \in Nat
      BY NextIdFresh DEF TableOK
    <2> DEFINE b == n + NextId
    <2>4. b \in Nat /\ n <= b /\ NextId <= b
      BY <2>3
    <2>5. u # NoRow
      BY <2>1 DEF Row, NoRow
    <2>6. u.id <= b
      <3>1. CASE row[k] = NoRow
        BY <2>1, <2>4, <3>1
      <3>2. CASE row[k] # NoRow
        <4>1. row[k].id \in Nat /\ row[k].id <= n
          BY <2>2, <3>2, RowFacts DEF Row
        <4> QED
          BY <2>1, <2>4, <3>2, <4>1
      <3> QED
        BY <3>1, <3>2
    <2> HIDE DEF b, u
    <2>7. row \in [Key -> Row \cup {NoRow}] /\ row' = [row EXCEPT ![k] = u]
      BY <1>2 DEF TableOK, u
    <2>8. row' \in [Key -> Row \cup {NoRow}]
      BY <2>1, <2>7
    <2>9. ASSUME NEW j \in Key, row'[j] # NoRow
          PROVE  /\ row'[j].status = "dead" <=> row'[j].attempts = MaxAttempts
                 /\ row'[j].id <= b
      <3>1. CASE j = k
        BY <2>1, <2>6, <2>7, <3>1 DEF u
      <3>2. CASE j # k
        <4>1. row'[j] = row[j]
          BY <2>7, <3>2
        <4>2. row[j].id \in Nat /\ row[j].id <= n
          BY <2>2, <2>9, <4>1, RowFacts DEF Row
        <4> QED
          BY <2>4, <2>9, <4>1, <4>2, RowFacts
      <3> QED
        BY <3>1, <3>2
    <2>10. faults' \in 0..MaxFaults
      BY <1>2 DEF TableOK
    <2>11. TableOK'
      BY <2>4, <2>8, <2>9, <2>10, TableRewritten
    <2> QED
      BY <2>5, <2>7, <2>11
  <1> QED
    BY <1>1, <1>2 DEF EnqueueRetry

(* A step that only removes rows, or rewrites them within the budget and   *)
(* under their own ids, keeps the table sound.                             *)
LEMMA TableShrinks ==
  ASSUME TableOK, row' \in [Key -> Row \cup {NoRow}], Fault \/ UNCHANGED faults,
         \A k \in Key : row'[k] # NoRow =>
           /\ row[k] # NoRow
           /\ row'[k].status = "dead" <=> row'[k].attempts = MaxAttempts
           /\ row'[k].id = row[k].id
  PROVE  TableOK'
  <1>1. PICK n \in Nat : \A j \in Queued : row[j].id <= n
    BY DEF TableOK, IdsBounded
  <1>2. \A k \in Key : row'[k] # NoRow => row'[k].id <= n
    BY <1>1 DEF Queued
  <1>3. faults' \in 0..MaxFaults
    BY FaultTyped DEF TableOK
  <1> QED
    BY <1>2, <1>3, TableRewritten

(* dequeue keeps the table sound and removes at most its own key. *)
LEMMA DequeueKeepsTable ==
  ASSUME TableOK, NEW k \in Key, Dequeue(k)
  PROVE  TableOK' /\ \A j \in Key : j # k => row'[j] = row[j]
  <1>1. CASE UNCHANGED row
    BY <1>1, TableUntouched DEF Dequeue
  <1>2. CASE row' = [row EXCEPT ![k] = NoRow] /\ UNCHANGED faults
    <2>1. row' \in [Key -> Row \cup {NoRow}]
      BY <1>2 DEF TableOK
    <2>2. \A j \in Key : row'[j] # NoRow => row'[j] = row[j]
      BY <1>2 DEF TableOK
    <2>3. TableOK'
      BY <1>2, <2>1, <2>2, RowFacts, TableShrinks
    <2> QED
      BY <1>2, <2>3 DEF TableOK
  <1> QED
    BY <1>1, <1>2 DEF Dequeue

(* RecordFailure's update from a snapshot with an attempt left keeps the   *)
(* table sound and loses no row.                                           *)
LEMMA FailureKeepsTable ==
  ASSUME TableOK, NEW e \in Taken, HasAttempt(e),
         \/ row' = [k \in Key |-> Failed(row[k], e)] /\ UNCHANGED faults
         \/ Fault /\ UNCHANGED row
  PROVE  TableOK' /\ \A j \in Key : row[j] # NoRow => row'[j] # NoRow
  <1>1. CASE UNCHANGED row
    BY <1>1, TableUntouched
  <1>2. CASE row' = [k \in Key |-> Failed(row[k], e)] /\ UNCHANGED faults
    <2>1. ASSUME NEW k \in Key
          PROVE  /\ row'[k] \in Row \cup {NoRow}
                 /\ row'[k] = NoRow <=> row[k] = NoRow
                 /\ row'[k] # NoRow =>
                      /\ row'[k].status = "dead" <=> row'[k].attempts = MaxAttempts
                      /\ row'[k].id = row[k].id
      <3>1. row'[k] = Failed(row[k], e)
        BY <1>2
      <3>2. CASE row[k] = NoRow \/ row[k].id # e.id
        BY <3>1, <3>2, RowFacts DEF Failed
      <3>3. CASE ~(row[k] = NoRow \/ row[k].id # e.id)
        <4> DEFINE r == row[k]
                   s == IF e.attempts + 1 >= MaxAttempts THEN "dead" ELSE "pending"
        <4>1. r \in Row
          BY <3>3, RowFacts
        <4>2. row'[k] = [r EXCEPT !.attempts = e.attempts + 1, !.status = s, !.due = FALSE]
          BY <3>1, <3>3 DEF Failed
        <4>3. row'[k] = [status |-> s, id |-> r.id, attempts |-> e.attempts + 1,
                         due |-> FALSE, old |-> r.old]
          BY <4>1, <4>2 DEF Row
        <4>4. e.attempts \in Nat /\ e.attempts < MaxAttempts /\ MaxAttempts \in Nat
          BY ReplicationAssumption DEF Taken, HasAttempt, ReplicationAssumption
        <4>5. r.id \in Nat \ {0} /\ r.old \in BOOLEAN
          BY <4>1 DEF Row
        <4>6. s \in {"pending", "dead"} /\ (s = "dead" <=> e.attempts + 1 = MaxAttempts)
          BY <4>4
        <4> HIDE DEF s, r
        <4>7. row'[k] \in Row
          BY <4>3, <4>4, <4>5, <4>6 DEF Row
        <4>8. row'[k] # NoRow
          BY <4>3, <4>6 DEF NoRow
        <4> QED
          BY <3>3, <4>3, <4>6, <4>7, <4>8 DEF r
      <3> QED
        BY <3>2, <3>3
    <2>2. row' \in [Key -> Row \cup {NoRow}]
      BY <1>2, <2>1
    <2> QED
      BY <1>2, <2>1, <2>2, TableShrinks
  <1> QED
    BY <1>1, <1>2

(* purgeDeadEntries keeps the table sound and removes old, dead rows only. *)
LEMMA PurgeKeepsTable ==
  ASSUME TableOK,
         \/ /\ row' = [k \in Key |-> IF row[k] # NoRow /\ row[k].status = "dead" /\ row[k].old
                                     THEN NoRow ELSE row[k]]
            /\ UNCHANGED faults
         \/ Fault /\ UNCHANGED row
  PROVE  /\ TableOK'
         /\ \A j \in Key : row'[j] = row[j] \/ (row[j].status = "dead" /\ row[j].old)
  <1>1. CASE UNCHANGED row
    BY <1>1, TableUntouched
  <1>2. CASE /\ row' = [k \in Key |-> IF row[k] # NoRow /\ row[k].status = "dead" /\ row[k].old
                                      THEN NoRow ELSE row[k]]
             /\ UNCHANGED faults
    <2>1. row' \in [Key -> Row \cup {NoRow}]
      BY <1>2 DEF TableOK
    <2>2. \A k \in Key : row'[k] # NoRow => row'[k] = row[k]
      BY <1>2
    <2>3. TableOK'
      BY <1>2, <2>1, <2>2, RowFacts, TableShrinks
    <2> QED
      BY <1>2, <2>3
  <1> QED
    BY <1>1, <1>2

(* The clock keeps the table sound. *)
LEMMA ClockKeepsTable ==
  ASSUME TableOK, NEW k \in Key, FallsDue(k) \/ GrowsOld(k)
  PROVE  TableOK' /\ \A j \in Key : row[j] # NoRow => row'[j] # NoRow
  <1>1. row[k] # NoRow
    BY DEF FallsDue, GrowsOld, NoRow
  <1>2. row[k] \in Row
    BY <1>1, RowFacts
  <1>3. PICK r \in Row : /\ row' = [row EXCEPT ![k] = r]
                         /\ r.status = row[k].status /\ r.attempts = row[k].attempts
                         /\ r.id = row[k].id
    <2>1. CASE FallsDue(k)
      <3> DEFINE r == [row[k] EXCEPT !.due = TRUE]
      <3>1. /\ r \in Row /\ r.status = row[k].status
            /\ r.attempts = row[k].attempts /\ r.id = row[k].id
        BY <1>2 DEF Row
      <3>2. row' = [row EXCEPT ![k] = r]
        BY <2>1 DEF FallsDue, TableOK
      <3> QED
        BY <3>1, <3>2
    <2>2. CASE GrowsOld(k)
      <3> DEFINE r == [row[k] EXCEPT !.old = TRUE]
      <3>1. /\ r \in Row /\ r.status = row[k].status
            /\ r.attempts = row[k].attempts /\ r.id = row[k].id
        BY <1>2 DEF Row
      <3>2. row' = [row EXCEPT ![k] = r]
        BY <2>2 DEF GrowsOld, TableOK
      <3> QED
        BY <3>1, <3>2
    <2> QED
      BY <2>1, <2>2
  <1>4. row' \in [Key -> Row \cup {NoRow}]
    BY <1>3 DEF TableOK
  <1>5. r # NoRow
    BY DEF Row, NoRow
  <1>6. \A j \in Key : row[j] # NoRow <=> row'[j] # NoRow
    BY <1>1, <1>3, <1>5 DEF TableOK
  <1>7. ASSUME NEW j \in Key, row'[j] # NoRow
        PROVE  /\ row'[j].status = "dead" <=> row'[j].attempts = MaxAttempts
               /\ row'[j].id = row[j].id
    <2>1. CASE j = k
      BY <1>1, <1>3, <2>1, RowFacts DEF TableOK
    <2>2. CASE j # k
      BY <1>3, <1>6, <1>7, <2>2, RowFacts DEF TableOK
    <2> QED
      BY <2>1, <2>2
  <1>8. UNCHANGED faults
    BY DEF FallsDue, GrowsOld
  <1> QED
    BY <1>4, <1>6, <1>7, <1>8, TableShrinks

--------------------------------------------------------------------------------

(* The statements on the table see a sound table. *)
LEMMA InvHasTable == TableInv => TableOK
  BY DEF TableInv, TypeOK, TableOK

(* A goroutine of fanOut works on a key of the table. *)
LEMMA KeyOfTyped ==
  ASSUME TableInv, NEW f \in Copy, fan[f] # "none"
  PROVE  KeyOf(f) \in Key
  <1>1. f[1] \in 1..Len(about) /\ f[2] \in Target
    BY DEF TableInv, Begun, Copy, Memory
  <1>2. about[f[1]] \in Concept
    BY <1>1 DEF TableInv, TypeOK
  <1> QED
    BY <1>1, <1>2 DEF KeyOf, Key

(* A loop at work on an entry holds a snapshot with an attempt left. *)
LEMMA BusyFacts ==
  ASSUME TableInv, NEW d \in Drainer, drain[d].pc \in {"write", "dequeue", "misled", "failed"}
  PROVE  /\ drain[d] \in [pc : {"write", "dequeue", "misled", "failed"}, todo : SUBSET Taken, cur : Taken]
         /\ drain[d].cur \in Taken /\ drain[d].cur.key \in Key
         /\ drain[d].todo \in SUBSET Taken
         /\ HasAttempt(drain[d].cur) /\ \A e \in drain[d].todo : HasAttempt(e)
  <1>1. drain[d] \in Drain /\ Sound(drain[d])
    BY DEF TableInv, TypeOK
  <1>2. drain[d] \in [pc : {"write", "dequeue", "misled", "failed"}, todo : SUBSET Taken, cur : Taken]
    BY <1>1 DEF Drain, Idle
  <1>3. drain[d].cur \in Taken /\ drain[d].todo \in SUBSET Taken
    BY <1>2
  <1>4. drain[d].cur.key \in Key
    BY <1>3 DEF Taken
  <1> QED
    BY <1>1, <1>2, <1>3, <1>4 DEF Sound

(* A loop between two entries has snapshots of what is left of its batch. *)
LEMMA NextFacts ==
  ASSUME TableInv, NEW d \in Drainer, drain[d].pc = "next"
  PROVE  /\ drain[d] \in [pc : {"next"}, todo : SUBSET Taken]
         /\ drain[d].todo \in SUBSET Taken
         /\ \A e \in drain[d].todo : e \in Taken /\ e.key \in Key /\ HasAttempt(e)
  <1>1. drain[d] \in Drain /\ Sound(drain[d])
    BY DEF TableInv, TypeOK
  <1>2. drain[d] \in [pc : {"next"}, todo : SUBSET Taken]
    BY <1>1 DEF Drain, Idle
  <1>3. drain[d].todo \in SUBSET Taken
    BY <1>2
  <1>4. \A e \in drain[d].todo : e \in Taken /\ e.key \in Key
    BY <1>3 DEF Taken
  <1> QED
    BY <1>1, <1>2, <1>3, <1>4 DEF Sound

(* The next entry is taken out of the batch. *)
LEMMA TurnTyped ==
  ASSUME TableInv, NEW d \in Drainer, drain[d].pc = "next", NEW e \in drain[d].todo,
         NEW next, next \in {"write", "dequeue", "misled", "failed"}, Turns(d, e, next)
  PROVE  LET x == [pc |-> next, todo |-> drain[d].todo \ {e}, cur |-> e]
         IN  x \in Drain /\ Sound(x) /\ drain' = [drain EXCEPT ![d] = x]
  <1>1. drain[d].todo \in SUBSET Taken /\ e \in Taken /\ HasAttempt(e)
        /\ \A g \in drain[d].todo : HasAttempt(g)
    BY NextFacts
  <1>2. drain \in [Drainer -> Drain]
    BY DEF TableInv, TypeOK
  <1> DEFINE x == [pc |-> next, todo |-> drain[d].todo \ {e}, cur |-> e]
  <1>3. x \in Drain
    BY <1>1 DEF Drain
  <1>4. Sound(x)
    BY <1>1 DEF Sound
  <1>5. drain' = [drain EXCEPT ![d] = x]
    BY <1>2 DEF Turns
  <1> QED
    BY <1>3, <1>4, <1>5

(* The loop is done with a call, or with the entry. *)
LEMMA AfterTyped ==
  ASSUME TableInv, NEW d \in Drainer, drain[d].pc \in {"write", "dequeue", "misled", "failed"},
         NEW next \in {"next", "dequeue", "misled", "failed"}
  PROVE  /\ After(d, next) \in Drain /\ Sound(After(d, next))
         /\ After(d, next).pc = next
         /\ next # "next" => After(d, next).cur = drain[d].cur
  <1>1. /\ drain[d] \in [pc : {"write", "dequeue", "misled", "failed"}, todo : SUBSET Taken, cur : Taken]
        /\ drain[d].cur \in Taken /\ drain[d].todo \in SUBSET Taken
        /\ HasAttempt(drain[d].cur) /\ \A e \in drain[d].todo : HasAttempt(e)
    BY BusyFacts
  <1>2. CASE next = "next"
    <2>1. After(d, next) = [pc |-> "next", todo |-> drain[d].todo]
      BY <1>2 DEF After
    <2>2. After(d, next) \in Drain
      BY <1>1, <2>1 DEF Drain
    <2>3. After(d, next).pc = "next" /\ After(d, next).todo = drain[d].todo
      BY <2>1
    <2> QED
      BY <1>1, <1>2, <2>2, <2>3 DEF Sound
  <1>3. CASE next # "next"
    <2>1. After(d, next) = [pc |-> next, todo |-> drain[d].todo, cur |-> drain[d].cur]
      BY <1>1, <1>3 DEF After
    <2>2. After(d, next) \in Drain
      BY <1>1, <1>3, <2>1 DEF Drain
    <2>3. /\ After(d, next).pc = next /\ After(d, next).todo = drain[d].todo
          /\ After(d, next).cur = drain[d].cur
      BY <2>1
    <2> QED
      BY <1>1, <2>2, <2>3 DEF Sound
  <1> QED
    BY <1>2, <1>3

(* The invariant, put together from the parts a step may disturb. *)
LEMMA InvFromParts ==
  ASSUME TableOK', vault' \in [Key -> Nat],
         about' \in Seq(Concept), Len(about') <= MaxMemories,
         asking' \in [Memory -> SUBSET Target], fan' \in [Copy -> FanPC],
         drain' \in [Drainer -> Drain], \A d \in Drainer : Sound(drain'[d]),
         up' \in BOOLEAN, crashes' \in 0..MaxCrashes, raced' \subseteq Key, Begun'
  PROVE  TableInv'
  BY DEF TableInv, TypeOK, TableOK

(* The queue starts empty, with nothing under way. *)
LEMMA TableInit == Init => TableInv
  <1> SUFFICES ASSUME Init PROVE TableInv
    OBVIOUS
  <1> USE DEF Init
  <1>1. Queued = {}
    BY DEF Queued
  <1>2. DeadIsSpent /\ IdsBounded
    BY <1>1 DEF DeadIsSpent, IdsBounded
  <1>3. Idle \in Drain /\ Sound(Idle)
    BY DEF Idle, Drain, Sound
  <1>4. drain \in [Drainer -> Drain] /\ \A d \in Drainer : Sound(drain[d])
    BY <1>3
  <1>5. Begun
    BY DEF Begun, Memory, Copy
  <1>6. about \in Seq(Concept) /\ Len(about) <= MaxMemories
    BY ReplicationAssumption DEF ReplicationAssumption
  <1>7. TypeOK
    BY <1>2, <1>4, <1>6, ReplicationAssumption DEF TypeOK, FanPC, ReplicationAssumption
  <1> QED
    BY <1>2, <1>4, <1>5, <1>7 DEF TableInv

(* Intercept's loop and the start of the goroutines keep the invariant. *)
LEMMA InterceptKeepsTable ==
  ASSUME TableInv,
         \/ \E c \in Concept : Intercept(c)
         \/ \E m \in Memory, t \in Target : EnqueueMember(m, t)
  PROVE  TableInv'
  <1> USE DEF TableInv, TypeOK
  <1>t. TableOK
    BY InvHasTable
  <1>1. ASSUME NEW c \in Concept, Intercept(c) PROVE TableInv'
    <2>1. Len(about) \in Nat /\ Len(about) + 1 \in Memory
      BY <1>1, ReplicationAssumption DEF Intercept, Memory, ReplicationAssumption
    <2>2. about' \in Seq(Concept) /\ Len(about') = Len(about) + 1
      BY <1>1 DEF Intercept
    <2>3. Len(about') <= MaxMemories
      BY <2>1, <2>2 DEF Memory
    <2>4. asking' \in [Memory -> SUBSET Target]
      BY <1>1 DEF Intercept
    <2>5. Begun'
      <3>1. \A m \in Memory : asking'[m] # {} => m <= Len(about')
        BY <1>1, <2>1, <2>2 DEF Begun, Intercept, Memory
      <3>2. \A f \in Copy : fan'[f] # "none" => f[1] <= Len(about')
        BY <1>1, <2>1, <2>2 DEF Begun, Intercept, Memory, Copy
      <3> QED
        BY <3>1, <3>2 DEF Begun
    <2>6. TableOK'
      BY <1>1, <1>t, TableUntouched DEF Intercept
    <2> QED
      BY <1>1, <2>2, <2>3, <2>4, <2>5, <2>6, InvFromParts DEF Intercept
  <1>2. ASSUME NEW m \in Memory, NEW t \in Target, EnqueueMember(m, t) PROVE TableInv'
    <2>1. m \in 1..Len(about) /\ about[m] \in Concept
      BY <1>2 DEF EnqueueMember, Begun, Memory
    <2>2. TableOK'
      BY <1>2, <1>t, <2>1, EnqueueKeepsTable DEF EnqueueMember, Key
    <2>3. asking' \in [Memory -> SUBSET Target] /\ \A n \in Memory : asking'[n] \subseteq asking[n]
      BY <1>2 DEF EnqueueMember
    <2>4. fan' \in [Copy -> FanPC] /\ \A f \in Copy : fan'[f] = fan[f] \/ f[1] = m
      BY <1>2 DEF EnqueueMember, FanPC
    <2>5. Begun'
      BY <1>2, <2>1, <2>3, <2>4 DEF EnqueueMember, Begun
    <2> QED
      BY <1>2, <2>2, <2>3, <2>4, <2>5, InvFromParts DEF EnqueueMember
  <1> QED
    BY <1>1, <1>2

(* A goroutine moves on, over a sound table. *)
LEMMA FanMoved ==
  ASSUME TableInv, NEW f \in Copy, fan[f] # "none", NEW next \in FanPC,
         fan' = [fan EXCEPT ![f] = next], TableOK',
         vault' \in [Key -> Nat], raced' \subseteq Key,
         UNCHANGED <<about, asking, drain, up, crashes>>
  PROVE  TableInv'
  <1>1. fan \in [Copy -> FanPC] /\ Begun
    BY DEF TableInv, TypeOK
  <1>2. fan' \in [Copy -> FanPC] /\ \A g \in Copy : fan'[g] # "none" => fan[g] # "none"
    BY <1>1
  <1>3. Begun'
    BY <1>1, <1>2 DEF Begun
  <1> QED
    BY <1>2, <1>3, InvFromParts DEF TableInv, TypeOK

(* A write to a vault keeps the vaults and the raced keys well typed. *)
LEMMA RememberTyped ==
  ASSUME TableInv, NEW k \in Key, NEW wrote \in BOOLEAN, NEW next, Remember(k, wrote, next)
  PROVE  vault' \in [Key -> Nat] /\ raced' \subseteq Key /\ next \in {"dequeue", "misled", "failed"}
  BY DEF TableInv, TypeOK, Remember

(* Every step of a goroutine of fanOut keeps the invariant. *)
LEMMA FanKeepsTable ==
  ASSUME TableInv, NEW f \in Copy, FanStep(f)
  PROVE  TableInv'
  <1>t. TableOK
    BY InvHasTable
  <1>n. fan[f] # "none"
    BY DEF FanStep, FanExpires, FanHasNoClient, FanFinds, FanWrites, FanDequeues, FanRequeues
  <1>k. KeyOf(f) \in Key
    BY <1>n, KeyOfTyped
  <1>v. vault \in [Key -> Nat] /\ raced \subseteq Key
    BY DEF TableInv, TypeOK
  <1>p. /\ "done" \in FanPC /\ "failed" \in FanPC
        /\ "write" \in FanPC /\ "dequeue" \in FanPC /\ "misled" \in FanPC
    BY DEF FanPC
  <1>1. CASE FanExpires(f) \/ FanRequeues(f)
    <2>1. TableOK'
      BY <1>1, <1>t, <1>k, EnqueueKeepsTable DEF FanExpires, FanRequeues
    <2> QED
      BY <1>1, <1>n, <1>v, <1>p, <2>1, FanMoved DEF FanExpires, FanRequeues
  <1>2. CASE FanHasNoClient(f)
    <2>1. TableOK'
      BY <1>2, <1>t, TableUntouched DEF FanHasNoClient
    <2> QED
      BY <1>2, <1>n, <1>v, <1>p, <2>1, FanMoved DEF FanHasNoClient
  <1>3. CASE FanDequeues(f)
    <2>1. TableOK'
      BY <1>3, <1>t, <1>k, DequeueKeepsTable DEF FanDequeues
    <2> QED
      BY <1>3, <1>n, <1>v, <1>p, <2>1, FanMoved DEF FanDequeues
  <1>4. CASE FanFinds(f)
    <2>1. PICK next \in {"write", "dequeue", "misled"} :
            FindByEntity(KeyOf(f), next) /\ fan' = [fan EXCEPT ![f] = next]
      BY <1>4 DEF FanFinds
    <2>2. (Fault \/ UNCHANGED faults) /\ raced' \subseteq Key
      BY <1>k, <1>v, <2>1 DEF FindByEntity
    <2>3. TableOK'
      BY <1>4, <1>t, <2>2, TableUntouched DEF FanFinds
    <2> QED
      BY <1>4, <1>n, <1>v, <1>p, <2>1, <2>2, <2>3, FanMoved DEF FanFinds
  <1>5. CASE FanWrites(f)
    <2>1. PICK wrote \in BOOLEAN, next \in {"dequeue", "misled", "failed"} :
            Remember(KeyOf(f), wrote, next) /\ fan' = [fan EXCEPT ![f] = next]
      BY <1>5 DEF FanWrites
    <2>2. vault' \in [Key -> Nat] /\ raced' \subseteq Key
      BY <1>k, <2>1, RememberTyped
    <2>3. TableOK'
      BY <1>5, <1>t, TableUntouched DEF FanWrites
    <2> QED
      BY <1>5, <1>n, <1>p, <2>1, <2>2, <2>3, FanMoved DEF FanWrites
  <1> QED
    BY <1>1, <1>2, <1>3, <1>4, <1>5 DEF FanStep

(* A drain loop moves on, over a sound table. *)
LEMMA DrainMoved ==
  ASSUME TableInv, NEW d \in Drainer, NEW x \in Drain, Sound(x),
         drain' = [drain EXCEPT ![d] = x], TableOK',
         vault' \in [Key -> Nat], raced' \subseteq Key,
         UNCHANGED <<about, asking, fan, up, crashes>>
  PROVE  TableInv'
  <1>1. drain \in [Drainer -> Drain] /\ \A e \in Drainer : Sound(drain[e])
    BY DEF TableInv, TypeOK
  <1>2. drain' \in [Drainer -> Drain] /\ \A e \in Drainer : Sound(drain'[e])
    BY <1>1
  <1>3. Begun'
    BY DEF TableInv, Begun
  <1> QED
    BY <1>2, <1>3, InvFromParts DEF TableInv, TypeOK

(* A batch is snapshots of due rows, which are pending: none is spent. *)
LEMMA BatchSound ==
  ASSUME TableInv, NEW batch \in SUBSET Due
  PROVE  LET x == [pc |-> "next", todo |-> {Snapshot(k) : k \in batch}]
         IN  x \in Drain /\ Sound(x)
  <1>1. ASSUME NEW k \in batch PROVE Snapshot(k) \in Taken /\ HasAttempt(Snapshot(k))
    <2>1. k \in Key /\ row[k] # NoRow /\ row[k].status = "pending"
      BY DEF Due, Queued
    <2>2. row[k] \in Row /\ row[k].attempts # MaxAttempts
      BY <2>1, InvHasTable, RowFacts
    <2>3. row[k].attempts \in 0..MaxAttempts /\ row[k].id \in Nat \ {0}
      BY <2>2 DEF Row
    <2>4. row[k].attempts < MaxAttempts
      BY <2>2, <2>3, ReplicationAssumption DEF ReplicationAssumption
    <2> QED
      BY <2>1, <2>3, <2>4 DEF Snapshot, Taken, HasAttempt
  <1> DEFINE S == {Snapshot(k) : k \in batch}
             x == [pc |-> "next", todo |-> S]
  <1>2. S \in SUBSET Taken /\ \A e \in S : HasAttempt(e)
    BY <1>1
  <1> HIDE DEF S
  <1>3. x \in Drain
    BY <1>2 DEF Drain
  <1>4. Sound(x)
    BY <1>2 DEF Sound
  <1> QED
    BY <1>3, <1>4 DEF S

(* Every step of a drain loop keeps the invariant. *)
LEMMA DrainKeepsTable ==
  ASSUME TableInv, NEW d \in Drainer, DrainStep(d)
  PROVE  TableInv'
  <1>t. TableOK
    BY InvHasTable
  <1>v. vault \in [Key -> Nat] /\ raced \subseteq Key
    BY DEF TableInv, TypeOK
  <1>1. CASE SelectBatch(d)
    <2>1. PICK batch \in SUBSET Due :
            drain' = [drain EXCEPT ![d] = [pc |-> "next", todo |-> {Snapshot(k) : k \in batch}]]
      BY <1>1 DEF SelectBatch
    <2>2. TableOK'
      BY <1>1, <1>t, TableUntouched DEF SelectBatch
    <2> QED
      BY <1>1, <1>v, <2>1, <2>2, BatchSound, DrainMoved DEF SelectBatch
  <1>2. CASE DrainHasNoClient(d)
    <2>1. PICK e \in drain[d].todo : Turns(d, e, "failed")
      BY <1>2 DEF DrainHasNoClient
    <2>2. TableOK'
      BY <1>2, <1>t, TableUntouched DEF DrainHasNoClient
    <2>3. drain[d].pc = "next"
      BY <1>2 DEF DrainHasNoClient
    <2> QED
      BY <1>2, <1>v, <2>1, <2>2, <2>3, TurnTyped, DrainMoved DEF DrainHasNoClient
  <1>3. CASE DrainFinds(d)
    <2>1. PICK e \in drain[d].todo, next \in {"write", "dequeue", "misled"} :
            FindByEntity(e.key, next) /\ Turns(d, e, next)
      BY <1>3 DEF DrainFinds
    <2>2. drain[d].pc = "next" /\ e.key \in Key
      BY <1>3, NextFacts DEF DrainFinds
    <2>3. (Fault \/ UNCHANGED faults) /\ raced' \subseteq Key
      BY <1>v, <2>1, <2>2 DEF FindByEntity
    <2>4. TableOK'
      BY <1>3, <1>t, <2>3, TableUntouched DEF DrainFinds
    <2> DEFINE x == [pc |-> next, todo |-> drain[d].todo \ {e}, cur |-> e]
    <2>5. x \in Drain /\ Sound(x) /\ drain' = [drain EXCEPT ![d] = x]
      <3>1. next \in {"write", "dequeue", "misled", "failed"} /\ Turns(d, e, next)
        BY <2>1
      <3> QED
        BY <2>2, <3>1, TurnTyped
    <2> HIDE DEF x
    <2> QED
      BY <1>3, <1>v, <2>3, <2>4, <2>5, DrainMoved DEF DrainFinds
  <1>4. CASE DrainWrites(d)
    <2>1. PICK wrote \in BOOLEAN, next \in {"dequeue", "misled", "failed"} :
            /\ Remember(drain[d].cur.key, wrote, next)
            /\ drain' = [drain EXCEPT ![d] = After(d, next)]
      BY <1>4 DEF DrainWrites
    <2>2. drain[d].pc \in {"write", "dequeue", "misled", "failed"} /\ drain[d].cur.key \in Key
      BY <1>4, BusyFacts DEF DrainWrites
    <2>3. vault' \in [Key -> Nat] /\ raced' \subseteq Key
      BY <2>1, <2>2, RememberTyped
    <2>4. After(d, next) \in Drain /\ Sound(After(d, next))
      BY <2>2, AfterTyped
    <2>5. TableOK'
      BY <1>4, <1>t, TableUntouched DEF DrainWrites
    <2> QED
      BY <1>4, <2>1, <2>3, <2>4, <2>5, DrainMoved DEF DrainWrites
  <1>5. CASE DrainDequeues(d)
    <2>1. drain[d].pc \in {"write", "dequeue", "misled", "failed"} /\ drain[d].cur.key \in Key
      BY <1>5, BusyFacts DEF DrainDequeues
    <2>2. After(d, "next") \in Drain /\ Sound(After(d, "next"))
      BY <2>1, AfterTyped
    <2>3. TableOK'
      BY <1>5, <1>t, <2>1, DequeueKeepsTable DEF DrainDequeues
    <2> QED
      BY <1>5, <1>v, <2>2, <2>3, DrainMoved DEF DrainDequeues
  <1>6. CASE RecordFailure(d)
    <2>1. /\ drain[d].pc \in {"write", "dequeue", "misled", "failed"}
          /\ drain[d].cur \in Taken /\ HasAttempt(drain[d].cur)
      BY <1>6, BusyFacts DEF RecordFailure
    <2>2. After(d, "next") \in Drain /\ Sound(After(d, "next"))
      BY <2>1, AfterTyped
    <2>3. TableOK'
      BY <1>6, <1>t, <2>1, FailureKeepsTable DEF RecordFailure
    <2> QED
      BY <1>6, <1>v, <2>2, <2>3, DrainMoved DEF RecordFailure
  <1>7. CASE Purge(d)
    <2>1. Idle \in Drain /\ Sound(Idle)
      BY DEF Idle, Drain, Sound
    <2>2. TableOK'
      BY <1>7, <1>t, PurgeKeepsTable DEF Purge
    <2> QED
      BY <1>7, <1>v, <2>1, <2>2, DrainMoved DEF Purge
  <1> QED
    BY <1>1, <1>2, <1>3, <1>4, <1>5, <1>6, <1>7 DEF DrainStep

(* The clock, a stop and a start of the process keep the invariant. *)
LEMMA OutsideKeepsTable ==
  ASSUME TableInv,
         \/ \E k \in Key : FallsDue(k) \/ GrowsOld(k)
         \/ Crash \/ Restart \/ UNCHANGED vars
  PROVE  TableInv'
  <1> USE DEF TableInv, TypeOK
  <1>t. TableOK
    BY InvHasTable
  <1>1. ASSUME NEW k \in Key, FallsDue(k) \/ GrowsOld(k) PROVE TableInv'
    <2>1. TableOK'
      BY <1>1, <1>t, ClockKeepsTable
    <2>2. UNCHANGED <<vault, about, asking, fan, drain, up, crashes, raced>>
      BY <1>1 DEF FallsDue, GrowsOld
    <2> QED
      BY <2>1, <2>2, InvFromParts DEF Begun
  <1>2. CASE Crash
    <2>1. TableOK'
      BY <1>2, <1>t, TableUntouched DEF Crash
    <2>2. /\ asking' \in [Memory -> SUBSET Target] /\ fan' \in [Copy -> FanPC]
          /\ \A m \in Memory : asking'[m] = {}
          /\ \A f \in Copy : fan'[f] # "none" => fan[f] # "none"
      BY <1>2 DEF Crash, FanPC
    <2>3. Idle \in Drain /\ Sound(Idle)
      BY DEF Idle, Drain, Sound
    <2>4. drain' \in [Drainer -> Drain] /\ \A d \in Drainer : Sound(drain'[d])
      BY <1>2, <2>3 DEF Crash
    <2>5. Begun'
      BY <1>2, <2>2 DEF Crash, Begun
    <2>6. crashes' \in 0..MaxCrashes
      BY <1>2, ReplicationAssumption DEF Crash, ReplicationAssumption
    <2> QED
      BY <1>2, <2>1, <2>2, <2>4, <2>5, <2>6, InvFromParts DEF Crash
  <1>3. CASE Restart
    <2>1. TableOK'
      BY <1>3, <1>t, TableUntouched DEF Restart
    <2> QED
      BY <1>3, <2>1, InvFromParts DEF Restart, Begun
  <1>4. CASE UNCHANGED vars
    <2>1. TableOK'
      BY <1>4, <1>t, TableUntouched DEF vars
    <2> QED
      BY <1>4, <2>1, InvFromParts DEF vars, Begun
  <1> QED
    BY <1>1, <1>2, <1>3, <1>4

(* Every step of the system keeps the invariant. *)
LEMMA TableNext == TableInv /\ [Next]_vars => TableInv'
  <1> SUFFICES ASSUME TableInv, [Next]_vars PROVE TableInv'
    OBVIOUS
  <1> QED
    BY InterceptKeepsTable, FanKeepsTable, DrainKeepsTable, OutsideKeepsTable DEF Next

(* The table, the vaults, the goroutines and the loops are well typed for  *)
(* ever, and a row is dead exactly when its retry budget is spent: through *)
(* upserts, revivals, updates from stale snapshots and ids given out again *)
(* (enqueueRetry, drainBatch and purgeDeadEntries of memory_replicator.go). *)
THEOREM ReplicationTyped == Spec => []TypeOK
  <1>1. TableInv => TypeOK
    BY DEF TableInv
  <1> QED
    BY <1>1, TableInit, TableNext, PTL DEF Spec

--------------------------------------------------------------------------------

(* A goroutine or a loop that is about to dequeue has seen the copy, or    *)
(* made it.                                                                *)
Delivered ==
  /\ \A f \in Copy : fan[f] = "dequeue" => vault[KeyOf(f)] > 0
  /\ \A d \in Drainer : drain[d].pc = "dequeue" => vault[drain[d].cur.key] > 0

(* OneCopyUnlessRaced is not inductive: it needs that what a look-up did   *)
(* not find is still not there while one writer is about to write it.      *)
WriteFinds ==
  \A k \in Key \ raced : vault[k] <= 1 /\ (Writing(k) # {} => vault[k] = 0)

CopyInv == TableInv /\ Delivered /\ WriteFinds

FanWriter(f, k) == fan[f] = "write" /\ KeyOf(f) = k
DrainWriter(d, k) == drain[d].pc = "write" /\ drain[d].cur.key = k

(* Who is about to write k, member by member. *)
LEMMA WritingIs ==
  ASSUME NEW k
  PROVE  /\ \A f : <<"fan", f>> \in Writing(k) <=> f \in Copy /\ FanWriter(f, k)
         /\ \A d : <<"drain", d>> \in Writing(k) <=> d \in Drainer /\ DrainWriter(d, k)
         /\ \A u \in Writing(k) : \/ \E f \in Copy : u = <<"fan", f>>
                                  \/ \E d \in Drainer : u = <<"drain", d>>
  BY DEF Writing, FanWriter, DrainWriter

(* The same after a step. *)
LEMMA WritingNextIs ==
  ASSUME NEW k
  PROVE  /\ \A f : <<"fan", f>> \in Writing(k)' <=> f \in Copy /\ FanWriter(f, k)'
         /\ \A d : <<"drain", d>> \in Writing(k)' <=> d \in Drainer /\ DrainWriter(d, k)'
         /\ \A u \in Writing(k)' : \/ \E f \in Copy : u = <<"fan", f>>
                                   \/ \E d \in Drainer : u = <<"drain", d>>
  BY DEF Writing, FanWriter, DrainWriter

(* The key of a goroutine that has begun is the same after a step that     *)
(* keeps, or adds to, the memories written.                                *)
LEMMA KeyOfKept ==
  ASSUME TableInv, NEW f \in Copy, fan[f] # "none",
         UNCHANGED about \/ \E c \in Concept : Intercept(c)
  PROVE  KeyOf(f)' = KeyOf(f) /\ KeyOf(f) \in Key
  <1>1. f[1] \in 1..Len(about) /\ f[2] \in Target /\ about \in Seq(Concept)
    BY DEF TableInv, TypeOK, Begun, Copy, Memory
  <1>2. about'[f[1]] = about[f[1]]
    BY <1>1 DEF Intercept
  <1> QED
    BY <1>2, KeyOfTyped DEF KeyOf

(* A step that makes no writer and no dequeuer, and leaves the vaults      *)
(* alone, keeps the invariant.                                             *)
LEMMA QuietStep ==
  ASSUME CopyInv, TableInv', UNCHANGED <<vault, raced>>,
         UNCHANGED about \/ \E c \in Concept : Intercept(c),
         \A f \in Copy : fan'[f] \in {"write", "dequeue"} => fan'[f] = fan[f],
         \A d \in Drainer : drain'[d].pc \in {"write", "dequeue"} => drain'[d] = drain[d]
  PROVE  CopyInv'
  <1>1. \A f \in Copy : fan'[f] \in {"write", "dequeue"} =>
                          fan'[f] = fan[f] /\ KeyOf(f)' = KeyOf(f)
    BY KeyOfKept DEF CopyInv
  <1>2. Delivered'
    BY <1>1 DEF CopyInv, Delivered
  <1>3. ASSUME NEW k PROVE Writing(k)' \subseteq Writing(k)
    <2>1. \A f \in Copy : FanWriter(f, k)' => FanWriter(f, k)
      BY <1>1 DEF FanWriter
    <2>2. \A d \in Drainer : DrainWriter(d, k)' => DrainWriter(d, k)
      BY DEF DrainWriter
    <2> QED
      BY <2>1, <2>2, WritingIs, WritingNextIs
  <1>4. WriteFinds'
    BY <1>3 DEF CopyInv, WriteFinds
  <1> QED
    BY <1>2, <1>4 DEF CopyInv

(* A look-up that does not find k, or fails, makes one writer more.        *)
LEMMA LookUp ==
  ASSUME CopyInv, NEW k \in Key, NEW next, NEW self, FindByEntity(k, next), UNCHANGED vault,
         \A j \in Key : Writing(j)' \subseteq Writing(j) \cup {self},
         \A j \in Key : next # "write" \/ j # k => Writing(j)' \subseteq Writing(j)
  PROVE  WriteFinds' /\ (next = "dequeue" => vault[k] > 0)
  <1>1. vault \in [Key -> Nat]
    BY DEF CopyInv, TableInv, TypeOK
  <1>2. raced \subseteq raced'
    BY DEF FindByEntity
  <1>3. next = "dequeue" => vault[k] > 0
    BY DEF FindByEntity, Finds
  <1>4. next = "write" => vault[k] = 0 \/ k \in raced'
    BY <1>1 DEF FindByEntity, Finds
  <1>5. ASSUME NEW j \in Key \ raced' PROVE vault[j] <= 1 /\ (Writing(j)' # {} => vault[j] = 0)
    <2>1. vault[j] <= 1 /\ (Writing(j) # {} => vault[j] = 0)
      BY <1>2 DEF CopyInv, WriteFinds
    <2>2. CASE next = "write" /\ j = k
      BY <1>4, <2>1, <2>2
    <2>3. CASE next # "write" \/ j # k
      BY <2>1, <2>3
    <2> QED
      BY <2>2, <2>3
  <1> QED
    BY <1>3, <1>5 DEF WriteFinds

(* A write is the only one under way for its key, or the key is raced.     *)
LEMMA WriteUp ==
  ASSUME CopyInv, NEW k \in Key, NEW wrote \in BOOLEAN, NEW next, Remember(k, wrote, next),
         NEW self \in Writing(k), self \notin Writing(k)',
         \A j \in Key : Writing(j)' \subseteq Writing(j)
  PROVE  /\ WriteFinds'
         /\ next = "dequeue" => vault'[k] > 0
         /\ \A j \in Key : vault[j] > 0 => vault'[j] > 0
  <1>1. vault \in [Key -> Nat]
    BY DEF CopyInv, TableInv, TypeOK
  <1>2. raced \subseteq raced'
    BY DEF Remember
  <1>3. CASE ~wrote
    <2>1. UNCHANGED <<vault, raced>> /\ next \in {"misled", "failed"}
      BY <1>3 DEF Remember
    <2> QED
      BY <2>1 DEF CopyInv, WriteFinds
  <1>4. CASE wrote
    <2>1. vault' = [vault EXCEPT ![k] = @ + 1]
      BY <1>4 DEF Remember
    <2>2. vault'[k] = vault[k] + 1 /\ \A j \in Key : j # k => vault'[j] = vault[j]
      BY <1>1, <2>1
    <2>3. ASSUME NEW j \in Key \ raced'
          PROVE  vault'[j] <= 1 /\ (Writing(j)' # {} => vault'[j] = 0)
      <3>1. vault[j] <= 1 /\ (Writing(j) # {} => vault[j] = 0)
        BY <1>2 DEF CopyInv, WriteFinds
      <3>2. CASE j = k
        <4>1. \A u, v \in Writing(k) : u = v
          BY <1>4, <2>3, <3>2 DEF Remember, Overlap
        <4>2. Writing(k)' = {}
          BY <4>1
        <4>3. vault[k] = 0
          BY <3>1, <3>2
        <4> QED
          BY <2>2, <3>2, <4>2, <4>3
      <3>3. CASE j # k
        BY <2>2, <3>1, <3>3
      <3> QED
        BY <3>2, <3>3
    <2>4. vault'[k] > 0 /\ \A j \in Key : vault[j] > 0 => vault'[j] > 0
      BY <1>1, <2>2
    <2> QED
      BY <2>3, <2>4 DEF WriteFinds
  <1> QED
    BY <1>3, <1>4

(* Every step of a goroutine of fanOut keeps the invariant. *)
LEMMA FanKeepsCopies ==
  ASSUME CopyInv, NEW f \in Copy, FanStep(f)
  PROVE  CopyInv'
  <1>1. TableInv'
    BY FanKeepsTable DEF CopyInv
  <1>2. fan[f] # "none" /\ UNCHANGED <<about, drain>>
    BY DEF FanStep, FanExpires, FanHasNoClient, FanFinds, FanWrites, FanDequeues, FanRequeues
  <1>3. \A g \in Copy : fan[g] # "none" => KeyOf(g)' = KeyOf(g) /\ KeyOf(g) \in Key
    BY <1>2, KeyOfKept DEF CopyInv
  <1>4. fan \in [Copy -> FanPC] /\ vault \in [Key -> Nat]
    BY DEF CopyInv, TableInv, TypeOK
  <1>5. CASE FanExpires(f) \/ FanRequeues(f) \/ FanHasNoClient(f) \/ FanDequeues(f)
    BY <1>1, <1>2, <1>4, <1>5, QuietStep
       DEF FanExpires, FanRequeues, FanHasNoClient, FanDequeues
  <1>6. CASE FanFinds(f)
    <2>1. PICK next \in {"write", "dequeue", "misled"} :
            FindByEntity(KeyOf(f), next) /\ fan' = [fan EXCEPT ![f] = next]
      BY <1>6 DEF FanFinds
    <2>2. fan'[f] = next /\ \A g \in Copy : g # f => fan'[g] = fan[g]
      BY <1>4, <2>1
    <2>3. ASSUME NEW j \in Key
          PROVE  /\ Writing(j)' \subseteq Writing(j) \cup {<<"fan", f>>}
                 /\ next # "write" \/ j # KeyOf(f) => Writing(j)' \subseteq Writing(j)
      <3>1. \A g \in Copy : FanWriter(g, j)' =>
              FanWriter(g, j) \/ (g = f /\ next = "write" /\ j = KeyOf(f))
        BY <1>2, <1>3, <2>2 DEF FanWriter
      <3>2. \A d \in Drainer : DrainWriter(d, j)' => DrainWriter(d, j)
        BY <1>2 DEF DrainWriter
      <3> QED
        BY <3>1, <3>2, WritingIs, WritingNextIs
    <2>4. UNCHANGED vault
      BY <1>6 DEF FanFinds
    <2>5. WriteFinds' /\ (next = "dequeue" => vault[KeyOf(f)] > 0)
      BY <1>2, <1>3, <2>1, <2>3, <2>4, LookUp
    <2>6. Delivered'
      BY <1>2, <1>3, <2>2, <2>4, <2>5 DEF CopyInv, Delivered
    <2> QED
      BY <1>1, <2>5, <2>6 DEF CopyInv
  <1>7. CASE FanWrites(f)
    <2>1. PICK wrote \in BOOLEAN, next \in {"dequeue", "misled", "failed"} :
            Remember(KeyOf(f), wrote, next) /\ fan' = [fan EXCEPT ![f] = next]
      BY <1>7 DEF FanWrites
    <2>2. fan'[f] = next /\ \A g \in Copy : g # f => fan'[g] = fan[g]
      BY <1>4, <2>1
    <2>3. <<"fan", f>> \in Writing(KeyOf(f)) /\ <<"fan", f>> \notin Writing(KeyOf(f))'
      <3>1. FanWriter(f, KeyOf(f))
        BY <1>7 DEF FanWrites, FanWriter
      <3>2. ~FanWriter(f, KeyOf(f))'
        BY <2>2 DEF FanWriter
      <3> QED
        BY <1>3, <1>2, <2>2, <3>1, WritingIs, WritingNextIs DEF FanWriter
    <2>4. ASSUME NEW j \in Key PROVE Writing(j)' \subseteq Writing(j)
      <3>1. \A g \in Copy : FanWriter(g, j)' => FanWriter(g, j)
        BY <1>3, <2>2 DEF FanWriter
      <3>2. \A d \in Drainer : DrainWriter(d, j)' => DrainWriter(d, j)
        BY <1>2 DEF DrainWriter
      <3> QED
        BY <3>1, <3>2, WritingIs, WritingNextIs
    <2>5. /\ WriteFinds'
          /\ next = "dequeue" => vault'[KeyOf(f)] > 0
          /\ \A j \in Key : vault[j] > 0 => vault'[j] > 0
      BY <1>2, <1>3, <2>1, <2>3, <2>4, WriteUp
    <2>6. \A g \in Copy : fan'[g] = "dequeue" => vault'[KeyOf(g)'] > 0
      BY <1>2, <1>3, <2>2, <2>5 DEF CopyInv, Delivered
    <2>7. \A d \in Drainer : drain'[d].pc = "dequeue" => vault'[drain'[d].cur.key] > 0
      BY <1>2, <2>5, BusyFacts DEF CopyInv, Delivered
    <2> QED
      BY <1>1, <2>5, <2>6, <2>7 DEF CopyInv, Delivered
  <1> QED
    BY <1>5, <1>6, <1>7 DEF FanStep

(* Every step of a drain loop keeps the invariant. *)
LEMMA DrainKeepsCopies ==
  ASSUME CopyInv, NEW d \in Drainer, DrainStep(d)
  PROVE  CopyInv'
  <1>0. TableInv
    BY DEF CopyInv
  <1>1. TableInv'
    BY <1>0, DrainKeepsTable
  <1>2. UNCHANGED <<about, fan>>
    BY DEF DrainStep, SelectBatch, DrainHasNoClient, DrainFinds, DrainWrites, DrainDequeues,
           RecordFailure, Purge
  <1>3. \A g \in Copy : fan[g] # "none" => KeyOf(g)' = KeyOf(g) /\ KeyOf(g) \in Key
    BY <1>2, KeyOfKept DEF CopyInv
  <1>4. drain \in [Drainer -> Drain] /\ vault \in [Key -> Nat]
    BY DEF CopyInv, TableInv, TypeOK
  <1>5. ASSUME UNCHANGED <<vault, raced>>, NEW x, drain' = [drain EXCEPT ![d] = x],
               x.pc \notin {"write", "dequeue"}
        PROVE  CopyInv'
    BY <1>1, <1>2, <1>4, <1>5, QuietStep
  <1>6. CASE SelectBatch(d)
    BY <1>5, <1>6 DEF SelectBatch
  <1>7. CASE DrainHasNoClient(d)
    <2>1. PICK e \in drain[d].todo : Turns(d, e, "failed")
      BY <1>7 DEF DrainHasNoClient
    <2>2. drain[d].pc = "next"
      BY <1>7 DEF DrainHasNoClient
    <2> DEFINE x == [pc |-> "failed", todo |-> drain[d].todo \ {e}, cur |-> e]
    <2>3. drain' = [drain EXCEPT ![d] = x]
      BY <1>0, <2>1, <2>2, TurnTyped
    <2>4. x.pc = "failed" /\ UNCHANGED <<vault, raced>>
      BY <1>7 DEF DrainHasNoClient
    <2> HIDE DEF x
    <2> QED
      BY <1>5, <2>3, <2>4
  <1>8. CASE DrainDequeues(d) \/ RecordFailure(d)
    <2>1. drain[d].pc \in {"write", "dequeue", "misled", "failed"}
      BY <1>8 DEF DrainDequeues, RecordFailure
    <2>2. After(d, "next").pc = "next"
      BY <2>1, AfterTyped DEF CopyInv
    <2> QED
      BY <1>5, <1>8, <2>2 DEF DrainDequeues, RecordFailure
  <1>9. CASE Purge(d)
    BY <1>5, <1>9 DEF Purge, Idle
  <1>10. CASE DrainFinds(d)
    <2>1. PICK e \in drain[d].todo, next \in {"write", "dequeue", "misled"} :
            FindByEntity(e.key, next) /\ Turns(d, e, next)
      BY <1>10 DEF DrainFinds
    <2>2. drain[d].pc = "next" /\ e.key \in Key
      BY <1>10, NextFacts DEF DrainFinds, CopyInv
    <2> DEFINE x == [pc |-> next, todo |-> drain[d].todo \ {e}, cur |-> e]
    <2>3. x \in Drain /\ Sound(x) /\ drain' = [drain EXCEPT ![d] = x]
      <3>1. next \in {"write", "dequeue", "misled", "failed"} /\ Turns(d, e, next)
        BY <2>1
      <3> QED
        BY <1>0, <2>2, <3>1, TurnTyped
    <2>4. /\ drain'[d].pc = next /\ drain'[d].cur = e
          /\ \A c \in Drainer : c # d => drain'[c] = drain[c]
      BY <1>4, <2>3
    <2>5. ASSUME NEW j \in Key
          PROVE  /\ Writing(j)' \subseteq Writing(j) \cup {<<"drain", d>>}
                 /\ next # "write" \/ j # e.key => Writing(j)' \subseteq Writing(j)
      <3>1. \A g \in Copy : FanWriter(g, j)' => FanWriter(g, j)
        BY <1>2, <1>3 DEF FanWriter
      <3>2. \A c \in Drainer : DrainWriter(c, j)' =>
              DrainWriter(c, j) \/ (c = d /\ next = "write" /\ j = e.key)
        BY <2>4 DEF DrainWriter
      <3> QED
        BY <3>1, <3>2, WritingIs, WritingNextIs
    <2>6. UNCHANGED vault
      BY <1>10 DEF DrainFinds
    <2>7. WriteFinds' /\ (next = "dequeue" => vault[e.key] > 0)
      BY <2>1, <2>2, <2>5, <2>6, LookUp
    <2>8. \A f \in Copy : fan'[f] = "dequeue" => vault'[KeyOf(f)'] > 0
      BY <1>2, <1>3, <2>6 DEF CopyInv, Delivered
    <2>9. \A c \in Drainer : drain'[c].pc = "dequeue" => vault'[drain'[c].cur.key] > 0
      BY <2>4, <2>6, <2>7 DEF CopyInv, Delivered
    <2> QED
      BY <1>1, <2>7, <2>8, <2>9 DEF CopyInv, Delivered
  <1>11. CASE DrainWrites(d)
    <2>0. PICK k : k = drain[d].cur.key
      OBVIOUS
    <2>1. PICK wrote \in BOOLEAN, next \in {"dequeue", "misled", "failed"} :
            /\ Remember(k, wrote, next)
            /\ drain' = [drain EXCEPT ![d] = After(d, next)]
      BY <1>11, <2>0 DEF DrainWrites
    <2>2. drain[d].pc = "write" /\ k \in Key
      BY <1>11, <2>0, BusyFacts DEF DrainWrites, CopyInv
    <2>3. After(d, next).pc = next /\ After(d, next).cur = drain[d].cur
      BY <2>2, AfterTyped DEF CopyInv
    <2>4. /\ drain'[d].pc = next /\ drain'[d].cur = drain[d].cur
          /\ \A c \in Drainer : c # d => drain'[c] = drain[c]
      BY <1>4, <2>1, <2>3
    <2>5. <<"drain", d>> \in Writing(k) /\ <<"drain", d>> \notin Writing(k)'
      BY <2>0, <2>2, <2>4, WritingIs, WritingNextIs DEF DrainWriter
    <2>6. ASSUME NEW j \in Key PROVE Writing(j)' \subseteq Writing(j)
      <3>1. \A g \in Copy : FanWriter(g, j)' => FanWriter(g, j)
        BY <1>2, <1>3 DEF FanWriter
      <3>2. \A c \in Drainer : DrainWriter(c, j)' => DrainWriter(c, j)
        BY <2>4 DEF DrainWriter
      <3> QED
        BY <3>1, <3>2, WritingIs, WritingNextIs
    <2>7. /\ WriteFinds'
          /\ next = "dequeue" => vault'[k] > 0
          /\ \A j \in Key : vault[j] > 0 => vault'[j] > 0
      BY <2>1, <2>2, <2>5, <2>6, WriteUp
    <2>8. \A f \in Copy : fan'[f] = "dequeue" => vault'[KeyOf(f)'] > 0
      BY <1>2, <1>3, <2>7 DEF CopyInv, Delivered
    <2>9. \A c \in Drainer : drain'[c].pc = "dequeue" => vault'[drain'[c].cur.key] > 0
      BY <2>0, <2>4, <2>7, BusyFacts DEF CopyInv, Delivered
    <2> QED
      BY <1>1, <2>7, <2>8, <2>9 DEF CopyInv, Delivered
  <1> QED
    BY <1>6, <1>7, <1>8, <1>9, <1>10, <1>11 DEF DrainStep

(* No vault has a copy, and nobody is at work, when the process starts. *)
LEMMA CopyInit == Init => CopyInv
  <1> SUFFICES ASSUME Init PROVE CopyInv
    OBVIOUS
  <1>1. TableInv
    BY TableInit
  <1>2. Delivered
    BY DEF Init, Delivered, Idle
  <1>3. \A k \in Key : vault[k] = 0
    BY DEF Init
  <1> QED
    BY <1>1, <1>2, <1>3 DEF CopyInv, WriteFinds

(* Every step of the system keeps the invariant. *)
LEMMA CopyNext == CopyInv /\ [Next]_vars => CopyInv'
  <1> SUFFICES ASSUME CopyInv, [Next]_vars PROVE CopyInv'
    OBVIOUS
  <1>1. TableInv'
    BY TableNext DEF CopyInv
  <1>2. fan \in [Copy -> FanPC] /\ drain \in [Drainer -> Drain]
    BY DEF CopyInv, TableInv, TypeOK
  <1>3. ASSUME NEW c \in Concept, Intercept(c) PROVE CopyInv'
    BY <1>1, <1>3, QuietStep DEF Intercept
  <1>4. ASSUME NEW m \in Memory, NEW t \in Target, EnqueueMember(m, t) PROVE CopyInv'
    <2>1. \A f \in Copy : fan'[f] = fan[f] \/ fan'[f] = "wait"
      BY <1>2, <1>4 DEF EnqueueMember
    <2> QED
      BY <1>1, <1>4, <2>1, QuietStep DEF EnqueueMember
  <1>5. ASSUME NEW f \in Copy, FanStep(f) PROVE CopyInv'
    BY <1>5, FanKeepsCopies
  <1>6. ASSUME NEW d \in Drainer, DrainStep(d) PROVE CopyInv'
    BY <1>6, DrainKeepsCopies
  <1>7. ASSUME NEW k \in Key, FallsDue(k) \/ GrowsOld(k) PROVE CopyInv'
    BY <1>1, <1>7, QuietStep DEF FallsDue, GrowsOld
  <1>8. CASE Crash
    <2>1. /\ \A f \in Copy : fan'[f] \in {"none", "done"}
          /\ \A d \in Drainer : drain'[d].pc = "idle"
      BY <1>8 DEF Crash, Idle
    <2> QED
      BY <1>1, <1>8, <2>1, QuietStep DEF Crash
  <1>9. CASE Restart
    BY <1>1, <1>9, QuietStep DEF Restart
  <1>10. CASE UNCHANGED vars
    BY <1>1, <1>10, QuietStep DEF vars
  <1> QED
    BY <1>3, <1>4, <1>5, <1>6, <1>7, <1>8, <1>9, <1>10 DEF Next

(* A vault gets a second copy of a concept only where two writers were     *)
(* between look-up and write at once, or a look-up failed: retries, lost   *)
(* answers, restarts and stale batches alone never make one (replicateTo,  *)
(* memory_replicator.go:356).                                              *)
THEOREM ReplicatedOnce == Spec => []OneCopyUnlessRaced
  <1>1. CopyInv => OneCopyUnlessRaced
    <2> SUFFICES ASSUME CopyInv, NEW k \in Key, vault[k] > 1 PROVE k \in raced
      BY DEF OneCopyUnlessRaced
    <2>1. vault[k] \in Nat
      BY DEF CopyInv, TableInv, TypeOK
    <2> QED
      BY <2>1 DEF CopyInv, WriteFinds
  <1> QED
    BY <1>1, CopyInit, CopyNext, PTL DEF Spec

(* What one step may take out of the table. *)
Leaves ==
  \A k \in Key :
    (row[k] # NoRow /\ row'[k] = NoRow)
      => \/ vault[k] > 0
         \/ row[k].status = "dead" /\ row[k].old
         \/ \E w \in MisledOn(k) : w \notin MisledOn(k)'

(* A goroutine or a loop that was misled about k and is no longer. *)
LEMMA MisledLeaves ==
  ASSUME NEW k
  PROVE  /\ \A f \in Copy : fan[f] = "misled" /\ KeyOf(f) = k /\ fan'[f] # "misled"
              => \E w \in MisledOn(k) : w \notin MisledOn(k)'
         /\ \A d \in Drainer : drain[d].pc = "misled" /\ drain[d].cur.key = k
                                /\ drain'[d].pc # "misled"
              => \E w \in MisledOn(k) : w \notin MisledOn(k)'
  <1>1. ASSUME NEW f \in Copy, fan[f] = "misled", KeyOf(f) = k, fan'[f] # "misled"
        PROVE  <<"fan", f>> \in MisledOn(k) /\ <<"fan", f>> \notin MisledOn(k)'
    BY <1>1 DEF MisledOn
  <1>2. ASSUME NEW d \in Drainer, drain[d].pc = "misled", drain[d].cur.key = k,
               drain'[d].pc # "misled"
        PROVE  <<"drain", d>> \in MisledOn(k) /\ <<"drain", d>> \notin MisledOn(k)'
    BY <1>2 DEF MisledOn
  <1> QED
    BY <1>1, <1>2

(* A step that loses no row leaves nothing unanswered. *)
LEMMA KeepsRows ==
  ASSUME \A j \in Key : row[j] # NoRow => row'[j] # NoRow
  PROVE  Leaves
  BY DEF Leaves

(* Only dequeue, behind a copy in the vault or an answer that misled, and  *)
(* the purge remove rows.                                                  *)
LEMMA LeavesNext == CopyInv /\ [Next]_vars => Leaves
  <1> SUFFICES ASSUME CopyInv, [Next]_vars PROVE Leaves
    OBVIOUS
  <1>0. TableInv
    BY DEF CopyInv
  <1>t. TableOK
    BY <1>0, InvHasTable
  <1>1. CASE UNCHANGED row
    BY <1>1, KeepsRows
  <1>2. ASSUME NEW m \in Memory, NEW t \in Target, EnqueueMember(m, t) PROVE Leaves
    <2>1. m \in 1..Len(about) /\ about \in Seq(Concept)
      BY <1>0, <1>2 DEF EnqueueMember, TableInv, TypeOK, Begun, Memory
    <2>2. <<t, about[m]>> \in Key
      BY <2>1 DEF Key
    <2> QED
      BY <1>2, <1>t, <2>2, EnqueueKeepsTable, KeepsRows DEF EnqueueMember
  <1>3. ASSUME NEW f \in Copy, FanStep(f) PROVE Leaves
    <2>1. fan[f] # "none"
      BY <1>3 DEF FanStep, FanExpires, FanHasNoClient, FanFinds, FanWrites, FanDequeues,
                  FanRequeues
    <2>2. KeyOf(f) \in Key
      BY <1>0, <2>1, KeyOfTyped
    <2>3. CASE FanExpires(f) \/ FanRequeues(f)
      BY <1>t, <2>2, <2>3, EnqueueKeepsTable, KeepsRows DEF FanExpires, FanRequeues
    <2>4. CASE FanDequeues(f)
      <3>1. fan \in [Copy -> FanPC]
        BY <1>0 DEF TableInv, TypeOK
      <3>2. fan'[f] # "misled"
        BY <2>4, <3>1 DEF FanDequeues
      <3>3. ASSUME NEW k, k = KeyOf(f)
            PROVE  vault[k] > 0 \/ \E w \in MisledOn(k) : w \notin MisledOn(k)'
        <4>1. CASE fan[f] = "dequeue"
          BY <3>3, <4>1 DEF CopyInv, Delivered
        <4>2. CASE fan[f] = "misled"
          BY <3>2, <3>3, <4>2, MisledLeaves
        <4> QED
          BY <2>4, <4>1, <4>2 DEF FanDequeues
      <3>4. \A j \in Key : j # KeyOf(f) => row'[j] = row[j]
        BY <1>t, <2>2, <2>4, DequeueKeepsTable DEF FanDequeues
      <3> QED
        BY <2>2, <3>3, <3>4 DEF Leaves
    <2>5. CASE FanHasNoClient(f) \/ FanFinds(f) \/ FanWrites(f)
      BY <1>1, <2>5 DEF FanHasNoClient, FanFinds, FanWrites
    <2> QED
      BY <1>3, <2>3, <2>4, <2>5 DEF FanStep
  <1>4. ASSUME NEW d \in Drainer, DrainStep(d) PROVE Leaves
    <2>1. CASE DrainDequeues(d)
      <3>1. drain[d].cur.key \in Key
        BY <1>0, <2>1, BusyFacts DEF DrainDequeues
      <3>2. drain'[d].pc # "misled"
        <4>1. After(d, "next").pc = "next"
          BY <1>0, <2>1, AfterTyped DEF DrainDequeues
        <4> QED
          BY <1>0, <2>1, <4>1 DEF DrainDequeues, TableInv, TypeOK
      <3>3. ASSUME NEW k, k = drain[d].cur.key
            PROVE  vault[k] > 0 \/ \E w \in MisledOn(k) : w \notin MisledOn(k)'
        <4>1. CASE drain[d].pc = "dequeue"
          BY <3>3, <4>1 DEF CopyInv, Delivered
        <4>2. CASE drain[d].pc = "misled"
          BY <3>2, <3>3, <4>2, MisledLeaves
        <4> QED
          BY <2>1, <4>1, <4>2 DEF DrainDequeues
      <3>4. \A j \in Key : j # drain[d].cur.key => row'[j] = row[j]
        BY <1>t, <2>1, <3>1, DequeueKeepsTable DEF DrainDequeues
      <3> QED
        BY <3>1, <3>3, <3>4 DEF Leaves
    <2>2. CASE RecordFailure(d)
      <3>1. drain[d].cur \in Taken /\ HasAttempt(drain[d].cur)
        BY <1>0, <2>2, BusyFacts DEF RecordFailure
      <3> QED
        BY <1>t, <2>2, <3>1, FailureKeepsTable, KeepsRows DEF RecordFailure
    <2>3. CASE Purge(d)
      BY <1>t, <2>3, PurgeKeepsTable DEF Purge, Leaves
    <2>4. CASE SelectBatch(d) \/ DrainHasNoClient(d) \/ DrainFinds(d) \/ DrainWrites(d)
      BY <1>1, <2>4 DEF SelectBatch, DrainHasNoClient, DrainFinds, DrainWrites
    <2> QED
      BY <1>4, <2>1, <2>2, <2>3, <2>4 DEF DrainStep
  <1>5. ASSUME NEW k \in Key, FallsDue(k) \/ GrowsOld(k) PROVE Leaves
    BY <1>5, <1>t, ClockKeepsTable, KeepsRows
  <1>6. ASSUME NEW c \in Concept, Intercept(c) PROVE Leaves
    BY <1>1, <1>6 DEF Intercept
  <1>7. CASE Crash \/ Restart \/ UNCHANGED vars
    BY <1>1, <1>7 DEF Crash, Restart, vars
  <1> QED
    BY <1>2, <1>3, <1>4, <1>5, <1>6, <1>7 DEF Next

(* A row leaves the table only behind a copy in the vault, as an old dead  *)
(* row, or by a goroutine that took a text of the vault for success:       *)
(* neither a failed call, a failed statement, a stop nor the overlap of    *)
(* the two loops and the goroutines drops a queued memory (dequeue and     *)
(* purgeDeadEntries, memory_replicator.go:441 and 562).                    *)
THEOREM RowsLeaveAnswered == Spec => LeavesAnsweredOrExpired
  <1>1. CopyInv /\ [Next]_vars => [Leaves]_vars
    BY LeavesNext
  <1>2. Spec => [][Leaves]_vars
    BY <1>1, CopyInit, CopyNext, PTL DEF Spec
  <1> QED
    BY <1>2 DEF Leaves, LeavesAnsweredOrExpired

================================================================================
