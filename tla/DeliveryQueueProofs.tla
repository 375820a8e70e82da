------------------------ MODULE DeliveryQueueProofs ------------------------
(* What TLAPS proves of DeliveryQueue, for every queue. *)
EXTENDS DeliveryQueue, FiniteSetTheorems, TLAPS

(* A health record whose circuit is open exactly when its failures say so. *)
Sound(h) == h.circuit = "open" <=> h.fails >= circuitBreakThreshold

(* CircuitMatchesFailures alone is not inductive: the record a sweep       *)
(* writes back is computed from the copy it holds.                         *)
CircuitInv ==
  /\ TypeOK
  /\ \A k \in Key : Sound(health[k])
  /\ \A w \in Worker : Sound(sweep[w].copy)

SweepType == [pc : SweepPC, todo : SUBSET (Entry \X Nat), entry : Entry,
              count : Nat, copy : Health, cut : BOOLEAN]

RowType == [status : RowStatus \cup {"none", "gone"}, count : Nat, due : BOOLEAN]

(* The entry a resting worker is given is one of the queue's. *)
LEMMA AnyEntryIsEntry == AnyEntry \in Entry
  BY DeliveryQueueAssumption DEF AnyEntry, DeliveryQueueAssumption

(* A missing endpoint_health row reads as a sound record. *)
LEMMA HealthyIsSound == Healthy \in Health /\ Sound(Healthy)
  BY DeliveryQueueAssumption DEF Healthy, Health, Sound, DeliveryQueueAssumption

(* last_probe_at plays no part in whether a record is sound. *)
LEMMA AgingIsSound ==
  ASSUME NEW h \in Health, Sound(h)
  PROVE  [h EXCEPT !.fresh = FALSE] \in Health /\ Sound([h EXCEPT !.fresh = FALSE])
  <1>1. /\ [h EXCEPT !.fresh = FALSE].fails = h.fails
        /\ [h EXCEPT !.fresh = FALSE].circuit = h.circuit
    BY DEF Health
  <1>2. [h EXCEPT !.fresh = FALSE] \in Health
    BY DEF Health
  <1> QED
    BY <1>1, <1>2 DEF Sound

(* A worker at rest is well typed and holds a sound health copy. *)
LEMMA AtRestTyped ==
  ASSUME NEW p \in SweepPC
  PROVE  AtRest(p) \in SweepType /\ AtRest(p).copy = Healthy
  BY AnyEntryIsEntry, HealthyIsSound DEF AtRest, SweepType

(* So is a worker that is done with one entry of its list. *)
LEMMA DoneTyped ==
  ASSUME TypeOK, NEW w \in Worker, NEW p \in SweepPC
  PROVE  Done(w, p) \in SweepType /\ Done(w, p).copy = Healthy
  <1>1. sweep[w] \in SweepType
    BY DEF TypeOK, SweepType
  <1> QED
    BY <1>1, AtRestTyped DEF Done, SweepType, AtRest

(* UPDATE ... WHERE id = ? leaves a well-typed table. *)
LEMMA UpdateTyped ==
  ASSUME TypeOK, NEW e \in Entry, NEW r \in RowType
  PROVE  UpdateAttempt(e, r) \in [Entry -> RowType]
  <1>1. row \in [Entry -> RowType]
    BY DEF TypeOK, RowType
  <1> QED
    BY <1>1 DEF UpdateAttempt

(* A step that only moves one worker on keeps the invariant when the       *)
(* worker's new record is well typed and its health copy sound.            *)
LEMMA SweepReplaced ==
  ASSUME CircuitInv, NEW w \in Worker, NEW new \in SweepType, Sound(new.copy),
         sweep' = [sweep EXCEPT ![w] = new], UNCHANGED <<row, health, inbox, crashes>>
  PROVE  CircuitInv'
  <1>1. sweep \in [Worker -> SweepType]
    BY DEF CircuitInv, TypeOK, SweepType
  <1>2. sweep' \in [Worker -> SweepType] /\ \A v \in Worker : Sound(sweep'[v].copy)
    BY <1>1 DEF CircuitInv
  <1> QED
    BY <1>2 DEF CircuitInv, TypeOK, SweepType

(* The queue starts with every circuit closed and no failures on record. *)
LEMMA CircuitInit == Init => CircuitInv
  <1> SUFFICES ASSUME Init PROVE CircuitInv
    OBVIOUS
  <1>1. sweep \in [Worker -> SweepType] /\ \A w \in Worker : sweep[w].copy = Healthy
    BY AtRestTyped DEF Init, SweepPC
  <1>2. health \in [Key -> Health] /\ \A k \in Key : health[k] = Healthy
    BY HealthyIsSound DEF Init
  <1>3. row \in [Entry -> [status : RowStatus \cup {"none", "gone"}, count : Nat, due : BOOLEAN]]
    BY DEF Init
  <1>4. crashes \in 0..MaxCrashes /\ inbox \subseteq Entry
    BY DeliveryQueueAssumption DEF Init, DeliveryQueueAssumption
  <1> QED
    BY <1>1, <1>2, <1>3, <1>4, HealthyIsSound DEF CircuitInv, TypeOK, SweepType

(* Every step of a forced retry or a sweep keeps the inductive invariant. *)
LEMMA SweepKeepsCircuit ==
  ASSUME CircuitInv, NEW w \in Worker, SweepStep(w)
  PROVE  CircuitInv'
  <1> USE DEF CircuitInv, TypeOK
  <1>e. sweep[w] \in SweepType /\ sweep[w].entry \in Entry /\ KeyOf[sweep[w].entry] \in Key
    BY DeliveryQueueAssumption DEF SweepType, DeliveryQueueAssumption
  <1>1. CASE ForceResets(w)
    <2>1. row' \in [Entry -> RowType]
      <3>1. row' = UpdateAttempt(sweep[w].entry,
                     [status |-> "pending", count |-> sweep[w].count, due |-> TRUE])
        BY <1>1 DEF ForceResets
      <3>2. [status |-> "pending", count |-> sweep[w].count, due |-> TRUE] \in RowType
        BY <1>e DEF RowStatus, Active, RowType, SweepType
      <3> QED
        BY <1>e, <3>1, <3>2, UpdateTyped
    <2>2. sweep' \in [Worker -> SweepType] /\ \A v \in Worker : sweep'[v].copy = sweep[v].copy
      BY <1>1, <1>e DEF ForceResets, SweepPC, SweepType
    <2> QED
      BY <1>1, <2>1, <2>2 DEF ForceResets, SweepType, RowType
  <1>2. CASE ForceInspects(w)
    <2> DEFINE h == health[KeyOf[sweep[w].entry]]
               new == IF h.circuit = "open" THEN [sweep[w] EXCEPT !.pc = "close", !.copy = h]
                      ELSE AtRest("list")
    <2>1. sweep' = [sweep EXCEPT ![w] = new]
      BY <1>2 DEF ForceInspects
    <2>2. h \in Health /\ Sound(h) /\ "list" \in SweepPC /\ "close" \in SweepPC
      BY <1>e DEF SweepPC
    <2>3. new \in SweepType /\ Sound(new.copy)
      <3>1. CASE h.circuit = "open"
        BY <1>e, <2>2, <3>1 DEF SweepType
      <3>2. CASE h.circuit # "open"
        BY <2>2, <3>2, AtRestTyped, HealthyIsSound
      <3> QED
        BY <3>1, <3>2
    <2>4. UNCHANGED <<row, health, inbox, crashes>>
      BY <1>2 DEF ForceInspects
    <2> HIDE DEF new
    <2> QED
      BY <2>1, <2>3, <2>4, SweepReplaced DEF SweepType
  <1>3. CASE ForceCloses(w)
    BY <1>3, <1>e, AtRestTyped, HealthyIsSound DEF ForceCloses, UpsertHealth, SweepPC, SweepType
  <1>4. CASE ListsDue(w)
    <2>1. ListDue \in SUBSET (Entry \X Nat)
      BY DEF ListDue
    <2> QED
      BY <1>4, <1>e, <2>1 DEF ListsDue, SweepPC, SweepType
  <1>5. CASE SweepEnds(w)
    BY <1>5, <1>e, AtRestTyped, HealthyIsSound DEF SweepEnds, SweepPC, SweepType
  <1>6. ASSUME NEW e \in Entry, NEW item \in sweep[w].todo, item[1] = e,
               Skips(w, e, item[2]) \/ Takes(w, e, item[2])
        PROVE  CircuitInv'
    <2>1. item[2] \in Nat /\ KeyOf[e] \in Key
      BY <1>e, DeliveryQueueAssumption DEF SweepType, DeliveryQueueAssumption
    <2>2. CASE Skips(w, e, item[2])
      BY <1>e, <2>2 DEF Skips, SweepPC, SweepType
    <2>3. CASE Takes(w, e, item[2])
      <3>1. sweep' \in [Worker -> SweepType]
        BY <1>e, <2>1, <2>3 DEF Takes, SweepPC, SweepType
      <3>2. ASSUME NEW v \in Worker
            PROVE  sweep'[v].copy = IF v = w THEN health[KeyOf[e]] ELSE sweep[v].copy
        BY <1>e, <2>3 DEF Takes, SweepType
      <3>3. \A v \in Worker : Sound(sweep'[v].copy)
        BY <2>1, <3>2
      <3> QED
        BY <2>3, <3>1, <3>3 DEF Takes, SweepType
    <2> QED
      BY <1>6, <2>2, <2>3
  <1>7. CASE DeliverySucceeds(w)
    BY <1>7, <1>e, HealthyIsSound DEF DeliverySucceeds, SweepPC, SweepType
  <1>8. CASE DeliveryFails(w)
    BY <1>8, <1>e DEF DeliveryFails, SweepPC, SweepType
  <1>9. CASE MarksDelivered(w)
    <2>1. row' \in [Entry -> RowType]
      BY <1>9, <1>e DEF MarksDelivered, RowStatus, RowType
    <2>2. sweep' \in [Worker -> SweepType] /\ \A v \in Worker : sweep'[v].copy = sweep[v].copy
      BY <1>9, <1>e DEF MarksDelivered, SweepPC, SweepType
    <2> QED
      BY <1>9, <2>1, <2>2 DEF MarksDelivered, SweepType, RowType
  <1>10. CASE HealsEndpoint(w)
    BY <1>10, <1>e, DoneTyped, HealthyIsSound DEF HealsEndpoint, UpsertHealth, SweepPC, SweepType
  <1>11. CASE RecordsFailure(w)
    BY <1>11, <1>e, HealthyIsSound DEF RecordsFailure, UpsertHealth, SweepPC, SweepType, Health, Sound
  <1>12. CASE Reschedules(w)
    BY <1>12, <1>e, DoneTyped, HealthyIsSound
    DEF Reschedules, UpdateAttempt, SweepPC, RowStatus, Active, SweepType
  <1>13. CASE Exhausts(w)
    <2>1. row' \in [Entry -> RowType]
      <3> DEFINE e == sweep[w].entry
                 r == [row[e] EXCEPT !.status = "failed", !.count = sweep[w].count]
      <3>1. row' = UpdateAttempt(e, r)
        BY <1>13 DEF Exhausts
      <3>2. row[e] \in RowType /\ sweep[w].count \in Nat
        BY <1>e DEF RowType, SweepType
      <3>3. r \in RowType
        BY <3>2 DEF RowType, RowStatus
      <3> HIDE DEF r
      <3> QED
        BY <1>e, <3>1, <3>3, UpdateTyped
    <2>2. sweep' \in [Worker -> SweepType] /\ \A v \in Worker : sweep'[v].copy = sweep[v].copy
      BY <1>13, <1>e DEF Exhausts, UpdateAttempt, SweepPC, SweepType
    <2> QED
      BY <1>13, <2>1, <2>2 DEF Exhausts, UpdateAttempt, SweepType, RowType
  <1>14. CASE Escalates(w)
    BY <1>14, <1>e, DoneTyped, HealthyIsSound DEF Escalates, SweepPC, SweepType
  <1> QED
    BY <1>1, <1>2, <1>3, <1>4, <1>5, <1>6, <1>7, <1>8, <1>9, <1>10, <1>11, <1>12, <1>13,
       <1>14 DEF SweepStep

(* So does every other step. *)
LEMMA OthersKeepCircuit ==
  ASSUME CircuitInv, [Next]_vars, ~(\E w \in Worker : SweepStep(w))
  PROVE  CircuitInv'
  <1> USE DEF CircuitInv, TypeOK
  <1>1. ASSUME NEW e \in Entry, Enqueue(e) \/ Dismiss(e) \/ RetryComesDue(e)
        PROVE  CircuitInv'
    <2>1. CASE Enqueue(e)
      <3>1. row' \in [Entry -> RowType]
        <4>1. ASSUME NEW x \in Entry
              PROVE  SupersedeAndInsert(e)[x] \in RowType
          <5>1. row[x] \in RowType
            BY DEF RowType
          <5> QED
            BY <5>1 DEF SupersedeAndInsert, RowStatus, Active, RowType
        <4>2. SupersedeAndInsert(e) \in [Entry -> RowType]
          BY <4>1 DEF SupersedeAndInsert
        <4> QED
          BY <2>1, <4>2 DEF Enqueue
      <3> QED
        BY <2>1, <3>1 DEF Enqueue, RowType
    <2>2. CASE Dismiss(e) \/ RetryComesDue(e)
      <3>1. row' \in [Entry -> RowType]
        <4>1. CASE Dismiss(e)
          BY <4>1 DEF Dismiss, RowType
        <4>2. CASE RetryComesDue(e)
          <5>0. row[e] \in RowType
            BY <1>1 DEF RowType
          <5>1. [row[e] EXCEPT !.due = TRUE] \in RowType
            BY <5>0 DEF RowType
          <5> QED
            BY <4>2, <5>1 DEF RetryComesDue, RowType
        <4> QED
          BY <2>2, <4>1, <4>2
      <3> QED
        BY <2>2, <3>1 DEF Dismiss, RetryComesDue, RowType
    <2> QED
      BY <1>1, <2>1, <2>2
  <1>2. ASSUME NEW w \in Forced, NEW e \in Entry, ForceGets(w, e)
        PROVE  CircuitInv'
    <2>1. w \in Worker /\ sweep[w] \in SweepType /\ row[e].count \in Nat
      BY DEF Worker, SweepType
    <2>2. sweep' \in [Worker -> SweepType] /\ \A v \in Worker : sweep'[v].copy = sweep[v].copy
      BY <1>2, <2>1 DEF ForceGets, SweepPC, SweepType
    <2> QED
      BY <1>2, <2>2 DEF ForceGets, SweepType
  <1>3. ASSUME NEW w \in Forced, RequestEnds(w)
        PROVE  CircuitInv'
    <2>1. w \in Worker /\ sweep[w] \in SweepType /\ Sound(sweep[w].copy)
      BY DEF Worker, SweepType
    <2>2. [sweep[w] EXCEPT !.cut = TRUE] \in SweepType
      BY <2>1 DEF SweepType
    <2>3. [sweep[w] EXCEPT !.cut = TRUE].copy = sweep[w].copy
      BY <2>1 DEF SweepType
    <2>4. /\ sweep' = [sweep EXCEPT ![w] = [sweep[w] EXCEPT !.cut = TRUE]]
          /\ UNCHANGED <<row, health, inbox, crashes>>
      BY <1>3 DEF RequestEnds
    <2> QED
      BY <2>1, <2>2, <2>3, <2>4, SweepReplaced
  <1>4. CASE Ticks
    <2>1. Ticker \in Worker /\ sweep[Ticker] \in SweepType /\ Sound(sweep[Ticker].copy)
      BY DEF Worker, SweepType
    <2>2. [sweep[Ticker] EXCEPT !.pc = "list"] \in SweepType
      BY <2>1 DEF SweepType, SweepPC
    <2>3. [sweep[Ticker] EXCEPT !.pc = "list"].copy = sweep[Ticker].copy
      BY <2>1 DEF SweepType
    <2>4. /\ sweep' = [sweep EXCEPT ![Ticker] = [sweep[Ticker] EXCEPT !.pc = "list"]]
          /\ UNCHANGED <<row, health, inbox, crashes>>
      BY <1>4 DEF Ticks
    <2> QED
      BY <2>1, <2>2, <2>3, <2>4, SweepReplaced
  <1>5. ASSUME NEW k \in Key, ProbeWindowPasses(k)
        PROVE  CircuitInv'
    <2>1. health' \in [Key -> Health] /\ \A j \in Key : Sound(health'[j])
      <3>1. health' = [health EXCEPT ![k] = [health[k] EXCEPT !.fresh = FALSE]]
        BY <1>5 DEF ProbeWindowPasses
      <3>2. /\ [health[k] EXCEPT !.fresh = FALSE] \in Health
            /\ Sound([health[k] EXCEPT !.fresh = FALSE])
        BY AgingIsSound
      <3> QED
        BY <3>1, <3>2
    <2>2. ASSUME NEW w \in Worker
          PROVE  sweep'[w] \in SweepType /\ Sound(sweep'[w].copy)
      <3>1. sweep[w] \in SweepType /\ sweep[w].copy \in Health
        BY DEF SweepType
      <3>2. CASE KeyOf[sweep[w].entry] = k
        <4>1. /\ [sweep[w].copy EXCEPT !.fresh = FALSE] \in Health
              /\ Sound([sweep[w].copy EXCEPT !.fresh = FALSE])
          BY <3>1, AgingIsSound
        <4>2. sweep'[w] = [sweep[w] EXCEPT !.copy = [sweep[w].copy EXCEPT !.fresh = FALSE]]
          BY <1>5, <3>2 DEF ProbeWindowPasses
        <4> QED
          BY <3>1, <4>1, <4>2 DEF SweepType
      <3>3. CASE KeyOf[sweep[w].entry] # k
        BY <1>5, <3>1, <3>3 DEF ProbeWindowPasses
      <3> QED
        BY <3>2, <3>3
    <2>3. sweep' \in [Worker -> SweepType]
      BY <1>5, <2>2 DEF ProbeWindowPasses
    <2> QED
      BY <1>5, <2>1, <2>2, <2>3 DEF ProbeWindowPasses, SweepType
  <1>6. CASE Restart
    BY <1>6, AtRestTyped, HealthyIsSound, DeliveryQueueAssumption
    DEF Restart, SweepPC, SweepType, DeliveryQueueAssumption
  <1>7. CASE UNCHANGED vars
    BY <1>7 DEF vars
  <1> QED
    BY <1>1, <1>2, <1>3, <1>4, <1>5, <1>6, <1>7 DEF Next

(* The inductive invariant behind the theorems about circuits. *)
THEOREM CircuitInvHolds == Spec => []CircuitInv
  <1>1. CircuitInv /\ [Next]_vars => CircuitInv'
    BY SweepKeepsCircuit, OthersKeepCircuit
  <1> QED
    BY CircuitInit, <1>1, PTL DEF Spec

(* Rows, health records and sweeps keep their types: no statement of the   *)
(* queue writes a status the tables' CHECK constraints refuse.             *)
THEOREM QueueTypeCorrect == Spec => []TypeOK
  BY CircuitInvHolds, PTL DEF CircuitInv

(* However many sweeps and forced retries read and write endpoint_health   *)
(* without a lock, a circuit is open exactly while circuitBreakThreshold   *)
(* failures are on record.                                                 *)
THEOREM CircuitIsSound == Spec => []CircuitMatchesFailures
  <1>1. CircuitInv => CircuitMatchesFailures
    BY DEF CircuitInv, CircuitMatchesFailures, Sound
  <1> QED
    BY CircuitInvHolds, <1>1, PTL

-----------------------------------------------------------------------------
(* A queue whose only sweeper is the background worker. *)

(* The list the worker goes through names an entry once, none of them is   *)
(* delivered, and the one it has in hand is off the list: NoResend follows *)
(* only because all of this holds at every step of attemptDelivery.        *)
Busy == {"deliver", "sent", "heal", "unsent", "record", "escalate"}

Undelivered(e) == row[e].status # "delivered"

ListInv ==
  LET s == sweep[Ticker] IN
  /\ s.pc \in Busy \cup {"list", "next", "idle"}
  /\ \A item \in s.todo : Undelivered(item[1])
  /\ \A i, j \in s.todo : i[1] = j[1] => i = j
  /\ s.pc \in Busy => \A item \in s.todo : item[1] # s.entry
  /\ s.pc = "deliver" => Undelivered(s.entry)

(* Initially the worker's list is empty. *)
LEMMA ListInit == Init => ListInv
  BY DEF Init, ListInv, AtRest, Busy, Worker

(* A sweep of the background worker keeps its list accurate. *)
LEMMA SweepKeepsList ==
  ASSUME TypeOK, ListInv, SweepStep(Ticker)
  PROVE  ListInv'
  <1> USE DEF ListInv
  <1>e. /\ Ticker \in Worker /\ sweep[Ticker] \in SweepType
        /\ sweep[Ticker].entry \in Entry /\ sweep[Ticker].todo \subseteq Entry \X Nat
    BY DEF TypeOK, SweepType, Worker
  <1>r. row \in [Entry -> RowType]
    BY DEF TypeOK, RowType
  <1>1. CASE ForceResets(Ticker) \/ ForceInspects(Ticker) \/ ForceCloses(Ticker)
    BY <1>1 DEF ForceResets, UpdateAttempt, ForceInspects, ForceCloses, Busy
  <1>2. CASE ListsDue(Ticker)
    <2>1. \A item \in ListDue : Undelivered(item[1]) /\ item[2] = row[item[1]].count
      BY DEF ListDue, Due, Active, Undelivered
    <2>2. \A i, j \in ListDue : i[1] = j[1] => i = j
      BY <2>1 DEF ListDue
    <2>3. sweep'[Ticker].todo = ListDue /\ sweep'[Ticker].pc = "next" /\ row' = row
      BY <1>2, <1>e DEF ListsDue, SweepType, TypeOK
    <2> QED
      BY <2>1, <2>2, <2>3 DEF Busy, Undelivered
  <1>3. CASE SweepEnds(Ticker)
    BY <1>3, <1>e DEF SweepEnds, TypeOK, AtRest, Busy
  <1>4. ASSUME NEW e \in Entry, NEW item \in sweep[Ticker].todo, item[1] = e,
               Skips(Ticker, e, item[2]) \/ Takes(Ticker, e, item[2])
        PROVE  ListInv'
    <2>1. <<e, item[2]>> = item
      BY <1>4, <1>e
    <2>2. row' = row /\ sweep'[Ticker].todo = sweep[Ticker].todo \ {item}
      BY <1>4, <1>e, <2>1 DEF Skips, Takes, TypeOK, SweepType
    <2>3. CASE Skips(Ticker, e, item[2])
      BY <1>e, <2>2, <2>3 DEF Skips, TypeOK, Busy, Undelivered
    <2>4. CASE Takes(Ticker, e, item[2])
      <3>1. sweep'[Ticker].pc = "deliver" /\ sweep'[Ticker].entry = e
        BY <1>e, <2>4 DEF Takes, TypeOK, SweepType
      <3> QED
        BY <1>4, <2>2, <3>1 DEF Busy, Undelivered
    <2> QED
      BY <1>4, <2>3, <2>4
  <1>5. CASE DeliverySucceeds(Ticker) \/ DeliveryFails(Ticker)
    <2>1. /\ sweep'[Ticker].todo = sweep[Ticker].todo /\ row' = row
          /\ sweep'[Ticker].entry = sweep[Ticker].entry /\ sweep[Ticker].pc = "deliver"
          /\ sweep'[Ticker].pc \in {"sent", "unsent"}
      <3>1. CASE DeliverySucceeds(Ticker)
        BY <3>1, <1>e DEF DeliverySucceeds, TypeOK, SweepType
      <3>2. CASE DeliveryFails(Ticker)
        BY <3>2, <1>e DEF DeliveryFails, TypeOK, SweepType
      <3> QED
        BY <1>5, <3>1, <3>2
    <2> QED
      BY <2>1 DEF Busy, Undelivered
  <1>6. CASE MarksDelivered(Ticker)
    <2>1. /\ sweep'[Ticker].todo = sweep[Ticker].todo /\ sweep'[Ticker].pc = "heal"
          /\ sweep'[Ticker].entry = sweep[Ticker].entry
      BY <1>6, <1>e DEF MarksDelivered, TypeOK, SweepType
    <2>2. \A x \in Entry : x # sweep[Ticker].entry => row'[x] = row[x]
      BY <1>6, <1>e, <1>r DEF MarksDelivered
    <2>3. \A i \in sweep[Ticker].todo : i[1] \in Entry
      BY <1>e
    <2>4. sweep[Ticker].pc = "sent"
      BY <1>6 DEF MarksDelivered
    <2> QED
      BY <2>1, <2>2, <2>3, <2>4 DEF Busy, Undelivered
  <1>7. CASE HealsEndpoint(Ticker) \/ Escalates(Ticker)
    <2>1. /\ sweep'[Ticker].todo = sweep[Ticker].todo /\ sweep'[Ticker].pc = "next" /\ row' = row
      <3>1. CASE HealsEndpoint(Ticker)
        BY <3>1, <1>e DEF HealsEndpoint, UpsertHealth, Done, AtRest, TypeOK, SweepType
      <3>2. CASE Escalates(Ticker)
        BY <3>2, <1>e DEF Escalates, Done, AtRest, TypeOK, SweepType
      <3> QED
        BY <1>7, <3>1, <3>2
    <2> QED
      BY <2>1 DEF Busy, Undelivered
  <1>8. CASE RecordsFailure(Ticker)
    BY <1>8, <1>e DEF RecordsFailure, UpsertHealth, TypeOK, SweepType, Busy, Undelivered
  <1>9. CASE Reschedules(Ticker)
    <2>1. /\ sweep'[Ticker].todo = sweep[Ticker].todo /\ sweep'[Ticker].pc = "next"
      BY <1>9, <1>e DEF Reschedules, UpdateAttempt, Done, AtRest, TypeOK, SweepType
    <2>2. \A x \in Entry : Undelivered(x) => Undelivered(x)'
      BY <1>9, <1>e, <1>r DEF Reschedules, UpdateAttempt, Undelivered
    <2>3. \A i \in sweep[Ticker].todo : i[1] \in Entry
      BY <1>e
    <2> QED
      BY <2>1, <2>2, <2>3 DEF Busy
  <1>10. CASE Exhausts(Ticker)
    <2>1. /\ sweep'[Ticker].todo = sweep[Ticker].todo /\ sweep'[Ticker].pc = "escalate"
          /\ sweep'[Ticker].entry = sweep[Ticker].entry /\ sweep[Ticker].pc = "record"
      BY <1>10, <1>e DEF Exhausts, UpdateAttempt, TypeOK, SweepType
    <2>2. \A x \in Entry : Undelivered(x) => Undelivered(x)'
      BY <1>10, <1>e, <1>r DEF Exhausts, UpdateAttempt, Undelivered, RowType
    <2>3. \A i \in sweep[Ticker].todo : i[1] \in Entry
      BY <1>e
    <2> QED
      BY <2>1, <2>2, <2>3 DEF Busy
  <1> QED
    BY <1>1, <1>2, <1>3, <1>4, <1>5, <1>6, <1>7, <1>8, <1>9, <1>10 DEF SweepStep

(* So do the users, time and a restart, when nobody forces a retry. *)
LEMMA OthersKeepList ==
  ASSUME Forced = {}, TypeOK, ListInv, [Next]_vars, ~SweepStep(Ticker)
  PROVE  ListInv'
  <1> USE DEF ListInv
  <1>e. /\ Worker = {Ticker} /\ sweep[Ticker] \in SweepType
        /\ sweep[Ticker].entry \in Entry /\ sweep[Ticker].todo \subseteq Entry \X Nat
    BY DEF TypeOK, SweepType, Worker
  <1>r. row \in [Entry -> RowType]
    BY DEF TypeOK, RowType
  <1>i. \A i \in sweep[Ticker].todo : i[1] \in Entry
    BY <1>e
  <1>1. ASSUME NEW e \in Entry, Enqueue(e) \/ Dismiss(e) \/ RetryComesDue(e)
        PROVE  ListInv'
    <2>1. sweep' = sweep
      BY <1>1 DEF Enqueue, Dismiss, RetryComesDue
    <2>2. \A x \in Entry : Undelivered(x) => Undelivered(x)'
      <3>1. CASE Enqueue(e)
        BY <3>1, <1>r DEF Enqueue, SupersedeAndInsert, Undelivered, RowType
      <3>2. CASE Dismiss(e)
        BY <3>2, <1>r DEF Dismiss, Undelivered, RowType
      <3>3. CASE RetryComesDue(e)
        BY <3>3, <1>r DEF RetryComesDue, Undelivered, RowType
      <3> QED
        BY <1>1, <3>1, <3>2, <3>3
    <2> QED
      BY <1>e, <1>i, <2>1, <2>2
  <1>2. CASE Ticks
    BY <1>2, <1>e DEF Ticks, TypeOK, SweepType, Busy, Undelivered
  <1>3. ASSUME NEW k \in Key, ProbeWindowPasses(k)
        PROVE  ListInv'
    <2>1. /\ sweep'[Ticker].todo = sweep[Ticker].todo /\ sweep'[Ticker].pc = sweep[Ticker].pc
          /\ sweep'[Ticker].entry = sweep[Ticker].entry /\ row' = row
      BY <1>3, <1>e DEF ProbeWindowPasses, SweepType
    <2> QED
      BY <2>1 DEF Undelivered
  <1>4. CASE Restart
    BY <1>4, <1>e DEF Restart, AtRest, Busy
  <1>5. CASE UNCHANGED vars
    BY <1>5 DEF vars, Undelivered
  <1> QED
    BY <1>1, <1>2, <1>3, <1>4, <1>5, <1>e DEF Next

(* With the background worker alone, a row that says "delivered" is never  *)
(* sent again, whatever is enqueued, dismissed or restarted meanwhile.     *)
(* Forced retries break it: their sweep shares no lock with the worker's.  *)
THEOREM SingleWorkerNeverResends ==
  ASSUME Forced = {}
  PROVE  Spec => []NoResend
  <1>1. TypeOK /\ ListInv /\ [Next]_vars => ListInv'
    BY SweepKeepsList, OthersKeepList
  <1>2. ListInv => NoResend
    BY DEF ListInv, NoResend, Worker, Undelivered
  <1> QED
    BY QueueTypeCorrect, ListInit, <1>1, <1>2, PTL DEF Spec

--------------------------------------------------------------------------------
(* A failed row has its notification, or the sweep at work on it stores    *)
(* one, or the process died in between: no other step writes "failed", and *)
(* only the escalation leaves that point of a sweep.                       *)
LEMMA EscalationKept ==
  ASSUME TypeOK, FailedIsEscalated, [Next]_vars
  PROVE  FailedIsEscalated'
  <1>1. /\ row \in [Entry -> RowType] /\ sweep \in [Worker -> SweepType] /\ crashes \in Nat
        /\ Ticker \in Worker /\ Forced \subseteq Worker
    BY DeliveryQueueAssumption DEF TypeOK, RowType, SweepType, Worker, DeliveryQueueAssumption
  <1>2. \A e \in Entry : row[e].status = "failed" =>
          e \in inbox \/ (\E w \in Worker : sweep[w].pc = "escalate" /\ sweep[w].entry = e) \/ crashes > 0
    BY DEF FailedIsEscalated
  <1>3. ASSUME \A e \in Entry : row'[e].status = "failed" => row[e].status = "failed",
               \A w \in Worker : sweep[w].pc = "escalate" =>
                  sweep'[w].pc = "escalate" /\ sweep'[w].entry = sweep[w].entry,
               UNCHANGED <<inbox, crashes>>
        PROVE  FailedIsEscalated'
    BY <1>2, <1>3 DEF FailedIsEscalated
  <1>4. ASSUME NEW w \in Worker, sweep[w].pc # "escalate", NEW new, sweep' = [sweep EXCEPT ![w] = new]
        PROVE  \A v \in Worker : sweep[v].pc = "escalate" =>
                  sweep'[v].pc = "escalate" /\ sweep'[v].entry = sweep[v].entry
    BY <1>1, <1>4
  <1>6. ASSUME NEW w \in Worker, SweepStep(w) PROVE FailedIsEscalated'
    <2>1. sweep[w] \in SweepType /\ sweep[w].entry \in Entry
      BY <1>1 DEF SweepType
    <2>2. CASE ForceResets(w)
      <3>1. \A x \in Entry : row'[x].status = "failed" => row[x].status = "failed"
        BY <1>1, <2>1, <2>2 DEF ForceResets, UpdateAttempt
      <3>2. \A v \in Worker : sweep[v].pc = "escalate" =>
               sweep'[v].pc = "escalate" /\ sweep'[v].entry = sweep[v].entry
        BY <1>1, <2>2 DEF ForceResets
      <3> QED
        BY <1>3, <2>2, <3>1, <3>2 DEF ForceResets
    <2>3. CASE UNCHANGED <<row, inbox, crashes>> /\ sweep[w].pc # "escalate" /\ sweep' = [sweep EXCEPT ![w] = sweep'[w]]
      BY <1>3, <1>4, <2>3
    <2>4. CASE ForceInspects(w) \/ ForceCloses(w) \/ ListsDue(w) \/ SweepEnds(w)
      BY <1>1, <2>3, <2>4 DEF ForceInspects, ForceCloses, ListsDue, SweepEnds
    <2>5. CASE \E e \in Entry : \E item \in sweep[w].todo :
                 item[1] = e /\ (Skips(w, e, item[2]) \/ Takes(w, e, item[2]))
      BY <1>1, <2>3, <2>5 DEF Skips, Takes
    <2>6. CASE DeliverySucceeds(w) \/ DeliveryFails(w) \/ HealsEndpoint(w) \/ RecordsFailure(w)
      BY <1>1, <2>3, <2>6 DEF DeliverySucceeds, DeliveryFails, HealsEndpoint, RecordsFailure
    <2>7. CASE MarksDelivered(w)
      <3>1. \A x \in Entry : row'[x].status = "failed" => row[x].status = "failed"
        BY <1>1, <2>1, <2>7 DEF MarksDelivered, RowType
      <3>2. \A v \in Worker : sweep[v].pc = "escalate" =>
               sweep'[v].pc = "escalate" /\ sweep'[v].entry = sweep[v].entry
        BY <1>1, <2>7 DEF MarksDelivered
      <3> QED
        BY <1>3, <2>7, <3>1, <3>2 DEF MarksDelivered
    <2>8. CASE Reschedules(w)
      <3>1. \A x \in Entry : row'[x].status = "failed" => row[x].status = "failed"
        BY <1>1, <2>1, <2>8 DEF Reschedules, UpdateAttempt
      <3>2. \A v \in Worker : sweep[v].pc = "escalate" =>
               sweep'[v].pc = "escalate" /\ sweep'[v].entry = sweep[v].entry
        BY <1>4, <2>8 DEF Reschedules
      <3> QED
        BY <1>3, <2>8, <3>1, <3>2 DEF Reschedules
    <2>9. CASE Exhausts(w)
      <3>1. /\ sweep[w].pc = "record" /\ sweep'[w].pc = "escalate" /\ sweep'[w].entry = sweep[w].entry
            /\ \A v \in Worker : v # w => sweep'[v] = sweep[v]
            /\ \A x \in Entry : x # sweep[w].entry => row'[x] = row[x]
            /\ UNCHANGED <<inbox, crashes>>
        BY <1>1, <2>1, <2>9 DEF Exhausts, UpdateAttempt, SweepType
      <3> QED
        BY <1>2, <3>1 DEF FailedIsEscalated
    <2>10. CASE Escalates(w)
      <3>1. /\ inbox' = inbox \cup {sweep[w].entry} /\ UNCHANGED <<row, crashes>>
            /\ \A v \in Worker : v # w => sweep'[v] = sweep[v]
        BY <1>1, <2>10 DEF Escalates
      <3> QED
        BY <1>2, <3>1 DEF FailedIsEscalated
    <2> QED
      BY <1>6, <2>2, <2>4, <2>5, <2>6, <2>7, <2>8, <2>9, <2>10 DEF SweepStep
  <1>7. ASSUME NEW e \in Entry, Enqueue(e) \/ Dismiss(e) \/ RetryComesDue(e) PROVE FailedIsEscalated'
    <2>1. UNCHANGED <<sweep, inbox, crashes>>
      BY <1>7 DEF Enqueue, Dismiss, RetryComesDue
    <2>2. \A x \in Entry : row'[x].status = "failed" => row[x].status = "failed"
      BY <1>1, <1>7 DEF Enqueue, SupersedeAndInsert, Dismiss, RetryComesDue, RowType, Active
    <2> QED
      BY <1>3, <2>1, <2>2
  <1>8. ASSUME NEW w \in Forced, NEW e \in Entry, ForceGets(w, e) PROVE FailedIsEscalated'
    BY <1>1, <1>3, <1>8 DEF ForceGets
  <1>9. ASSUME NEW w \in Forced, RequestEnds(w) PROVE FailedIsEscalated'
    <2>1. \A v \in Worker : sweep'[v].pc = sweep[v].pc /\ sweep'[v].entry = sweep[v].entry
      BY <1>1, <1>9 DEF RequestEnds, SweepType
    <2> QED
      BY <1>3, <1>9, <2>1 DEF RequestEnds
  <1>10. CASE Ticks
    BY <1>1, <1>3, <1>10 DEF Ticks
  <1>11. ASSUME NEW k \in Key, ProbeWindowPasses(k) PROVE FailedIsEscalated'
    <2>1. \A v \in Worker : sweep'[v].pc = sweep[v].pc /\ sweep'[v].entry = sweep[v].entry
      <3>1. ASSUME NEW v \in Worker PROVE sweep'[v].pc = sweep[v].pc /\ sweep'[v].entry = sweep[v].entry
        <4>1. sweep[v] \in SweepType
          BY <1>1
        <4> QED
          BY <1>11, <4>1 DEF ProbeWindowPasses, SweepType
      <3> QED
        BY <3>1
    <2> QED
      BY <1>3, <1>11, <2>1 DEF ProbeWindowPasses
  <1>12. CASE Restart
    <2>1. crashes' > 0
      BY <1>1, <1>12 DEF Restart
    <2> QED
      BY <2>1 DEF FailedIsEscalated
  <1>13. CASE UNCHANGED vars
    BY <1>3, <1>13 DEF vars
  <1> QED
    BY <1>6, <1>7, <1>8, <1>9, <1>10, <1>11, <1>12, <1>13 DEF Next

(* Only a death of the process separates a failed row from its inbox       *)
(* notification (FailedIsEscalated).                                       *)
THEOREM FailuresReachTheInbox == Spec => []FailedIsEscalated
  <1>1. Init => FailedIsEscalated
    BY DEF Init, FailedIsEscalated
  <1>2. FailedIsEscalated /\ TypeOK /\ [Next]_vars => FailedIsEscalated'
    BY EscalationKept
  <1> QED
    BY <1>1, <1>2, QueueTypeCorrect, PTL DEF Spec

--------------------------------------------------------------------------------
(* The forced retries that have been asked for, and the attempts they and  *)
(* max_attempts allow an entry.                                            *)
Used      == {w \in Forced : sweep[w].pc # "unused"}
Allowance == MaxAttempts + Cardinality(Used)

(* The counts a sweep has at hand: below the allowance until the failed    *)
(* attempt has been added.                                                 *)
Within(s, n) ==
  /\ s.count <= n
  /\ s.pc \notin {"record", "escalate"} => s.count < n
  /\ \A item \in s.todo : item[2] < n

(* A row that waits for an attempt has one left. *)
RowsWithin(n) ==
  \A e \in Entry : row[e].count <= n /\ (row[e].status \in Active => row[e].count < n)

(* AttemptBudget alone is not inductive: the counts that sweeps hold are   *)
(* written back, and a forced retry makes an exhausted row wait again.     *)
BudgetInv == RowsWithin(Allowance) /\ \A w \in Worker : Within(sweep[w], Allowance)

(* An allowance is a positive number. *)
LEMMA AllowanceIsNat == IsFiniteSet(Used) /\ Cardinality(Used) \in Nat /\ Allowance \in Nat /\ Allowance > 0
  <1>1. Used \in SUBSET Forced /\ IsFiniteSet(Forced) /\ MaxAttempts \in Nat /\ MaxAttempts > 0
    BY DeliveryQueueAssumption DEF DeliveryQueueAssumption, Used
  <1>2. IsFiniteSet(Used) /\ Cardinality(Used) \in Nat
    BY <1>1, FS_Subset, FS_CardinalityType
  <1> QED
    BY <1>1, <1>2 DEF Allowance

(* The table is empty and every sweep at rest. *)
LEMMA BudgetInit == Init => BudgetInv
  BY AllowanceIsNat DEF Init, BudgetInv, RowsWithin, Within, AtRest, Active, Worker

(* A step that forces no retry leaves the allowance alone. *)
LEMMA SameAllowance ==
  ASSUME \A w \in Forced : sweep'[w].pc = "unused" <=> sweep[w].pc = "unused"
  PROVE  Allowance' = Allowance
  <1>1. Used' = Used
    BY DEF Used
  <1> QED
    BY <1>1 DEF Allowance

(* A step of one sweep keeps the budget when what the sweep then holds and *)
(* the table are within it.                                                *)
LEMMA BudgetMoves ==
  ASSUME TypeOK, BudgetInv, NEW w \in Worker, sweep[w].pc # "unused", NEW new, new.pc # "unused",
         sweep' = [sweep EXCEPT ![w] = new], Within(new, Allowance),
         \A e \in Entry : \/ row'[e] = row[e]
                          \/ row'[e].count <= Allowance /\ (row'[e].status \in Active => row'[e].count < Allowance)
  PROVE  BudgetInv'
  <1>1. \A v \in Worker : sweep'[v] = IF v = w THEN new ELSE sweep[v]
    BY DEF TypeOK
  <1>2. PICK n : n = Allowance
    OBVIOUS
  <1>3. Allowance' = n
    BY <1>1, <1>2, SameAllowance DEF Worker
  <1>4. RowsWithin(n)'
    BY <1>2 DEF BudgetInv, RowsWithin
  <1>5. \A v \in Worker : Within(sweep[v], n)'
    BY <1>1, <1>2 DEF BudgetInv, Within
  <1> QED
    BY <1>3, <1>4, <1>5 DEF BudgetInv, RowsWithin, Within

(* Every step of a forced retry or a sweep keeps within the budget. *)
LEMMA SweepKeepsBudget ==
  ASSUME TypeOK, BudgetInv, NEW w \in Worker, SweepStep(w)
  PROVE  BudgetInv'
  <1> DEFINE s == sweep[w]
             e == s.entry
  <1>1. /\ sweep \in [Worker -> SweepType] /\ s \in SweepType /\ e \in Entry
        /\ row \in [Entry -> RowType] /\ s.count \in Nat
    BY DEF TypeOK, SweepType, RowType
  <1>2. PICK n \in Nat : n = Allowance /\ n > 0
    BY AllowanceIsNat
  <1>3. /\ Within(s, n) /\ MaxAttempts \in Nat /\ MaxAttempts <= n
        /\ \A x \in Entry : row[x].count \in Nat /\ row[x].count <= n /\ (row[x].status \in Active => row[x].count < n)
    <2>1. MaxAttempts \in Nat
      BY DeliveryQueueAssumption DEF DeliveryQueueAssumption
    <2>2. MaxAttempts <= n
      BY <1>2, <2>1, AllowanceIsNat DEF Allowance
    <2> QED
      BY <1>1, <1>2, <2>1, <2>2 DEF BudgetInv, RowsWithin, RowType
  <1>4. ASSUME NEW new, s.pc # "unused", new.pc # "unused", sweep' = [sweep EXCEPT ![w] = new], Within(new, n),
               \A x \in Entry : \/ row'[x] = row[x]
                                \/ row'[x].count <= n /\ (row'[x].status \in Active => row'[x].count < n)
        PROVE  BudgetInv'
    BY <1>2, <1>4, BudgetMoves
  <1>5. ASSUME NEW p \in SweepPC PROVE Within(AtRest(p), n) /\ Within(Done(w, p), n)
    BY <1>1, <1>2, <1>3 DEF Within, AtRest, Done
  <1>6. ASSUME NEW p \in SweepPC, p # "unused", s.pc # "unused", UNCHANGED row,
               sweep' = [sweep EXCEPT ![w] = AtRest(p)] \/ sweep' = [sweep EXCEPT ![w] = Done(w, p)]
        PROVE  BudgetInv'
    <2>1. AtRest(p).pc = p /\ Done(w, p).pc = p
      BY DEF AtRest, Done
    <2>2. PICK new : new \in {AtRest(p), Done(w, p)} /\ sweep' = [sweep EXCEPT ![w] = new]
      BY <1>6
    <2>3. Within(new, n) /\ new.pc # "unused"
      BY <1>5, <1>6, <2>1, <2>2
    <2> QED
      BY <1>4, <1>6, <2>2, <2>3
  \* The copies of a sweep that moves on without counting stay as they are.
  <1>7. ASSUME NEW new \in SweepType, s.pc \notin {"unused", "record", "escalate"}, new.pc # "unused",
               sweep' = [sweep EXCEPT ![w] = new], new.count = s.count, new.todo \subseteq s.todo,
               \A x \in Entry : \/ row'[x] = row[x]
                                \/ row'[x].count <= n /\ (row'[x].status \in Active => row'[x].count < n)
        PROVE  BudgetInv'
    <2>1. Within(new, n)
      BY <1>3, <1>7 DEF Within
    <2> QED
      BY <1>4, <1>7, <2>1
  <1>8. CASE ForceResets(w)
    <2> DEFINE new == [s EXCEPT !.pc = "inspect"]
    <2>1. new \in SweepType /\ new.pc = "inspect" /\ new.count = s.count /\ new.todo = s.todo
      BY <1>1 DEF SweepType, SweepPC
    <2>2. sweep' = [sweep EXCEPT ![w] = new] /\ s.pc = "reset"
      BY <1>8 DEF ForceResets
    <2>3. s.count < n
      BY <1>3, <2>2 DEF Within
    <2>4. \A x \in Entry : row'[x] = row[x] \/ row'[x].count = s.count
      BY <1>1, <1>8 DEF ForceResets, UpdateAttempt
    <2>5. \A x \in Entry : \/ row'[x] = row[x]
                           \/ row'[x].count <= n /\ (row'[x].status \in Active => row'[x].count < n)
      BY <1>1, <2>3, <2>4
    <2> HIDE DEF new
    <2> QED
      BY <1>7, <2>1, <2>2, <2>5
  <1>9. CASE ForceInspects(w)
    <2> DEFINE new == [s EXCEPT !.pc = "close", !.copy = health[KeyOf[e]]]
    <2>1. new \in SweepType /\ new.pc = "close" /\ new.count = s.count /\ new.todo = s.todo
      <3>1. health[KeyOf[e]] \in Health
        BY <1>1, DeliveryQueueAssumption DEF DeliveryQueueAssumption, TypeOK
      <3> QED
        BY <1>1, <3>1 DEF SweepType, SweepPC
    <2>2. s.pc = "inspect" /\ UNCHANGED row /\ "list" \in SweepPC
          /\ (sweep' = [sweep EXCEPT ![w] = new] \/ sweep' = [sweep EXCEPT ![w] = AtRest("list")])
      BY <1>9 DEF ForceInspects, SweepPC
    <2> HIDE DEF new
    <2> QED
      BY <1>6, <1>7, <2>1, <2>2
  <1>10. CASE ForceCloses(w)
    BY <1>6, <1>10 DEF ForceCloses, SweepPC
  <1>11. CASE ListsDue(w)
    <2> DEFINE new == [s EXCEPT !.pc = "next", !.todo = ListDue]
    <2>1. sweep' = [sweep EXCEPT ![w] = new] /\ s.pc = "list" /\ UNCHANGED row
      BY <1>11 DEF ListsDue
    <2>2. new.pc = "next" /\ new.count = s.count /\ new.todo = ListDue
      BY <1>1 DEF SweepType
    <2>3. \A item \in ListDue : item[2] < n
      BY <1>3 DEF ListDue, Due
    <2> HIDE DEF new
    <2>4. Within(new, n)
      BY <1>3, <2>1, <2>2, <2>3 DEF Within
    <2> QED
      BY <1>4, <2>1, <2>2, <2>4
  <1>12. CASE SweepEnds(w)
    BY <1>6, <1>12 DEF SweepEnds, SweepPC
  <1>13. ASSUME NEW x \in Entry, NEW item \in s.todo, item[1] = x,
                Skips(w, x, item[2]) \/ Takes(w, x, item[2])
         PROVE  BudgetInv'
    <2>1. CASE Skips(w, x, item[2])
      <3> DEFINE new == [s EXCEPT !.todo = @ \ {<<x, item[2]>>}]
      <3>1. sweep' = [sweep EXCEPT ![w] = new] /\ s.pc = "next" /\ UNCHANGED row
        BY <2>1 DEF Skips
      <3>2. new \in SweepType /\ new.pc = s.pc /\ new.count = s.count /\ new.todo \subseteq s.todo
        BY <1>1 DEF SweepType
      <3> HIDE DEF new
      <3> QED
        BY <1>7, <3>1, <3>2
    <2>2. CASE Takes(w, x, item[2])
      <3> DEFINE new == [s EXCEPT !.pc = "deliver", !.todo = @ \ {<<x, item[2]>>}, !.entry = x, !.count = item[2],
                                  !.copy = health[KeyOf[x]]]
      <3>1. sweep' = [sweep EXCEPT ![w] = new] /\ s.pc = "next" /\ UNCHANGED row
        BY <2>2 DEF Takes
      <3>2. new.pc = "deliver" /\ new.count = item[2] /\ new.todo \subseteq s.todo
        BY <1>1 DEF SweepType
      <3>3. item[2] < n /\ item[2] \in Nat
        BY <1>1, <1>3 DEF Within, SweepType
      <3> HIDE DEF new
      <3>4. Within(new, n)
        BY <1>3, <3>2, <3>3 DEF Within
      <3> QED
        BY <1>4, <3>1, <3>2, <3>4
    <2> QED
      BY <1>13, <2>1, <2>2
  <1>14. CASE DeliverySucceeds(w)
    <2> DEFINE new == [s EXCEPT !.pc = "sent", !.copy = Healthy]
    <2>1. sweep' = [sweep EXCEPT ![w] = new] /\ s.pc = "deliver" /\ UNCHANGED row
      BY <1>14 DEF DeliverySucceeds
    <2>2. new \in SweepType /\ new.pc = "sent" /\ new.count = s.count /\ new.todo = s.todo
      BY <1>1, HealthyIsSound DEF SweepType, SweepPC
    <2> HIDE DEF new
    <2> QED
      BY <1>7, <2>1, <2>2
  <1>15. CASE DeliveryFails(w)
    <2> DEFINE new == [s EXCEPT !.pc = "unsent"]
    <2>1. sweep' = [sweep EXCEPT ![w] = new] /\ s.pc = "deliver" /\ UNCHANGED row
      BY <1>15 DEF DeliveryFails
    <2>2. new \in SweepType /\ new.pc = "unsent" /\ new.count = s.count /\ new.todo = s.todo
      BY <1>1 DEF SweepType, SweepPC
    <2> HIDE DEF new
    <2> QED
      BY <1>7, <2>1, <2>2
  <1>16. CASE MarksDelivered(w)
    <2> DEFINE new == [s EXCEPT !.pc = "heal"]
    <2>1. sweep' = [sweep EXCEPT ![w] = new] /\ s.pc = "sent"
      BY <1>16 DEF MarksDelivered
    <2>2. new \in SweepType /\ new.pc = "heal" /\ new.count = s.count /\ new.todo = s.todo
      BY <1>1 DEF SweepType, SweepPC
    <2>3. \A x \in Entry : row'[x] = row[x] \/ (row'[x].count = row[x].count /\ row'[x].status = "delivered")
      BY <1>1, <1>16 DEF MarksDelivered, RowType
    <2>4. "delivered" \notin Active
      BY DEF Active
    <2> HIDE DEF new
    <2> QED
      BY <1>3, <1>7, <2>1, <2>2, <2>3, <2>4
  <1>17. CASE HealsEndpoint(w) \/ Escalates(w)
    BY <1>6, <1>17 DEF HealsEndpoint, Escalates, SweepPC
  <1>18. CASE RecordsFailure(w)
    <2> DEFINE new == [s EXCEPT !.pc = "record", !.count = @ + 1, !.copy = Healthy]
    <2>1. sweep' = [sweep EXCEPT ![w] = new] /\ s.pc = "unsent" /\ UNCHANGED row
      BY <1>18 DEF RecordsFailure
    <2>2. new.pc = "record" /\ new.count = s.count + 1 /\ new.todo = s.todo
      BY <1>1 DEF SweepType
    <2> HIDE DEF new
    <2>3. Within(new, n)
      BY <1>1, <1>3, <2>1, <2>2 DEF Within
    <2> QED
      BY <1>4, <2>1, <2>2, <2>3
  <1>19. CASE Reschedules(w)
    <2>1. s.pc = "record" /\ s.count < n /\ sweep' = [sweep EXCEPT ![w] = Done(w, "next")] /\ "next" \in SweepPC
      BY <1>1, <1>3, <1>19 DEF Reschedules, SweepPC
    <2>2. \A x \in Entry : row'[x] = row[x] \/ row'[x].count = s.count
      BY <1>1, <1>19 DEF Reschedules, UpdateAttempt
    <2>3. Within(Done(w, "next"), n) /\ Done(w, "next").pc # "unused"
      BY <1>5, <2>1 DEF Done, AtRest
    <2>4. \A x \in Entry : \/ row'[x] = row[x]
                           \/ row'[x].count <= n /\ (row'[x].status \in Active => row'[x].count < n)
      BY <1>1, <2>1, <2>2
    <2>5. PICK new : new = Done(w, "next")
      OBVIOUS
    <2> QED
      BY <1>4, <2>1, <2>3, <2>4, <2>5
  <1>20. CASE Exhausts(w)
    <2> DEFINE new == [s EXCEPT !.pc = "escalate"]
    <2>1. sweep' = [sweep EXCEPT ![w] = new] /\ s.pc = "record"
      BY <1>20 DEF Exhausts
    <2>2. new.pc = "escalate" /\ new.count = s.count /\ new.todo = s.todo
      BY <1>1 DEF SweepType
    <2>3. \A x \in Entry : row'[x] = row[x] \/ (row'[x].count = s.count /\ row'[x].status = "failed")
      BY <1>1, <1>20 DEF Exhausts, UpdateAttempt, RowType
    <2>4. "failed" \notin Active
      BY DEF Active
    <2> HIDE DEF new
    <2>5. Within(new, n)
      BY <1>3, <2>1, <2>2 DEF Within
    <2>6. s.count <= n
      BY <1>3 DEF Within
    <2> QED
      BY <1>4, <2>1, <2>2, <2>3, <2>4, <2>5, <2>6
  <1> QED
    BY <1>8, <1>9, <1>10, <1>11, <1>12, <1>13, <1>14, <1>15, <1>16, <1>17, <1>18, <1>19, <1>20 DEF SweepStep

(* So do the other steps: a forced retry buys its entry one attempt. *)
LEMMA OthersKeepBudget ==
  ASSUME TypeOK, BudgetInv, [Next]_vars, ~(\E w \in Worker : SweepStep(w))
  PROVE  BudgetInv'
  <1>1. /\ sweep \in [Worker -> SweepType] /\ row \in [Entry -> RowType]
        /\ Ticker \in Worker /\ Forced \subseteq Worker /\ Ticker \notin Forced
    BY DeliveryQueueAssumption DEF TypeOK, SweepType, RowType, Worker, DeliveryQueueAssumption
  <1>2. PICK n \in Nat : n = Allowance /\ n > 0
    BY AllowanceIsNat
  <1>3. /\ \A x \in Entry : row[x].count \in Nat /\ row[x].count <= n /\ (row[x].status \in Active => row[x].count < n)
        /\ \A w \in Worker : Within(sweep[w], n)
    BY <1>1, <1>2 DEF BudgetInv, RowsWithin, RowType
  <1>4. ASSUME \A w \in Forced : sweep'[w].pc = "unused" <=> sweep[w].pc = "unused",
               \A w \in Worker : Within(sweep[w], n)', RowsWithin(n)'
        PROVE  BudgetInv'
    <2>1. Allowance' = n
      BY <1>2, <1>4, SameAllowance
    <2> QED
      BY <1>4, <2>1 DEF BudgetInv, RowsWithin, Within
  <1>5. ASSUME UNCHANGED row PROVE RowsWithin(n)'
    BY <1>3, <1>5 DEF RowsWithin
  <1>6. ASSUME NEW e \in Entry, Enqueue(e) \/ Dismiss(e) \/ RetryComesDue(e) PROVE BudgetInv'
    <2>1. UNCHANGED sweep
      BY <1>6 DEF Enqueue, Dismiss, RetryComesDue
    <2>2. \A x \in Entry : \/ row'[x].count = 0
                           \/ /\ row'[x].count = row[x].count
                              /\ row'[x].status \in Active => row[x].status \in Active
      BY <1>1, <1>6 DEF Enqueue, SupersedeAndInsert, Dismiss, RetryComesDue, RowType, Active
    <2>3. RowsWithin(n)'
      BY <1>2, <1>3, <2>2 DEF RowsWithin
    <2> QED
      BY <1>3, <1>4, <2>1, <2>3 DEF Within
  <1>7. ASSUME NEW w \in Forced, NEW e \in Entry, ForceGets(w, e) PROVE BudgetInv'
    <2>1. /\ sweep[w].pc = "unused" /\ sweep'[w].pc = "reset" /\ sweep'[w].count = row[e].count
          /\ sweep'[w].todo = sweep[w].todo /\ \A v \in Worker : v # w => sweep'[v] = sweep[v]
          /\ UNCHANGED row
      BY <1>1, <1>7 DEF ForceGets, SweepType
    <2>2. Used' = Used \cup {w} /\ w \notin Used
      BY <1>1, <2>1 DEF Used
    <2>3. Cardinality(Used') = Cardinality(Used) + 1
      BY <2>2, AllowanceIsNat, FS_AddElement
    <2>4. Allowance' = n + 1
      <3>1. MaxAttempts \in Nat
        BY DeliveryQueueAssumption DEF DeliveryQueueAssumption
      <3> QED
        BY <1>2, <2>3, <3>1, AllowanceIsNat DEF Allowance
    <2>5. PICK m \in Nat : m = n + 1 /\ Allowance' = m
      BY <1>2, <2>4
    <2>6. RowsWithin(m)'
      BY <1>3, <2>1, <2>5 DEF RowsWithin
    <2>7. ASSUME NEW v \in Worker PROVE Within(sweep[v], m)'
      <3>1. /\ Within(sweep[v], n) /\ sweep[v].count \in Nat /\ row[e].count \in Nat /\ row[e].count <= n
            /\ \A item \in sweep[v].todo : item[2] \in Nat
        BY <1>1, <1>3 DEF SweepType
      <3>2. CASE v = w
        BY <2>1, <2>5, <3>1, <3>2 DEF Within
      <3>3. CASE v # w
        BY <2>1, <2>5, <3>1, <3>3 DEF Within
      <3> QED
        BY <3>2, <3>3
    <2> QED
      BY <2>5, <2>6, <2>7 DEF BudgetInv, RowsWithin, Within
  <1>8. ASSUME UNCHANGED row,
               \A v \in Worker : /\ sweep'[v].pc = sweep[v].pc /\ sweep'[v].count = sweep[v].count
                                 /\ sweep'[v].todo = sweep[v].todo
        PROVE  BudgetInv'
    <2>1. \A v \in Worker : Within(sweep[v], n)'
      BY <1>3, <1>8 DEF Within
    <2> QED
      BY <1>1, <1>4, <1>5, <1>8, <2>1
  <1>9. ASSUME NEW w \in Forced, RequestEnds(w) PROVE BudgetInv'
    BY <1>1, <1>8, <1>9 DEF RequestEnds, SweepType
  <1>10. CASE Ticks
    <2>1. /\ sweep'[Ticker].pc = "list" /\ sweep'[Ticker].count = sweep[Ticker].count
          /\ sweep'[Ticker].todo = sweep[Ticker].todo /\ sweep[Ticker].pc = "idle"
          /\ \A v \in Worker : v # Ticker => sweep'[v] = sweep[v]
      BY <1>1, <1>10 DEF Ticks, SweepType
    <2>2. \A v \in Worker : Within(sweep[v], n)'
      BY <1>1, <1>3, <2>1 DEF Within
    <2>3. \A w \in Forced : sweep'[w].pc = "unused" <=> sweep[w].pc = "unused"
      BY <1>1, <2>1
    <2> QED
      BY <1>4, <1>5, <1>10, <2>2, <2>3 DEF Ticks
  <1>11. ASSUME NEW k \in Key, ProbeWindowPasses(k) PROVE BudgetInv'
    <2>1. ASSUME NEW v \in Worker
          PROVE  sweep'[v].pc = sweep[v].pc /\ sweep'[v].count = sweep[v].count /\ sweep'[v].todo = sweep[v].todo
      <3>1. sweep[v] \in SweepType
        BY <1>1
      <3> QED
        BY <1>11, <3>1 DEF ProbeWindowPasses, SweepType
    <2> QED
      BY <1>8, <1>11, <2>1 DEF ProbeWindowPasses
  <1>12. CASE Restart
    <2>1. \A v \in Worker : /\ sweep'[v].count = 0 /\ sweep'[v].todo = {}
                            /\ v \in Forced => (sweep'[v].pc = "unused" <=> sweep[v].pc = "unused")
      BY <1>1, <1>12 DEF Restart, AtRest
    <2>2. \A v \in Worker : Within(sweep[v], n)'
      BY <1>2, <2>1 DEF Within
    <2> QED
      BY <1>1, <1>4, <1>5, <1>12, <2>1, <2>2 DEF Restart
  <1>13. CASE UNCHANGED vars
    BY <1>8, <1>13 DEF vars
  <1> QED
    BY <1>6, <1>7, <1>9, <1>10, <1>11, <1>12, <1>13 DEF Next

(* attempt_count passes max_attempts by at most one for each forced retry, *)
(* whatever copies of it sweeps hold (AttemptBudget).                      *)
THEOREM AttemptsBounded == Spec => []AttemptBudget
  <1>1. BudgetInv => AttemptBudget
    BY DEF BudgetInv, RowsWithin, AttemptBudget, Allowance, Used
  <1>2. BudgetInv /\ TypeOK /\ [Next]_vars => BudgetInv'
    BY SweepKeepsBudget, OthersKeepBudget
  <1> QED
    BY <1>1, <1>2, BudgetInit, QueueTypeCorrect, PTL DEF Spec

================================================================================
