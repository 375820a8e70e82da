-------------------------- MODULE SessionStreamProofs --------------------------
(* What TLAPS proves of SessionStream, for every size of ring, queue and   *)
(* buffer and every number of senders, messages, drops and restarts.       *)
EXTENDS SessionStream, NumberLemmas, TLAPS

(* What the ring holds once n messages are recorded: the last of them, in  *)
(* the slots behind next and then, after the wrap, in those from next on.  *)
RingHolds(r, n) ==
  /\ r \in [buf : [Slot -> Nat], next : Slot, full : BOOLEAN]
  /\ r.full <=> n >= RingSize
  /\ ~r.full => r.next = n
  /\ \A i \in Slot : i < r.next => r.buf[i] = n - r.next + i + 1
  /\ r.full => \A i \in Slot : i >= r.next => r.buf[i] = n - RingSize - r.next + i + 1

--------------------------------------------------------------------------------

(* A new ring holds nothing. *)
LEMMA RingStarts == RingHolds(EmptyRing, 0)
  BY StreamConstants DEF StreamConstants, RingHolds, EmptyRing, Slot

(* The invariant of the ring, slot by slot and in plain numbers. *)
LEMMA RingFacts ==
  ASSUME NEW r, NEW n \in Nat, RingHolds(r, n)
  PROVE  /\ RingSize \in Nat /\ RingSize > 0
         /\ r.next \in Nat /\ r.next < RingSize
         /\ r.full <=> n >= RingSize
         /\ n < RingSize => r.next = n
         /\ \A i \in Nat : i < r.next => r.buf[i] = n - r.next + i + 1
         /\ n >= RingSize =>
              \A i \in Nat : i >= r.next /\ i < RingSize => r.buf[i] = n - RingSize - r.next + i + 1
  <1>1. RingSize \in Nat /\ RingSize > 0
    BY StreamConstants DEF StreamConstants
  <1>2. r.next \in Slot
    BY DEF RingHolds
  <1>3. r.next \in Nat /\ r.next < RingSize
    BY <1>1, <1>2 DEF Slot
  <1>4. \A i \in Nat : i < RingSize => i \in Slot
    BY <1>1 DEF Slot
  <1>5. r.full <=> n >= RingSize
    BY DEF RingHolds
  <1>6. n < RingSize => r.next = n
    <2>1. ~r.full => r.next = n
      BY DEF RingHolds
    <2> QED
      BY <1>1, <1>5, <2>1
  <1>7. \A i \in Slot : i < r.next => r.buf[i] = n - r.next + i + 1
    BY DEF RingHolds
  <1>8. n >= RingSize =>
          \A i \in Slot : i >= r.next => r.buf[i] = n - RingSize - r.next + i + 1
    BY <1>5 DEF RingHolds
  <1>9. \A i \in Nat : i < r.next => r.buf[i] = n - r.next + i + 1
    BY <1>1, <1>3, <1>4, <1>7
  <1>10. n >= RingSize =>
          \A i \in Nat : i >= r.next /\ i < RingSize => r.buf[i] = n - RingSize - r.next + i + 1
    BY <1>4, <1>8
  <1> QED
    BY <1>1, <1>3, <1>5, <1>6, <1>9, <1>10

(* add puts the next message over the oldest. *)
LEMMA RingAdds ==
  ASSUME NEW r, NEW n \in Nat, RingHolds(r, n)
  PROVE  RingHolds(Added(r, n + 1), n + 1)
  <1> DEFINE m == (r.next + 1) % RingSize
             s == Added(r, n + 1)
             b == r.full \/ m = 0
  <1>0. r.buf \in [Slot -> Nat] /\ r.full \in BOOLEAN /\ r.next \in Slot
    BY DEF RingHolds
  <1>1. /\ RingSize \in Nat /\ RingSize > 0
        /\ r.next \in Nat /\ r.next < RingSize
        /\ n < RingSize => r.next = n
    BY RingFacts
  <1>f. r.full <=> n >= RingSize
    BY RingFacts
  <1>2. m = IF r.next + 1 < RingSize THEN r.next + 1 ELSE 0
    <2>1. r.next + 1 \in 0 .. (2 * RingSize - 1)
      BY <1>1
    <2> QED
      BY <1>1, <2>1, Wraps
  <1> HIDE DEF m
  <1>3. s = [buf |-> [r.buf EXCEPT ![r.next] = n + 1], next |-> m, full |-> b]
    BY DEF Added, m
  <1>4. s.next = m /\ s.buf = [r.buf EXCEPT ![r.next] = n + 1]
    BY <1>3
  <1>5. s.full = b
    BY <1>3
  <1>6. m \in Nat /\ m < RingSize
    BY <1>1, <1>2
  <1>7. s \in [buf : [Slot -> Nat], next : Slot, full : BOOLEAN]
    <2>1. m \in Slot
      BY <1>1, <1>6 DEF Slot
    <2>2. [r.buf EXCEPT ![r.next] = n + 1] \in [Slot -> Nat]
      BY <1>0
    <2>3. b \in BOOLEAN
      OBVIOUS
    <2> HIDE DEF b
    <2> QED
      BY <1>3, <2>1, <2>2, <2>3
  <1>8. \A i \in Slot : s.buf[i] = IF i = r.next THEN n + 1 ELSE r.buf[i]
    BY <1>0, <1>4
  <1> HIDE DEF s
  <1>9. s.full <=> n + 1 >= RingSize
    <2>1. m = 0 <=> r.next + 1 >= RingSize
      BY <1>1, <1>2
    <2>2. n >= RingSize \/ r.next + 1 >= RingSize <=> n + 1 >= RingSize
      BY <1>1
    <2>3. s.full <=> n >= RingSize \/ r.next + 1 >= RingSize
      BY <1>5, <1>f, <2>1
    <2> QED
      BY <2>2, <2>3
  <1>10. n + 1 < RingSize => s.next = n + 1
    BY <1>1, <1>2, <1>4
  <1>11. ASSUME NEW i \in Slot
         PROVE  /\ i < m => s.buf[i] = n + 1 - m + i + 1
                /\ n + 1 >= RingSize /\ i >= m => s.buf[i] = n + 1 - RingSize - m + i + 1
    <2>1. i \in Nat /\ i < RingSize
      BY <1>1 DEF Slot
    <2>2. i < r.next => r.buf[i] = n - r.next + i + 1
      BY <2>1, RingFacts
    <2>3. n >= RingSize /\ i >= r.next => r.buf[i] = n - RingSize - r.next + i + 1
      BY <2>1, RingFacts
    <2>4. s.buf[i] = IF i = r.next THEN n + 1 ELSE r.buf[i]
      BY <1>8
    <2>5. CASE i = r.next
      BY <1>1, <1>2, <2>1, <2>4, <2>5
    <2>6. CASE i < r.next
      BY <1>1, <1>2, <2>1, <2>2, <2>4, <2>6
    <2>7. CASE i > r.next
      BY <1>1, <1>2, <2>1, <2>3, <2>4, <2>7
    <2> QED
      BY <1>1, <2>1, <2>5, <2>6, <2>7
  <1>12. ~s.full => s.next = n + 1
    BY <1>1, <1>9, <1>10
  <1>13. RingHolds(s, n + 1)
    <2>1. PICK k : k = n + 1
      OBVIOUS
    <2>2. k \in Nat /\ s.next \in Nat /\ RingSize \in Nat
      BY <1>1, <1>4, <1>6, <2>1
    <2>3. s.full <=> k >= RingSize
      BY <1>9, <2>1
    <2>4. ~s.full => s.next = k
      BY <1>12, <2>1
    <2>5. ASSUME NEW i \in Slot
          PROVE  /\ i < s.next => s.buf[i] = k - s.next + i + 1
                 /\ s.full /\ i >= s.next => s.buf[i] = k - RingSize - s.next + i + 1
      <3>1. /\ i < m => s.buf[i] = n + 1 - m + i + 1
            /\ n + 1 >= RingSize /\ i >= m => s.buf[i] = n + 1 - RingSize - m + i + 1
        BY <1>11
      <3>2. s.next = m
        BY <1>4
      <3> QED
        BY <1>1, <1>6, <2>1, <2>2, <2>3, <3>1, <3>2 DEF Slot
    <2> QED
      BY <1>7, <2>1, <2>3, <2>4, <2>5, Zenon DEF RingHolds
  <1> QED
    BY <1>13 DEF s

(* How many messages the ring holds, and which is the i-th of them. *)
LEMMA RingReads ==
  ASSUME NEW r, NEW n \in Nat, RingHolds(r, n)
  PROVE  /\ Length(r) = IF n >= RingSize THEN RingSize ELSE n
         /\ \A i \in 1 .. Length(r) : Nth(r, i) = n - Length(r) + i
         /\ OldestSeq(r) = IF n = 0 THEN 0 ELSE n - Length(r) + 1
  <1>1. /\ RingSize \in Nat /\ RingSize > 0
        /\ r.next \in Nat /\ r.next < RingSize
        /\ n < RingSize => r.next = n
    BY RingFacts
  <1>f. r.full <=> n >= RingSize
    BY RingFacts
  <1>h. ASSUME NEW i \in Nat
        PROVE  /\ i < r.next => r.buf[i] = n - r.next + i + 1
               /\ n >= RingSize /\ i >= r.next /\ i < RingSize =>
                    r.buf[i] = n - RingSize - r.next + i + 1
    BY RingFacts
  <1>2. /\ Length(r) = IF n >= RingSize THEN RingSize ELSE n
        /\ Start(r) = IF n >= RingSize THEN r.next ELSE 0
    BY <1>1, <1>f DEF Length, Start
  <1>3. ASSUME NEW i \in 1 .. Length(r) PROVE Nth(r, i) = n - Length(r) + i
    <2> DEFINE x == Start(r) + i - 1
               y == IF x < RingSize THEN x ELSE x - RingSize
    <2>1. i \in Nat /\ i >= 1 /\ i <= Length(r)
      BY <1>1, <1>2
    <2>2. x \in 0 .. (2 * RingSize - 1)
      BY <1>1, <1>2, <2>1
    <2>3. x % RingSize = y
      <3>1. RingSize \in Nat \ {0}
        BY <1>1
      <3> HIDE DEF x
      <3> QED
        BY <2>2, <3>1, Wraps
    <2>4. Nth(r, i) = r.buf[y]
      BY <2>3 DEF Nth
    <2>5. y \in Nat /\ y < RingSize
      BY <1>1, <2>2
    <2> HIDE DEF y
    <2>6. /\ y < r.next => r.buf[y] = n - r.next + y + 1
          /\ n >= RingSize /\ y >= r.next => r.buf[y] = n - RingSize - r.next + y + 1
      BY <1>h, <2>5
    <2>7. CASE n >= RingSize
      BY <1>1, <1>2, <2>1, <2>4, <2>5, <2>6, <2>7 DEF y
    <2>8. CASE n < RingSize
      BY <1>1, <1>2, <2>1, <2>4, <2>5, <2>6, <2>8 DEF y
    <2> QED
      BY <1>1, <2>7, <2>8
  <1>4. OldestSeq(r) = IF n = 0 THEN 0 ELSE n - Length(r) + 1
    <2>1. CASE n >= RingSize
      <3>1. OldestSeq(r) = r.buf[r.next]
        BY <1>f, <2>1 DEF OldestSeq
      <3> QED
        BY <1>1, <1>2, <1>h, <2>1, <3>1
    <2>2. CASE n < RingSize
      <3>1. OldestSeq(r) = IF r.next = 0 THEN 0 ELSE r.buf[0]
        BY <1>1, <1>f, <2>2 DEF OldestSeq
      <3> QED
        BY <1>1, <1>2, <1>h, <2>2, <3>1
    <2> QED
      BY <1>1, <2>1, <2>2
  <1> QED
    BY <1>2, <1>3, <1>4

(* since returns exactly the messages after last that the ring still has:  *)
(* the newest of them is n, and they are in order and without a hole.      *)
LEMMA SinceReads ==
  ASSUME NEW r, NEW n \in Nat, RingHolds(r, n), NEW last \in 0 .. n
  PROVE  LET m == IF n - last <= Length(r) THEN n - last ELSE Length(r)
         IN  m \in Nat /\ m <= n - last /\ Since(r, last) = [k \in 1 .. m |-> n - m + k]
  <1> DEFINE L == Length(r)
             m == IF n - last <= L THEN n - last ELSE L
             c == L - m
             kept == {i \in 1 .. L : Nth(r, i) > last}
             Kth(k) == CHOOSE i \in kept : Cardinality({j \in kept : j <= i}) = k
  <1>1. L \in Nat /\ L <= n
    <2>1. RingSize \in Nat
      BY RingFacts
    <2> QED
      BY <2>1, RingReads
  <1>2. m \in Nat /\ c \in Nat /\ m <= n - last /\ c = L - m /\ c <= L
    BY <1>1
  <1>3. \A i \in 1 .. L : Nth(r, i) = n - L + i
    BY RingReads
  <1>4. Since(r, last) = [k \in 1 .. Cardinality(kept) |-> Nth(r, Kth(k))]
    BY DEF Since
  <1>5. ASSUME NEW i \in 1 .. L PROVE Nth(r, i) > last <=> i >= c + 1
    <2>1. Nth(r, i) = n - L + i
      BY <1>3
    <2> QED
      BY <1>1, <2>1
  <1>6. kept = (c + 1) .. L
    <2> HIDE DEF L, c
    <2>1. \A i : i \in 1 .. L /\ i >= c + 1 <=> i \in (c + 1) .. L
      BY <1>1, <1>2
    <2> QED
      BY <1>5, <2>1
  <1> HIDE DEF L, m, c
  <1>7. Cardinality(kept) = m
    <2>1. Cardinality((c + 1) .. L) = L - (c + 1) + 1
      BY <1>1, <1>2, IntervalSize
    <2>2. L - (c + 1) + 1 = m
      BY <1>1, <1>2
    <2> HIDE DEF kept
    <2> QED
      BY <1>6, <2>1, <2>2
  <1>8. ASSUME NEW k \in 1 .. m PROVE Nth(r, Kth(k)) = n - m + k
    <2>1. k \in 1 .. (L - c)
      BY <1>1, <1>2
    <2>2. Kth(k) = c + k
      <3> HIDE DEF kept
      <3>1. (CHOOSE i \in (c + 1) .. L : Cardinality({j \in (c + 1) .. L : j <= i}) = k) = c + k
        BY <1>1, <1>2, <2>1, KthOfInterval
      <3> QED
        BY <1>6, <3>1
    <2>3. c + k \in 1 .. L /\ n - L + (c + k) = n - m + k
      BY <1>1, <1>2, <2>1
    <2> HIDE DEF Kth
    <2> QED
      BY <1>3, <2>2, <2>3
  <1>9. Since(r, last) = [k \in 1 .. m |-> n - m + k]
    <2> HIDE DEF kept, Kth
    <2> QED
      BY <1>4, <1>7, <1>8
  <1> QED
    BY <1>2, <1>9 DEF m, L

(* What replaySince answers a client that saw messages up to last. *)
LEMMA ReplayReads ==
  ASSUME NEW n \in Nat, RingHolds(ring, n), NEW last \in 0 .. n
  PROVE  LET got == Replayed(ring, n, last)
             m == Len(got)
         IN  /\ m \in Nat /\ m <= n - last
             /\ got = [k \in 1 .. m |-> n - m + k]
             /\ ReplayGap(ring, n, last) <=> m < n - last
             /\ m < n - last => m = RingSize
  <1> DEFINE L == Length(ring)
             m == IF n - last <= L THEN n - last ELSE L
  <1>1. RingSize \in Nat /\ RingSize > 0
    BY RingFacts
  <1>2. L = (IF n >= RingSize THEN RingSize ELSE n)
        /\ OldestSeq(ring) = IF n = 0 THEN 0 ELSE n - L + 1
    BY RingReads
  <1>3. m \in Nat /\ m <= n - last /\ Since(ring, last) = [k \in 1 .. m |-> n - m + k]
    BY SinceReads
  <1>4. Replayed(ring, n, last) = [k \in 1 .. m |-> n - m + k]
    <2>1. CASE last = n
      <3>1. m = 0
        BY <1>1, <1>2, <2>1
      <3>2. Replayed(ring, n, last) = <<>>
        BY <2>1 DEF Replayed
      <3> HIDE DEF m
      <3> QED
        BY <3>1, <3>2
    <2>2. CASE last # n
      BY <1>3, <2>2 DEF Replayed
    <2> QED
      BY <2>1, <2>2
  <1>5. Len(Replayed(ring, n, last)) = m
    <2> HIDE DEF m
    <2> QED
      BY <1>3, <1>4
  <1>6. ReplayGap(ring, n, last) <=> m < n - last
    BY <1>1, <1>2 DEF ReplayGap
  <1>7. m < n - last => m = RingSize
    BY <1>1, <1>2
  <1> HIDE DEF m
  <1> QED
    BY <1>3, <1>4, <1>5, <1>6, <1>7

(* The buffer of the tab has a first message. *)
LEMMA MinReads ==
  ASSUME NEW S \in SUBSET (1 .. MaxSeq), S # {}
  PROVE  MinOf(S) \in S /\ \A s \in S : MinOf(S) <= s
  <1>1. S \in SUBSET Nat
    BY StreamConstants DEF StreamConstants
  <1>2. \E n \in S : \A m \in S : n <= m
    BY <1>1, LeastNat
  <1> QED
    BY <1>2 DEF MinOf

(* flushBufferedInOrder stops before the first message it does not have.   *)
LEMMA FlushReads ==
  ASSUME NEW from \in 0 .. MaxSeq, NEW buffer \in SUBSET (1 .. MaxSeq)
  PROVE  LET n == FlushedTo(from, buffer)
         IN  n \in from .. MaxSeq /\ (from + 1) .. n \subseteq buffer /\ n + 1 \notin buffer
  <1> DEFINE T == {n \in Nat : n >= from /\ n + 1 \notin buffer}
  <1>0. MaxSeq \in Nat
    BY StreamConstants DEF StreamConstants
  <1>1. MaxSeq \in T
    <2>1. MaxSeq + 1 \notin 1 .. MaxSeq
      BY <1>0
    <2> QED
      BY <1>0, <2>1
  <1>2. PICK n \in T : \A m \in T : n <= m
    <2>1. T \in SUBSET Nat /\ T # {}
      BY <1>1
    <2> HIDE DEF T
    <2> QED
      BY <2>1, LeastNat
  <1>3. n \in Nat /\ n >= from /\ n <= MaxSeq /\ n + 1 \notin buffer
    BY <1>1, <1>2
  <1>4. (from + 1) .. n \subseteq buffer
    <2> SUFFICES ASSUME NEW s \in (from + 1) .. n, s \notin buffer PROVE FALSE
      OBVIOUS
    <2>1. s \in Nat /\ s - 1 \in Nat /\ s - 1 >= from /\ s - 1 < n /\ (s - 1) + 1 = s
      BY <1>0, <1>3
    <2>2. s - 1 \in T
      BY <2>1
    <2> QED
      BY <1>2, <1>3, <2>1, <2>2
  <1>5. \E k \in from .. MaxSeq : (from + 1) .. k \subseteq buffer /\ k + 1 \notin buffer
    BY <1>0, <1>3, <1>4
  <1> QED
    BY <1>5 DEF FlushedTo

--------------------------------------------------------------------------------
(* The tab.                                                                *)

(* What its handlers got is in order and not ahead of it, its buffer is    *)
(* ahead of a hole, and behind its anchor nothing is missing that it has    *)
(* not given up under a warning.                                           *)
Given == told \cup hushed

NoSkip == \A s \in anchor .. tab.last : s = 0 \/ s \in Dispatched \cup Given

GivenOK ==
  /\ told \subseteq 1 .. MaxSeq /\ hushed \subseteq 1 .. MaxSeq /\ warned \in BOOLEAN
  /\ hushed # {} => warned

TabInv ==
  /\ tab \in [epoch : Epoch \cup {NoEpoch}, last : Seq0, buffer : SUBSET (1 .. MaxSeq),
              timer : BOOLEAN]
  /\ resumePending \in BOOLEAN
  /\ anchor \in Seq0 /\ dispatched \in Seq(1 .. MaxSeq) /\ GivenOK
  /\ BufferIsAhead
  /\ anchor <= tab.last /\ \A i \in DOMAIN dispatched : dispatched[i] <= tab.last
  /\ DispatchedInOrder
  /\ NoSkip

(* A tab that knows nothing of the session yet. *)
LEMMA TabStarts ==
  ASSUME tab = [epoch |-> NoEpoch, last |-> 0, buffer |-> {}, timer |-> FALSE],
         resumePending = FALSE, anchor = 0, dispatched = <<>>, told = {},
         hushed = {}, warned = FALSE
  PROVE  TabInv
  <1>1. MaxSeq \in Nat
    BY StreamConstants DEF StreamConstants
  <1>2. tab.buffer = {} /\ tab.last = 0
    OBVIOUS
  <1>3. BufferIsAhead
    BY <1>2 DEF BufferIsAhead
  <1>4. NoSkip
    BY <1>2 DEF NoSkip
  <1>5. DispatchedInOrder
    BY DEF DispatchedInOrder
  <1>6. tab \in [epoch : Epoch \cup {NoEpoch}, last : Seq0, buffer : SUBSET (1 .. MaxSeq),
                timer : BOOLEAN]
    BY <1>1 DEF Seq0
  <1>7. /\ resumePending \in BOOLEAN /\ anchor \in Seq0 /\ dispatched \in Seq(1 .. MaxSeq)
        /\ GivenOK
    <2>1. resumePending \in BOOLEAN
      OBVIOUS
    <2>2. anchor \in Seq0
      BY <1>1 DEF Seq0
    <2>3. dispatched \in Seq(1 .. MaxSeq)
      OBVIOUS
    <2>4. GivenOK
      BY DEF GivenOK
    <2> QED
      BY <2>1, <2>2, <2>3, <2>4
  <1>8. anchor <= tab.last /\ DOMAIN dispatched = {}
    BY <1>2
  <1> QED
    BY <1>3, <1>4, <1>5, <1>6, <1>7, <1>8 DEF TabInv

(* The timer and the wish to resume play no part in the invariant. *)
LEMMA TabRests ==
  ASSUME TabInv, tab' = tab \/ tab' = [tab EXCEPT !.timer = FALSE],
         resumePending' \in BOOLEAN, UNCHANGED <<anchor, dispatched, told, hushed, warned>>
  PROVE  TabInv' /\ tab'.epoch = tab.epoch /\ tab'.last = tab.last
  <1>1. /\ tab' \in [epoch : Epoch \cup {NoEpoch}, last : Seq0, buffer : SUBSET (1 .. MaxSeq),
                     timer : BOOLEAN]
        /\ tab'.last = tab.last /\ tab'.buffer = tab.buffer /\ tab'.epoch = tab.epoch
    BY DEF TabInv
  <1>2. BufferIsAhead' /\ DispatchedInOrder'
    BY <1>1 DEF TabInv, BufferIsAhead, DispatchedInOrder
  <1>3. NoSkip'
    BY <1>1 DEF TabInv, NoSkip, Dispatched, Given
  <1>4. GivenOK'
    BY DEF TabInv, GivenOK
  <1> QED
    BY <1>1, <1>2, <1>3, <1>4 DEF TabInv

(* The first message of an epoch anchors the tab. *)
LEMMA TabAnchors ==
  ASSUME TabInv, NEW m \in Frame, m.seq # 0, NewEpoch(m), UNCHANGED resumePending
  PROVE  TabInv' /\ tab'.epoch = m.epoch /\ tab'.last = m.seq /\ anchor' = m.seq
  <1>1. m.seq \in 1 .. MaxSeq /\ m.seq \in Seq0 /\ m.epoch \in Epoch
    BY StreamConstants DEF StreamConstants, Frame, Seq0
  <1>2. tab' = [epoch |-> m.epoch, last |-> m.seq, buffer |-> {}, timer |-> FALSE]
    BY DEF NewEpoch
  <1>3. tab'.last = m.seq /\ tab'.buffer = {} /\ tab'.epoch = m.epoch
    BY <1>2
  <1>4. anchor' = m.seq /\ dispatched' = <<m.seq>> /\ GivenOK'
    BY DEF NewEpoch, TabInv, GivenOK
  <1>5. BufferIsAhead'
    BY <1>3 DEF BufferIsAhead
  <1>6. dispatched' \in Seq(1 .. MaxSeq) /\ DOMAIN dispatched' = {1} /\ dispatched'[1] = m.seq
    BY <1>1, <1>4
  <1>7. DispatchedInOrder'
    BY <1>6 DEF DispatchedInOrder
  <1>8. NoSkip'
    <2>1. m.seq \in Dispatched'
      BY <1>6 DEF Dispatched
    <2>2. \A s \in m.seq .. m.seq : s = m.seq
      BY <1>1
    <2> QED
      BY <1>3, <1>4, <2>1, <2>2 DEF NoSkip
  <1>9. anchor' <= tab'.last /\ \A i \in DOMAIN dispatched' : dispatched'[i] <= tab'.last
    BY <1>1, <1>3, <1>4, <1>6 DEF Seq0
  <1> QED
    BY <1>1, <1>2, <1>3, <1>4, <1>5, <1>6, <1>7, <1>8, <1>9 DEF TabInv

(* The tab dispatches from + 1 and what its buffer continues with; it has  *)
(* told of what it skips to get there.                                     *)
LEMMA TabDispatches ==
  ASSUME TabInv, NEW from \in Seq0, from >= tab.last, NEW buffer \in SUBSET (1 .. MaxSeq),
         from + 1 \in buffer, \A s \in buffer : s > from,
         DispatchFrom(from, buffer),
         Given \subseteq Given', (tab.last + 1) .. from \subseteq Given', GivenOK',
         UNCHANGED <<anchor, resumePending>>
  PROVE  TabInv' /\ tab'.epoch = tab.epoch /\ tab'.last >= from + 1
  <1> DEFINE last == FlushedTo(from, buffer)
             rest == buffer \ ((from + 1) .. last)
             more == [i \in 1 .. last - from |-> from + i]
             on == tab.timer /\ rest # {}
  <1>0. MaxSeq \in Nat /\ from \in 0 .. MaxSeq
    BY StreamConstants DEF StreamConstants, Seq0
  <1>1. last \in from .. MaxSeq /\ (from + 1) .. last \subseteq buffer /\ last + 1 \notin buffer
    BY <1>0, FlushReads
  <1>2. last \in Nat /\ last >= from + 1 /\ last <= MaxSeq
    <2>1. last # from
      BY <1>1
    <2> HIDE DEF last
    <2> QED
      BY <1>0, <1>1, <2>1
  <1>3. tab' = [tab EXCEPT !.last = last, !.buffer = rest, !.timer = on]
    BY DEF DispatchFrom, TabInv
  <1>4. dispatched' = dispatched \o more
    BY DEF DispatchFrom
  <1> HIDE DEF last
  <1>5. rest \in SUBSET (1 .. MaxSeq) /\ \A s \in rest : s > last + 1
    <2>1. ASSUME NEW s \in rest PROVE s > last + 1
      <3>1. s \in buffer /\ s > from /\ s # last + 1 /\ s \in Nat
        BY <1>0, <1>1
      <3>2. ~(s >= from + 1 /\ s <= last)
        BY <1>0, <1>2, <3>1
      <3> QED
        BY <1>0, <1>2, <3>1, <3>2
    <2> QED
      BY <2>1
  <1>6. on \in BOOLEAN
    BY DEF TabInv
  <1>7. more \in Seq(1 .. MaxSeq) /\ Len(more) = last - from
        /\ \A i \in 1 .. Len(more) : more[i] = from + i
    <2>1. PICK n \in Nat : n = last - from
      BY <1>0, <1>2
    <2>2. \A i \in 1 .. n : from + i \in 1 .. MaxSeq
      BY <1>0, <1>2, <2>1
    <2>3. more = [i \in 1 .. n |-> from + i]
      BY <2>1
    <2> HIDE DEF more
    <2>4. more \in Seq(1 .. MaxSeq) /\ Len(more) = n
      BY <2>2, <2>3
    <2>5. \A i \in 1 .. n : more[i] = from + i
      BY <2>3
    <2> QED
      BY <2>1, <2>4, <2>5
  <1> HIDE DEF rest, more, on
  <1>8. /\ tab' \in [epoch : Epoch \cup {NoEpoch}, last : Seq0, buffer : SUBSET (1 .. MaxSeq),
                     timer : BOOLEAN]
        /\ tab'.last = last /\ tab'.buffer = rest /\ tab'.epoch = tab.epoch
    <2>1. last \in Seq0
      BY <1>2 DEF Seq0
    <2> QED
      BY <1>3, <1>5, <1>6, <2>1 DEF TabInv
  <1>9. BufferIsAhead'
    BY <1>5, <1>8 DEF BufferIsAhead
  <1>10. /\ dispatched' \in Seq(1 .. MaxSeq)
         /\ Len(dispatched') = Len(dispatched) + (last - from)
         /\ \A i \in 1 .. Len(dispatched) : dispatched'[i] = dispatched[i]
         /\ \A i \in 1 .. last - from : dispatched'[Len(dispatched) + i] = from + i
    <2>1. PICK n \in Nat : n = last - from
      BY <1>0, <1>2
    <2>2. Len(more) = n /\ \A i \in 1 .. n : more[i] = from + i
      BY <1>7, <2>1
    <2>3. dispatched \in Seq(1 .. MaxSeq) /\ more \in Seq(1 .. MaxSeq)
      BY <1>7 DEF TabInv
    <2>4. dispatched' \in Seq(1 .. MaxSeq) /\ Len(dispatched') = Len(dispatched) + n
      <3>1. dispatched' \in Seq(1 .. MaxSeq)
        BY <1>4, <2>3
      <3>2. Len(dispatched') = Len(dispatched) + Len(more)
        BY <1>4, <2>3
      <3> QED
        BY <2>2, <3>1, <3>2
    <2>5. \A i \in 1 .. Len(dispatched) : dispatched'[i] = dispatched[i]
      BY <1>4, <2>3
    <2>6. ASSUME NEW i \in 1 .. n PROVE dispatched'[Len(dispatched) + i] = from + i
      <3>1. Len(dispatched) \in Nat /\ Len(more) = n
        BY <2>2, <2>3
      <3>2. dispatched'[Len(dispatched) + i] = more[i]
        BY <1>4, <2>3, <3>1
      <3> QED
        BY <2>2, <3>2
    <2> QED
      BY <2>1, <2>4, <2>5, <2>6
  <1> DEFINE d == Len(dispatched)
  <1>11. /\ d \in Nat /\ DOMAIN dispatched = 1 .. d
         /\ DOMAIN dispatched' = 1 .. (d + (last - from))
    BY <1>10 DEF TabInv
  <1>12. ASSUME NEW i \in 1 .. (d + (last - from))
         PROVE  \/ i <= d /\ dispatched'[i] = dispatched[i]
                \/ i > d /\ dispatched'[i] = from + (i - d)
    <2>1. CASE i <= d
      BY <1>10, <1>11, <2>1
    <2>2. CASE i > d
      <3>1. i - d \in 1 .. last - from /\ d + (i - d) = i
        BY <1>0, <1>2, <1>11, <2>2
      <3> QED
        BY <1>10, <2>2, <3>1
    <2> QED
      BY <1>11, <2>1, <2>2
  <1>13. /\ tab.last \in Nat /\ from \in Nat /\ anchor \in Nat
         /\ \A i \in 1 .. d : dispatched[i] \in Nat /\ dispatched[i] <= tab.last
    BY <1>0, <1>11 DEF TabInv, Seq0
  <1>14. \A i \in DOMAIN dispatched' : dispatched'[i] <= tab'.last
    BY <1>2, <1>8, <1>11, <1>12, <1>13
  <1>15. DispatchedInOrder'
    <2> SUFFICES ASSUME NEW i \in DOMAIN dispatched', NEW j \in DOMAIN dispatched', i < j
                 PROVE  dispatched'[i] < dispatched'[j]
      BY DEF DispatchedInOrder
    <2>1. i \in 1 .. (d + (last - from)) /\ j \in 1 .. (d + (last - from))
      BY <1>11
    <2>2. CASE j <= d
      <3>1. i \in 1 .. d /\ j \in 1 .. d
        BY <1>11, <2>1, <2>2
      <3>2. dispatched[i] < dispatched[j]
        BY <1>11, <3>1 DEF TabInv, DispatchedInOrder
      <3> QED
        BY <1>10, <3>1, <3>2
    <2>3. CASE j > d
      <3>1. dispatched'[j] = from + (j - d)
        BY <1>11, <1>12, <2>1, <2>3
      <3> QED
        BY <1>11, <1>12, <1>13, <2>1, <2>3, <3>1
    <2> QED
      BY <1>11, <2>1, <2>2, <2>3
  <1>16. NoSkip'
    <2> SUFFICES ASSUME NEW s \in anchor .. last, s # 0 PROVE s \in Dispatched' \cup Given'
      BY <1>8 DEF NoSkip
    <2>1. CASE s <= tab.last
      <3>1. s \in Dispatched \cup Given
        BY <1>2, <1>13, <2>1 DEF TabInv, NoSkip
      <3>2. Dispatched \subseteq Dispatched'
        <4> SUFFICES ASSUME NEW i \in 1 .. d PROVE dispatched[i] \in Dispatched'
          BY <1>11 DEF Dispatched
        <4>1. i \in DOMAIN dispatched' /\ dispatched'[i] = dispatched[i]
          BY <1>0, <1>2, <1>10, <1>11
        <4> QED
          BY <4>1 DEF Dispatched
      <3> QED
        BY <3>1, <3>2
    <2>2. CASE s > tab.last /\ s <= from
      BY <1>13, <2>2
    <2>3. CASE s > from
      <3>1. s - from \in 1 .. last - from /\ from + (s - from) = s
        BY <1>2, <1>13, <2>3
      <3>2. dispatched'[d + (s - from)] = s
        BY <1>10, <3>1
      <3>3. d + (s - from) \in DOMAIN dispatched'
        BY <1>2, <1>11, <1>13, <3>1
      <3> QED
        BY <3>2, <3>3 DEF Dispatched
    <2> QED
      BY <1>2, <1>13, <2>1, <2>2, <2>3
  <1>17. anchor' <= tab'.last
    BY <1>2, <1>8, <1>13 DEF TabInv
  <1> QED
    BY <1>2, <1>8, <1>9, <1>10, <1>14, <1>15, <1>16, <1>17 DEF TabInv

(* A warning, shown or hushed, names what is skipped. *)
LEMMA WarnNames ==
  ASSUME TabInv, NEW skipped \in SUBSET (1 .. MaxSeq), Warn(skipped)
  PROVE  Given \subseteq Given' /\ skipped \subseteq Given' /\ GivenOK'
  BY DEF TabInv, Warn, Given, GivenOK

(* A step that dispatches nothing keeps the invariant when the buffer      *)
(* stays ahead of a hole and nothing that was told is taken back.          *)
LEMMA TabWaits ==
  ASSUME TabInv, UNCHANGED <<anchor, dispatched, resumePending>>,
         tab' \in [epoch : Epoch \cup {NoEpoch}, last : Seq0, buffer : SUBSET (1 .. MaxSeq),
                   timer : BOOLEAN],
         tab'.last = tab.last, BufferIsAhead',
         Given \subseteq Given', GivenOK'
  PROVE  TabInv'
  <1>1. DispatchedInOrder'
    BY DEF TabInv, DispatchedInOrder
  <1>2. NoSkip'
    BY DEF TabInv, NoSkip, Dispatched
  <1> QED
    BY <1>1, <1>2 DEF TabInv

(* resume_ok may add to what was told. *)
LEMMA TabResumes ==
  ASSUME TabInv, NEW m \in Frame, Resumed(m), UNCHANGED resumePending
  PROVE  TabInv' /\ tab' = tab
  <1>1. 1 .. m.seq \subseteq 1 .. MaxSeq
    BY StreamConstants DEF StreamConstants, Frame, Seq0
  <1>2. Given \subseteq Given' /\ GivenOK'
    <2>1. told \subseteq told' /\ told' \subseteq 1 .. MaxSeq /\ UNCHANGED <<hushed, warned>>
      BY <1>1 DEF TabInv, GivenOK, Resumed
    <2> QED
      BY <2>1 DEF TabInv, Given, GivenOK
  <1>3. tab' = tab /\ UNCHANGED <<anchor, dispatched>>
    BY DEF Resumed
  <1>4. BufferIsAhead'
    BY <1>3 DEF TabInv, BufferIsAhead
  <1> QED
    BY <1>2, <1>3, <1>4, TabWaits DEF TabInv

(* The message after the last one is dispatched, with what it closes up to. *)
LEMMA TabTakes ==
  ASSUME TabInv, NEW m \in Frame, m.seq = tab.last + 1, InTurn(m), UNCHANGED resumePending
  PROVE  TabInv' /\ tab'.epoch = tab.epoch /\ tab'.last >= m.seq
  <1> DEFINE buffer == tab.buffer \cup {m.seq}
  <1>1. tab.last \in Nat /\ m.seq \in 1 .. MaxSeq /\ tab.last \in Seq0 /\ m.seq \in Nat
    BY StreamConstants DEF StreamConstants, TabInv, Frame, Seq0
  <1>2. buffer \in SUBSET (1 .. MaxSeq)
    BY <1>1 DEF TabInv
  <1>3. \A s \in buffer : s > tab.last
    <2> SUFFICES ASSUME NEW s \in tab.buffer PROVE s > tab.last
      BY <1>1
    <2>1. s \in 1 .. MaxSeq /\ s > tab.last + 1
      BY DEF TabInv, BufferIsAhead
    <2> QED
      BY <1>1, <2>1
  <1>4. DispatchFrom(tab.last, buffer) /\ UNCHANGED <<anchor, told, hushed, warned>>
    BY DEF InTurn
  <1>5. tab.last + 1 \in buffer /\ (tab.last + 1) .. tab.last = {} /\ tab.last >= tab.last
    BY <1>1
  <1>6. Given \subseteq Given' /\ GivenOK'
    BY <1>4 DEF TabInv, Given, GivenOK
  <1> HIDE DEF buffer
  <1>7. TabInv' /\ tab'.epoch = tab.epoch /\ tab'.last >= tab.last + 1
    BY <1>1, <1>2, <1>3, <1>4, <1>5, <1>6, TabDispatches
  <1> QED
    BY <1>7

(* A message that is too early waits, or pushes the oldest one out. *)
LEMMA TabBuffers ==
  ASSUME TabInv, NEW m \in Frame, m.seq > tab.last + 1, TooEarly(m), UNCHANGED resumePending
  PROVE  TabInv' /\ tab'.epoch = tab.epoch /\ tab'.last = tab.last
  <1> DEFINE buffer == (tab.buffer \ GivenUp) \cup {m.seq}
  <1>1. tab.last \in Nat /\ m.seq \in 1 .. MaxSeq
    BY StreamConstants DEF StreamConstants, TabInv, Frame, Seq0
  <1>2. GivenUp \subseteq tab.buffer
    <2> SUFFICES ASSUME Cardinality(tab.buffer) >= SeqBufferMax
                 PROVE  MinOf(tab.buffer) \in tab.buffer
      BY DEF GivenUp
    <2>1. tab.buffer # {}
      <3>1. Cardinality({}) = 0
        BY FS_EmptySet
      <3>2. SeqBufferMax \in Nat /\ SeqBufferMax # 0
        BY StreamConstants DEF StreamConstants
      <3> QED
        BY <3>1, <3>2
    <2>2. tab.buffer \in SUBSET (1 .. MaxSeq)
      BY DEF TabInv
    <2> QED
      BY <2>1, <2>2, MinReads
  <1>3. tab.buffer \in SUBSET (1 .. MaxSeq) /\ buffer \in SUBSET (1 .. MaxSeq)
    BY <1>1 DEF TabInv
  <1>4. tab' = [tab EXCEPT !.buffer = buffer, !.timer = TRUE]
    BY DEF TooEarly, TabInv
  <1>5. UNCHANGED <<anchor, dispatched>>
    BY DEF TooEarly
  <1>6. \A s \in buffer : s > tab.last + 1
    BY <1>1 DEF TabInv, BufferIsAhead
  <1> HIDE DEF buffer
  <1>7. /\ tab' \in [epoch : Epoch \cup {NoEpoch}, last : Seq0, buffer : SUBSET (1 .. MaxSeq),
                     timer : BOOLEAN]
        /\ tab'.last = tab.last /\ tab'.buffer = buffer /\ tab'.epoch = tab.epoch
    BY <1>3, <1>4 DEF TabInv
  <1>8. BufferIsAhead'
    BY <1>6, <1>7 DEF BufferIsAhead
  <1>9. Given \subseteq Given' /\ GivenOK'
    <2>1. CASE GivenUp = {}
      BY <2>1 DEF TooEarly, TabInv, Given, GivenOK
    <2>2. CASE Warn(GivenUp)
      BY <1>2, <1>3, <2>2, WarnNames
    <2> QED
      BY <2>1, <2>2 DEF TooEarly
  <1> QED
    BY <1>5, <1>7, <1>8, <1>9, TabWaits

(* The gap timer gives up on a hole, or finds there is none. *)
LEMMA TabGivesUp ==
  ASSUME TabInv, GapTimer
  PROVE  TabInv' /\ tab'.epoch = tab.epoch /\ tab'.last >= tab.last
  <1> DEFINE first == MinOf(tab.buffer)
  <1>0. tab.last \in Nat /\ tab.last \in Seq0 /\ tab.buffer \in SUBSET (1 .. MaxSeq)
        /\ MaxSeq \in Nat
    BY StreamConstants DEF StreamConstants, TabInv, Seq0
  <1>1. UNCHANGED <<resumePending, anchor>>
    BY DEF GapTimer
  <1>2. CASE tab.buffer = {} \/ first <= tab.last + 1
    <2>1. tab' = [tab EXCEPT !.timer = FALSE] /\ UNCHANGED <<dispatched, told, hushed, warned>>
      BY <1>2 DEF GapTimer
    <2>2. resumePending' \in BOOLEAN
      BY <1>1 DEF TabInv
    <2> QED
      <3>1. TabInv' /\ tab'.epoch = tab.epoch /\ tab'.last = tab.last
        BY <1>1, <2>1, <2>2, TabRests
      <3> QED
        BY <1>0, <3>1
  <1>3. CASE ~(tab.buffer = {} \/ first <= tab.last + 1)
    <2>1. /\ DispatchFrom(first - 1, tab.buffer)
          /\ Warn((tab.last + 1) .. (first - 1))
      BY <1>3 DEF GapTimer
    <2>2. first \in tab.buffer /\ \A s \in tab.buffer : first <= s
      BY <1>0, <1>3, MinReads
    <2>3. first \in 1 .. MaxSeq /\ first > tab.last + 1
      BY <1>0, <1>3, <2>2
    <2> HIDE DEF first
    <2> DEFINE from == first - 1
    <2>4. /\ from \in Seq0 /\ from >= tab.last /\ from + 1 = first
          /\ \A s \in tab.buffer : s > from
      BY <1>0, <2>2, <2>3 DEF Seq0
    <2>5. /\ Given \subseteq Given' /\ (tab.last + 1) .. from \subseteq Given'
          /\ GivenOK'
      <3>1. Warn((tab.last + 1) .. from)
        BY <2>1
      <3>2. from \in Nat /\ from <= MaxSeq
        BY <1>0, <2>3
      <3>3. (tab.last + 1) .. from \subseteq 1 .. MaxSeq
        BY <1>0, <3>2
      <3> QED
        BY <3>1, <3>3, WarnNames
    <2>6. DispatchFrom(from, tab.buffer)
      BY <2>1
    <2> HIDE DEF from
    <2>7. TabInv' /\ tab'.epoch = tab.epoch /\ tab'.last >= from + 1
      BY <1>0, <1>1, <2>2, <2>4, <2>5, <2>6, TabDispatches
    <2>8. tab'.last \in Nat
      BY <2>7 DEF TabInv, Seq0
    <2> QED
      BY <1>0, <2>3, <2>4, <2>7, <2>8
  <1> QED
    BY <1>2, <1>3

--------------------------------------------------------------------------------
(* The hub and the connection.                                             *)

Request == [last : Seq0, epoch : Epoch \cup {NoEpoch}] \cup {Nobody}

HubInv ==
  /\ restarts \in 0 .. MaxRestarts /\ disconnects \in 0 .. MaxDisconnects
  /\ epoch = restarts + 1 /\ seq \in Seq0
  /\ ring \in [buf : [Slot -> Seq0], next : Slot, full : BOOLEAN]
  /\ RingHolds(ring, seq)
  /\ stamped \in [Sender -> Seq0]

(* Every frame under way is of the running process, every event numbered.  *)
Numbered(q) == \A i \in DOMAIN q : q[i].epoch = epoch /\ (q[i].type = "event" => q[i].seq # 0)

(* Nothing is under way without a connection, and a connection sees its    *)
(* resume request answered once, before anything is replayed.              *)
ConnInv ==
  /\ up \in BOOLEAN /\ drops \in Nat
  /\ send \in Seq(Frame) /\ Len(send) <= SendBuf /\ replay \in Seq(Frame)
  /\ resume \in Request /\ asked \in Request
  /\ Numbered(send) /\ Numbered(replay)
  /\ ~up => send = <<>> /\ replay = <<>> /\ resume = Nobody /\ asked = Nobody
  /\ resume # Nobody => replay = <<>> /\ \A i \in DOMAIN send : send[i].type = "event"

(* A tab that asked with the epoch of the process still follows it, at or  *)
(* behind its anchor then and at or behind its last message now.           *)
Known(rq) == rq.epoch = epoch => tab.epoch = epoch /\ anchor <= rq.last /\ rq.last <= tab.last

StreamInv ==
  /\ HubInv /\ ConnInv /\ TabInv
  /\ Known(resume) /\ Known(asked)

(* The first process, and no connection. *)
LEMMA StreamInit == Init => StreamInv
  <1> SUFFICES ASSUME Init PROVE StreamInv
    OBVIOUS
  <1>0. /\ MaxSeq \in Nat /\ RingSize \in Nat \ {0} /\ SendBuf \in Nat
        /\ MaxRestarts \in Nat /\ MaxDisconnects \in Nat
    BY StreamConstants DEF StreamConstants
  <1>1. TabInv
    BY TabStarts DEF Init
  <1>2. HubInv
    <2>1. ring \in [buf : [Slot -> Seq0], next : Slot, full : BOOLEAN]
      BY <1>0 DEF Init, EmptyRing, Slot, Seq0
    <2>2. RingHolds(ring, seq)
      BY RingStarts DEF Init
    <2>3. stamped \in [Sender -> Seq0] /\ seq \in Seq0
      BY <1>0 DEF Init, Seq0
    <2> QED
      BY <1>0, <2>1, <2>2, <2>3 DEF HubInv, Init
  <1>3. ConnInv
    <2>1. /\ up = FALSE /\ send = <<>> /\ drops = 0 /\ replay = <<>>
          /\ resume = Nobody /\ asked = Nobody
      BY DEF Init
    <2>2. send \in Seq(Frame) /\ replay \in Seq(Frame) /\ Len(send) = 0
          /\ DOMAIN send = {} /\ DOMAIN replay = {}
      BY <2>1
    <2>3. Numbered(send) /\ Numbered(replay)
      BY <2>2 DEF Numbered
    <2>4. up \in BOOLEAN /\ drops \in Nat /\ resume \in Request /\ asked \in Request
      BY <2>1 DEF Request
    <2> QED
      BY <1>0, <2>1, <2>2, <2>3, <2>4 DEF ConnInv
  <1>4. Known(resume) /\ Known(asked)
    BY DEF Init, Known, Nobody, NoEpoch
  <1> QED
    BY <1>1, <1>2, <1>3, <1>4 DEF StreamInv

(* The tab may go on while a request is known. *)
LEMMA KnownKept ==
  ASSUME TabInv, TabInv', NEW rq \in Request, Known(rq), UNCHANGED epoch,
         tab.epoch = epoch => /\ tab'.epoch = tab.epoch /\ tab'.last >= tab.last
                              /\ anchor' = anchor
  PROVE  rq.epoch = epoch' => /\ tab'.epoch = epoch' /\ anchor' <= rq.last
                              /\ rq.last <= tab'.last
  <1> SUFFICES ASSUME rq.epoch = epoch
               PROVE  tab'.epoch = epoch /\ anchor' <= rq.last /\ rq.last <= tab'.last
    OBVIOUS
  <1>1. tab.epoch = epoch /\ anchor <= rq.last /\ rq.last <= tab.last
    BY DEF Known
  <1>2. tab'.last >= tab.last /\ tab'.epoch = epoch /\ anchor' = anchor
    BY <1>1
  <1>3. rq.last \in Int /\ tab.last \in Int /\ tab'.last \in Int
    BY StreamConstants DEF StreamConstants, Request, Nobody, TabInv, Seq0
  <1> QED
    BY <1>1, <1>2, <1>3

(* The next number and its place in the ring. *)
LEMMA HubRecords ==
  ASSUME HubInv, seq < MaxSeq, seq' = seq + 1, ring' = Added(ring, seq'),
         stamped' \in [Sender -> Seq0], UNCHANGED <<epoch, disconnects, restarts>>
  PROVE  HubInv'
  <1>1. seq \in Nat /\ MaxSeq \in Nat /\ seq' \in Seq0 /\ RingSize \in Nat \ {0}
    BY StreamConstants DEF StreamConstants, HubInv, Seq0
  <1>2. ring' = Added(ring, seq + 1) /\ seq + 1 \in Seq0
    BY <1>1
  <1>3. RingHolds(ring', seq')
    BY <1>1, <1>2, RingAdds DEF HubInv
  <1>4. ring' \in [buf : [Slot -> Seq0], next : Slot, full : BOOLEAN]
    <2>1. ring'.next \in Slot /\ ring'.full \in BOOLEAN
      BY <1>3 DEF RingHolds
    <2>2. ring'.buf = [ring.buf EXCEPT ![ring.next] = seq + 1]
      BY <1>2 DEF Added
    <2>3. ring'.buf \in [Slot -> Seq0]
      BY <1>2, <2>2 DEF HubInv
    <2>4. ring' = [buf |-> ring'.buf, next |-> ring'.next, full |-> ring'.full]
      BY <1>3 DEF RingHolds
    <2> QED
      BY <2>1, <2>3, <2>4
  <1> QED
    BY <1>1, <1>3, <1>4 DEF HubInv

--------------------------------------------------------------------------------
(* Step by step.                                                           *)

(* A step of the hub alone leaves the connection and the tab as they are. *)
LEMMA RestRests ==
  ASSUME StreamInv, HubInv', UNCHANGED <<epoch, connVars, tabVars>>
  PROVE  StreamInv'
  <1>1. UNCHANGED <<up, send, drops, resume, replay, asked>>
    BY DEF connVars
  <1>2. UNCHANGED <<tab, resumePending, anchor, dispatched, told, hushed, warned>>
    BY DEF tabVars
  <1>3. ConnInv'
    BY <1>1 DEF StreamInv, ConnInv, Numbered
  <1>4. TabInv'
    BY <1>2, TabRests DEF StreamInv, TabInv
  <1>5. Known(resume)' /\ Known(asked)'
    BY <1>1, <1>2 DEF StreamInv, Known
  <1> QED
    BY <1>3, <1>4, <1>5 DEF StreamInv

(* A message is stamped, for a sender or for nobody. *)
LEMMA StampKeeps ==
  ASSUME StreamInv, NEW b \in Sender, Stamp(b)
  PROVE  StreamInv'
  <1>1. seq' \in Seq0
    BY StreamConstants DEF StreamConstants, StreamInv, HubInv, Stamp, Seq0
  <1>2. stamped' \in [Sender -> Seq0]
    BY <1>1 DEF StreamInv, HubInv, Stamp
  <1>3. HubInv'
    BY <1>2, HubRecords DEF StreamInv, Stamp
  <1> QED
    BY <1>3, RestRests DEF Stamp

(* A message that the hub has no room to broadcast. *)
LEMMA DropAtHubKeeps ==
  ASSUME StreamInv, DropAtHub
  PROVE  StreamInv'
  <1>1. stamped' \in [Sender -> Seq0]
    BY DEF StreamInv, HubInv, DropAtHub
  <1>2. HubInv'
    BY <1>1, HubRecords DEF StreamInv, DropAtHub
  <1> QED
    BY <1>2, RestRests DEF DropAtHub

(* What the hub sends: a message it numbered, or the answer to a resume. *)
LEMMA FramesAreTyped ==
  ASSUME HubInv, NEW s \in Seq0, NEW g \in BOOLEAN
  PROVE  /\ epoch \in Epoch
         /\ Event(s) \in Frame /\ Event(s).epoch = epoch /\ Event(s).seq = s
         /\ Event(s).type = "event" /\ Event(s).gap = FALSE
         /\ ResumeOk(s, g) \in Frame /\ ResumeOk(s, g).epoch = epoch
         /\ ResumeOk(s, g).type = "resume_ok" /\ ResumeOk(s, g).seq = s
         /\ ResumeOk(s, g).gap = g
  <1>1. epoch \in Epoch
    BY StreamConstants DEF StreamConstants, HubInv, Epoch
  <1>2. Event(s) \in Frame
    BY <1>1 DEF Event, Frame
  <1>3. ResumeOk(s, g) \in Frame
    BY <1>1 DEF ResumeOk, Frame
  <1> QED
    BY <1>1, <1>2, <1>3 DEF Event, ResumeOk

(* A numbered frame at the end of a queue. *)
LEMMA QueueGrows ==
  ASSUME NEW q \in Seq(Frame), Numbered(q), NEW f \in Frame,
         f.epoch = epoch, f.type = "event" => f.seq # 0
  PROVE  /\ Append(q, f) \in Seq(Frame) /\ Numbered(Append(q, f))
         /\ Len(Append(q, f)) = Len(q) + 1
  <1>1. /\ Append(q, f) \in Seq(Frame) /\ Len(Append(q, f)) = Len(q) + 1
        /\ DOMAIN Append(q, f) = 1 .. Len(q) + 1 /\ Len(q) \in Nat /\ DOMAIN q = 1 .. Len(q)
    OBVIOUS
  <1>2. \A i \in 1 .. Len(q) + 1 : Append(q, f)[i] = IF i <= Len(q) THEN q[i] ELSE f
    OBVIOUS
  <1>3. \A i \in DOMAIN Append(q, f) : i <= Len(q) => i \in DOMAIN q
    BY <1>1
  <1> QED
    BY <1>1, <1>2, <1>3 DEF Numbered

(* The same queue less its first frame. *)
LEMMA QueueShrinks ==
  ASSUME NEW q \in Seq(Frame), Numbered(q), q # <<>>
  PROVE  /\ Head(q) \in Frame /\ Head(q).epoch = epoch
         /\ Head(q).type = "event" => Head(q).seq # 0
         /\ Tail(q) \in Seq(Frame) /\ Numbered(Tail(q)) /\ Len(Tail(q)) = Len(q) - 1
         /\ \A i \in DOMAIN Tail(q) : i + 1 \in DOMAIN q /\ Tail(q)[i] = q[i + 1]
  <1>1. /\ Len(q) \in Nat /\ Len(q) # 0 /\ DOMAIN q = 1 .. Len(q)
        /\ Tail(q) \in Seq(Frame) /\ Len(Tail(q)) = Len(q) - 1
        /\ DOMAIN Tail(q) = 1 .. Len(q) - 1 /\ Head(q) = q[1]
    OBVIOUS
  <1>2. \A i \in 1 .. Len(q) - 1 : Tail(q)[i] = q[i + 1]
    OBVIOUS
  <1>3. \A i \in DOMAIN Tail(q) : i + 1 \in DOMAIN q /\ Tail(q)[i] = q[i + 1]
    BY <1>1, <1>2
  <1>4. 1 \in DOMAIN q /\ q[1] \in Frame
    BY <1>1
  <1> QED
    BY <1>1, <1>3, <1>4 DEF Numbered

(* A stamped message joins the queue, or is lost. *)
LEMMA SendKeeps ==
  ASSUME StreamInv, NEW b \in Sender, Send(b)
  PROVE  StreamInv'
  <1>1. /\ stamped[b] \in Seq0 /\ stamped[b] # 0
        /\ UNCHANGED <<epoch, seq, ring, up, resume, replay, asked, disconnects, restarts>>
    BY DEF StreamInv, HubInv, Send
  <1>2. UNCHANGED <<tab, resumePending, anchor, dispatched, told, hushed, warned>>
    BY DEF Send, tabVars
  <1>3. HubInv'
    <2>1. stamped' \in [Sender -> Seq0]
      BY StreamConstants DEF StreamConstants, StreamInv, HubInv, Send, Seq0
    <2> QED
      BY <1>1, <2>1 DEF StreamInv, HubInv
  <1>4. ConnInv'
    <2>1. CASE UNCHANGED send
      <3>1. drops' \in Nat
        BY <1>1 DEF StreamInv, ConnInv, Send
      <3> QED
        BY <1>1, <2>1, <3>1 DEF StreamInv, ConnInv, Numbered
    <2>2. CASE up /\ Len(send) < SendBuf /\ send' = Append(send, Event(stamped[b])) /\ drops' = 0
      <3>1. Event(stamped[b]) \in Frame /\ Event(stamped[b]).epoch = epoch
            /\ Event(stamped[b]).seq = stamped[b] /\ Event(stamped[b]).type = "event"
        BY <1>1, FramesAreTyped DEF StreamInv
      <3>2. send \in Seq(Frame) /\ Len(send) \in Nat /\ SendBuf \in Nat /\ Numbered(send)
        BY StreamConstants DEF StreamConstants, StreamInv, ConnInv
      <3>3. /\ send' \in Seq(Frame) /\ Numbered(send)' /\ Len(send') <= SendBuf
        BY <1>1, <2>2, <3>1, <3>2, QueueGrows DEF Numbered
      <3>4. (\A i \in DOMAIN send : send[i].type = "event")
            => \A i \in DOMAIN send' : send'[i].type = "event"
        BY <2>2, <3>1, <3>2
      <3> QED
        BY <1>1, <2>2, <3>3, <3>4 DEF StreamInv, ConnInv, Numbered
    <2> QED
      BY <2>1, <2>2 DEF Send
  <1>5. TabInv'
    BY <1>2, TabRests DEF StreamInv, TabInv
  <1>6. Known(resume)' /\ Known(asked)'
    BY <1>1, <1>2 DEF StreamInv, Known
  <1> QED
    BY <1>3, <1>4, <1>5, <1>6 DEF StreamInv

(* No process has the epoch of a tab that knows none. *)
LEMMA EpochIsReal ==
  ASSUME HubInv'
  PROVE  epoch' # NoEpoch
  <1>1. restarts' \in 0 .. MaxRestarts /\ epoch' = restarts' + 1
    BY DEF HubInv
  <1>2. MaxRestarts \in Nat
    BY StreamConstants DEF StreamConstants
  <1>3. PICK n \in Nat : n = restarts'
    BY <1>1, <1>2
  <1>4. n + 1 # NoEpoch
    BY DEF NoEpoch
  <1>5. epoch' = n + 1
    BY <1>1, <1>3
  <1> QED
    BY <1>4, <1>5, Zenon

(* The end of a connection. *)
LEMMA LostConnection ==
  ASSUME HubInv', ConnInv, TabInv, ConnectionLost
  PROVE  ConnInv' /\ TabInv' /\ Known(resume)' /\ Known(asked)'
  <1>1. /\ up' = FALSE /\ send' = <<>> /\ drops' = 0 /\ replay' = <<>>
        /\ resume' = Nobody /\ asked' = Nobody
        /\ UNCHANGED <<anchor, dispatched, told, hushed, warned>>
        /\ tab' = [tab EXCEPT !.timer = FALSE] /\ resumePending' \in BOOLEAN
    BY DEF ConnectionLost
  <1>2. send' \in Seq(Frame) /\ replay' \in Seq(Frame) /\ Len(send') = 0
        /\ DOMAIN send' = {} /\ DOMAIN replay' = {}
    BY <1>1
  <1>3. Numbered(send)' /\ Numbered(replay)'
    BY <1>2 DEF Numbered
  <1>4. SendBuf \in Nat
    BY StreamConstants DEF StreamConstants
  <1>5. up' \in BOOLEAN /\ drops' \in Nat /\ 0 <= SendBuf
    <2>1. up' \in BOOLEAN
      BY <1>1
    <2>2. drops' \in Nat
      <3>1. drops' = 0
        BY <1>1
      <3> QED
        BY <3>1
    <2>3. 0 <= SendBuf
      BY <1>4
    <2> QED
      BY <2>1, <2>2, <2>3
  <1>6. resume' \in Request /\ asked' \in Request
    <2>1. Nobody \in Request
      BY DEF Request
    <2> QED
      BY <1>1, <2>1
  <1>7. ConnInv'
    BY <1>1, <1>2, <1>3, <1>5, <1>6 DEF ConnInv
  <1>8. TabInv'
    BY <1>1, TabRests
  <1>9. epoch' # NoEpoch
    BY EpochIsReal
  <1> QED
    BY <1>1, <1>7, <1>8, <1>9 DEF Known, Nobody

(* A connection breaks. *)
LEMMA DisconnectKeeps ==
  ASSUME StreamInv, Disconnect
  PROVE  StreamInv'
  <1>1. HubInv'
    BY StreamConstants DEF StreamConstants, StreamInv, HubInv, Disconnect, hubVars
  <1> QED
    BY <1>1, LostConnection DEF StreamInv, Disconnect

(* A client that is too slow is evicted. *)
LEMMA EvictSlowKeeps ==
  ASSUME StreamInv, EvictSlow
  PROVE  StreamInv'
  <1>1. HubInv'
    BY DEF StreamInv, HubInv, EvictSlow, hubVars
  <1> QED
    BY <1>1, LostConnection DEF StreamInv, EvictSlow

(* A new process has nothing numbered, and nobody connected to it. *)
LEMMA RestartKeeps ==
  ASSUME StreamInv, Restart
  PROVE  StreamInv'
  <1>1. HubInv'
    <2>1. MaxRestarts \in Nat /\ MaxSeq \in Nat /\ RingSize \in Nat \ {0}
      BY StreamConstants DEF StreamConstants
    <2>2. restarts' \in 0 .. MaxRestarts /\ epoch' = restarts' + 1 /\ UNCHANGED disconnects
      BY <2>1 DEF StreamInv, HubInv, Restart
    <2>3. seq' = 0 /\ 0 \in Seq0 /\ ring' = EmptyRing
      BY <2>1 DEF Restart, Seq0
    <2>4. EmptyRing \in [buf : [Slot -> Seq0], next : Slot, full : BOOLEAN]
      BY <2>1, <2>3 DEF EmptyRing, Slot
    <2>5. stamped' \in [Sender -> Seq0]
      BY <2>3 DEF Restart
    <2> QED
      BY <2>2, <2>3, <2>4, <2>5, RingStarts DEF StreamInv, HubInv
  <1>2. CASE up
    BY <1>1, <1>2, LostConnection DEF StreamInv, Restart
  <1>3. CASE ~up
    <2>1. /\ UNCHANGED <<up, send, drops, resume, replay, asked>>
          /\ UNCHANGED <<tab, resumePending, anchor, dispatched, told, hushed, warned>>
      BY <1>3 DEF Restart, connVars, tabVars
    <2>2. send = <<>> /\ replay = <<>> /\ resume = Nobody /\ asked = Nobody
      BY <1>3 DEF StreamInv, ConnInv
    <2>3. Numbered(send)' /\ Numbered(replay)'
      <3>1. DOMAIN send' = {} /\ DOMAIN replay' = {}
        BY <2>1, <2>2
      <3> QED
        BY <3>1 DEF Numbered
    <2>4. ConnInv'
      BY <2>1, <2>3 DEF StreamInv, ConnInv
    <2>5. TabInv'
      BY <2>1, TabRests DEF StreamInv, TabInv
    <2>6. Known(resume)' /\ Known(asked)'
      <3>1. epoch' # NoEpoch
        BY <1>1, EpochIsReal
      <3> QED
        BY <2>1, <2>2, <3>1 DEF Known, Nobody
    <2> QED
      BY <1>1, <2>4, <2>5, <2>6 DEF StreamInv
  <1> QED
    BY <1>2, <1>3

(* The tab asks to resume from its last message, which is behind nothing. *)
LEMMA ConnectKeeps ==
  ASSUME StreamInv, Connect
  PROVE  StreamInv'
  <1>1. /\ ~up /\ up' = TRUE /\ resumePending' = FALSE
        /\ resume' = IF resumePending THEN [last |-> tab.last, epoch |-> tab.epoch] ELSE Nobody
        /\ UNCHANGED <<epoch, seq, ring, stamped, disconnects, restarts>>
        /\ UNCHANGED <<send, drops, replay, asked, tab, anchor, dispatched, told, hushed, warned>>
    BY DEF Connect, hubVars
  <1>2. HubInv'
    BY <1>1 DEF StreamInv, HubInv
  <1>3. TabInv'
    BY <1>1, TabRests DEF StreamInv
  <1>4. resume' \in Request
    BY <1>1 DEF Request, StreamInv, TabInv
  <1>5. send = <<>> /\ replay = <<>> /\ DOMAIN send = {}
    BY <1>1 DEF StreamInv, ConnInv
  <1>6. ConnInv'
    <2>1. Numbered(send)' /\ Numbered(replay)'
      BY <1>1 DEF Numbered, StreamInv, ConnInv
    <2>2. up' \in BOOLEAN /\ DOMAIN send' = {} /\ replay' = <<>>
      BY <1>1, <1>5
    <2> QED
      BY <1>1, <1>4, <2>1, <2>2 DEF StreamInv, ConnInv
  <1>7. Known(asked)'
    BY <1>1 DEF StreamInv, Known
  <1>8. Known(resume)'
    <2>1. CASE resumePending
      <3>1. resume'.last = tab.last /\ resume'.epoch = tab.epoch
        BY <1>1, <2>1
      <3>2. anchor <= tab.last /\ tab.last \in Nat
        BY StreamConstants DEF StreamConstants, StreamInv, TabInv, Seq0
      <3> QED
        BY <1>1, <3>1, <3>2 DEF Known
    <2>2. CASE ~resumePending
      <3>1. resume'.epoch = NoEpoch /\ epoch' # NoEpoch
        BY <1>1, <1>2, <2>2, EpochIsReal DEF Nobody
      <3> QED
        BY <3>1 DEF Known
    <2> QED
      BY <2>1, <2>2
  <1> QED
    BY <1>2, <1>3, <1>6, <1>7, <1>8 DEF StreamInv

(* The next frame of a replay joins the queue. *)
LEMMA ReplayNextKeeps ==
  ASSUME StreamInv, ReplayNext
  PROVE  StreamInv'
  <1>1. /\ up /\ replay # <<>> /\ Len(send) < SendBuf
        /\ send' = Append(send, Head(replay)) /\ replay' = Tail(replay)
        /\ UNCHANGED <<epoch, seq, ring, stamped, disconnects, restarts>>
        /\ UNCHANGED <<up, drops, resume, asked, tab, resumePending, anchor, dispatched,
                        told, hushed, warned>>
    BY DEF ReplayNext, hubVars, tabVars
  <1>2. HubInv'
    BY <1>1 DEF StreamInv, HubInv
  <1>3. TabInv'
    BY <1>1, TabRests DEF StreamInv, TabInv
  <1>4. Known(resume)' /\ Known(asked)'
    BY <1>1 DEF StreamInv, Known
  <1>5. /\ replay \in Seq(Frame) /\ Numbered(replay) /\ send \in Seq(Frame) /\ Numbered(send)
        /\ resume = Nobody
    BY <1>1 DEF StreamInv, ConnInv
  <1>6. /\ Head(replay) \in Frame /\ Head(replay).epoch = epoch
        /\ Head(replay).type = "event" => Head(replay).seq # 0
        /\ replay' \in Seq(Frame) /\ Numbered(replay')
    BY <1>1, <1>5, QueueShrinks
  <1>7. send' \in Seq(Frame) /\ Numbered(send') /\ Len(send') = Len(send) + 1
    BY <1>1, <1>5, <1>6, QueueGrows
  <1>8. Len(send') <= SendBuf
    BY <1>1, <1>5, <1>7, StreamConstants DEF StreamConstants
  <1>9. Numbered(send)' /\ Numbered(replay)'
    BY <1>1, <1>6, <1>7 DEF Numbered
  <1>10. ConnInv'
    BY <1>1, <1>5, <1>6, <1>7, <1>8, <1>9 DEF StreamInv, ConnInv
  <1> QED
    BY <1>2, <1>3, <1>4, <1>10 DEF StreamInv

(* The gap timer is the tab's own. *)
LEMMA GapTimerKeeps ==
  ASSUME StreamInv, GapTimer
  PROVE  StreamInv'
  <1>1. /\ UNCHANGED <<epoch, seq, ring, stamped, disconnects, restarts>>
        /\ UNCHANGED <<up, send, drops, resume, replay, asked, anchor>>
    BY DEF GapTimer, hubVars, connVars
  <1>2. HubInv'
    BY <1>1 DEF StreamInv, HubInv
  <1>3. ConnInv'
    BY <1>1 DEF StreamInv, ConnInv, Numbered
  <1>4. TabInv' /\ tab'.epoch = tab.epoch /\ tab'.last >= tab.last
    BY TabGivesUp DEF StreamInv
  <1>5. resume \in Request /\ asked \in Request
    BY DEF StreamInv, ConnInv
  <1>6. Known(resume)' /\ Known(asked)'
    <2>1. \A rq \in {resume, asked} : rq.epoch = epoch' =>
             tab'.epoch = epoch' /\ anchor' <= rq.last /\ rq.last <= tab'.last
      BY <1>1, <1>4, <1>5, KnownKept DEF StreamInv
    <2> QED
      BY <1>1, <2>1 DEF Known
  <1> QED
    BY <1>2, <1>3, <1>4, <1>6 DEF StreamInv

(* The last m messages of the session, then resume_ok. *)
Answer(m, g) == Append([i \in 1 .. m |-> Event(seq - m + i)], ResumeOk(seq, g))

(* What the resume handler answers: the last m messages, then resume_ok;   *)
(* and with no gap they are all that the client of this process missed.    *)
LEMMA ResumeReads ==
  ASSUME StreamInv, HandleResume
  PROVE  \E m \in 0 .. seq, g \in BOOLEAN :
           /\ replay' = Answer(m, g)
           /\ ~g => /\ resume.epoch \in {epoch, NoEpoch}
                    /\ resume.last \in 0 .. seq /\ m = seq - resume.last
  <1> DEFINE restarted == resume.epoch # NoEpoch /\ resume.epoch # epoch
             missed == IF restarted THEN <<>> ELSE Replayed(ring, seq, resume.last)
             gap == restarted \/ ReplayGap(ring, seq, resume.last)
  <1>1. replay' = Append([i \in 1 .. Len(missed) |-> Event(missed[i])], ResumeOk(seq, gap))
    BY DEF HandleResume
  <1>2. seq \in Nat /\ RingHolds(ring, seq)
    BY StreamConstants DEF StreamConstants, StreamInv, HubInv, Seq0
  <1>3. resume.last \in Nat
    BY StreamConstants DEF StreamConstants, StreamInv, ConnInv, Request, HandleResume, Seq0
  <1>4. gap \in BOOLEAN
    BY DEF ReplayGap
  <1>5. CASE restarted \/ resume.last > seq
    <2>1. missed = <<>> /\ Len(missed) = 0
      BY <1>2, <1>3, <1>5 DEF Replayed
    <2>2. gap = TRUE
      BY <1>2, <1>3, <1>5 DEF ReplayGap
    <2> HIDE DEF missed, gap
    <2>3. replay' = Append([i \in 1 .. 0 |-> Event(missed[i])], ResumeOk(seq, TRUE))
      BY <1>1, <2>1, <2>2
    <2>4. [i \in 1 .. 0 |-> Event(missed[i])] = [i \in 1 .. 0 |-> Event(seq - 0 + i)]
      OBVIOUS
    <2>5. replay' = Answer(0, TRUE)
      BY <2>3, <2>4 DEF Answer
    <2>6. 0 \in 0 .. seq
      BY <1>2
    <2> WITNESS 0 \in 0 .. seq, TRUE \in BOOLEAN
    <2> QED
      BY <2>5
  <1>6. CASE ~restarted /\ resume.last = seq
    <2>1. missed = <<>> /\ Len(missed) = 0
      BY <1>2, <1>3, <1>6 DEF Replayed
    <2>2. gap = FALSE
      BY <1>2, <1>3, <1>6 DEF ReplayGap
    <2>3. resume.epoch \in {epoch, NoEpoch}
      BY <1>6
    <2> HIDE DEF missed, gap
    <2>4. replay' = Append([i \in 1 .. 0 |-> Event(missed[i])], ResumeOk(seq, FALSE))
      BY <1>1, <2>1, <2>2
    <2>5. [i \in 1 .. 0 |-> Event(missed[i])] = [i \in 1 .. 0 |-> Event(seq - 0 + i)]
      OBVIOUS
    <2>6. replay' = Answer(0, FALSE)
      BY <2>4, <2>5 DEF Answer
    <2>7. resume.last \in 0 .. seq /\ 0 = seq - resume.last
      BY <1>2, <1>3, <1>6
    <2>8. 0 \in 0 .. seq
      BY <1>2
    <2> WITNESS 0 \in 0 .. seq, FALSE \in BOOLEAN
    <2> QED
      BY <2>3, <2>6, <2>7
  <1>7. CASE ~restarted /\ resume.last < seq
    <2>1. missed = Replayed(ring, seq, resume.last)
      BY <1>7
    <2>2. gap <=> ReplayGap(ring, seq, resume.last)
      BY <1>7
    <2>3. resume.last \in 0 .. seq
      BY <1>2, <1>3, <1>7
    <2>4. PICK m \in Nat : /\ m = Len(missed) /\ m <= seq - resume.last
                           /\ missed = [k \in 1 .. m |-> seq - m + k]
                           /\ gap <=> m < seq - resume.last
      BY <1>2, <2>1, <2>2, <2>3, ReplayReads
    <2>5. resume.epoch \in {epoch, NoEpoch}
      BY <1>7
    <2> HIDE DEF missed, gap
    <2>6. m \in 0 .. seq
      BY <1>2, <1>3, <2>4
    <2>7. \A i \in 1 .. m : missed[i] = seq - m + i
      BY <2>4
    <2>8. replay' = Append([i \in 1 .. m |-> Event(missed[i])], ResumeOk(seq, gap))
      BY <1>1, <2>4
    <2>9. [i \in 1 .. m |-> Event(missed[i])] = [i \in 1 .. m |-> Event(seq - m + i)]
      BY <2>7
    <2>10. replay' = Answer(m, gap)
      BY <2>8, <2>9 DEF Answer
    <2>11. ~gap => m = seq - resume.last
      BY <1>2, <1>3, <2>4
    <2> QED
      BY <1>4, <2>3, <2>5, <2>6, <2>10, <2>11
  <1> QED
    BY <1>2, <1>3, <1>5, <1>6, <1>7

(* The frames of an answer are numbered frames of this process. *)
LEMMA AnswerReads ==
  ASSUME HubInv, NEW m \in 0 .. seq, NEW g \in BOOLEAN, NEW q,
         q = Answer(m, g)
  PROVE  /\ q \in Seq(Frame) /\ Numbered(q) /\ Len(q) = m + 1 /\ m \in Nat
         /\ \A i \in 1 .. m : q[i] = Event(seq - m + i)
         /\ q[m + 1] = ResumeOk(seq, g)
  <1> DEFINE events == [i \in 1 .. m |-> Event(seq - m + i)]
  <1>1. seq \in Nat /\ m \in Nat /\ m <= seq /\ seq <= MaxSeq /\ MaxSeq \in Nat /\ seq \in Seq0
    BY StreamConstants DEF StreamConstants, HubInv, Seq0
  <1>2. \A i \in 1 .. m : seq - m + i \in Seq0 /\ seq - m + i # 0
    BY <1>1 DEF Seq0
  <1>3. \A i \in 1 .. m : /\ Event(seq - m + i) \in Frame /\ Event(seq - m + i).epoch = epoch
                          /\ Event(seq - m + i).seq # 0
    <2> TAKE i \in 1 .. m
    <2>1. PICK s \in Seq0 : s = seq - m + i /\ s # 0
      BY <1>2
    <2>2. Event(s) \in Frame /\ Event(s).epoch = epoch /\ Event(s).seq = s
      BY FramesAreTyped
    <2> QED
      BY <2>1, <2>2
  <1>4. \A i \in 1 .. m : events[i] = Event(seq - m + i) /\ events[i] \in Frame
    BY <1>3
  <1>5. events \in Seq(Frame) /\ Len(events) = m /\ DOMAIN events = 1 .. m
    <2>1. events = [i \in 1 .. m |-> events[i]]
      OBVIOUS
    <2> HIDE DEF events
    <2> QED
      BY <1>1, <1>4, <2>1
  <1>6. Numbered(events)
    BY <1>3, <1>5, <1>4 DEF Numbered
  <1>7. /\ ResumeOk(seq, g) \in Frame /\ ResumeOk(seq, g).epoch = epoch
        /\ ResumeOk(seq, g).type # "event"
    BY <1>1, FramesAreTyped
  <1> HIDE DEF events
  <1>8. q = Append(events, ResumeOk(seq, g))
    BY DEF Answer, events
  <1>9. q \in Seq(Frame) /\ Numbered(q) /\ Len(q) = m + 1
    BY <1>1, <1>5, <1>6, <1>7, <1>8, QueueGrows
  <1>10. (\A i \in 1 .. m : q[i] = events[i]) /\ q[m + 1] = ResumeOk(seq, g)
    <2> DEFINE f == ResumeOk(seq, g)
    <2> HIDE DEF f
    <2>1. q = Append(events, f)
      BY <1>8 DEF f
    <2>2. (\A i \in 1 .. m : q[i] = events[i]) /\ q[m + 1] = f
      BY <1>1, <1>5, <2>1
    <2> QED
      BY <2>2 DEF f
  <1> QED
    BY <1>1, <1>4, <1>9, <1>10

(* The answer to a resume waits to be sent. *)
LEMMA HandleResumeKeeps ==
  ASSUME StreamInv, HandleResume
  PROVE  StreamInv'
  <1>1. /\ up /\ resume # Nobody /\ resume' = Nobody /\ asked' = resume
        /\ UNCHANGED <<epoch, seq, ring, stamped, up, send, drops, disconnects, restarts>>
        /\ UNCHANGED <<tab, resumePending, anchor, dispatched, told, hushed, warned>>
    BY DEF HandleResume, hubVars, tabVars
  <1>2. HubInv'
    BY <1>1 DEF StreamInv, HubInv
  <1>3. TabInv'
    BY <1>1, TabRests DEF StreamInv, TabInv
  <1>4. Known(asked)'
    BY <1>1 DEF StreamInv, Known
  <1>5. Known(resume)'
    BY <1>1, <1>2, EpochIsReal DEF Known, Nobody
  <1>6. replay' \in Seq(Frame) /\ Numbered(replay')
    BY ResumeReads, AnswerReads DEF StreamInv
  <1>7. Numbered(send)' /\ Numbered(replay)'
    BY <1>1, <1>6 DEF Numbered, StreamInv, ConnInv
  <1>8. resume' \in Request /\ asked' \in Request
    BY <1>1 DEF Request, StreamInv, ConnInv
  <1>9. ConnInv'
    BY <1>1, <1>6, <1>7, <1>8 DEF StreamInv, ConnInv
  <1> QED
    BY <1>2, <1>3, <1>4, <1>5, <1>9 DEF StreamInv

(* What one frame does to the tab. *)
LEMMA TabHears ==
  ASSUME StreamInv, Deliver
  PROVE  /\ TabInv' /\ UNCHANGED resumePending
         /\ tab.epoch = epoch => /\ tab'.epoch = tab.epoch /\ tab'.last >= tab.last
                                 /\ anchor' = anchor
         /\ Head(send).type = "resume_ok" => Resumed(Head(send))
         /\ Head(send).type = "event" => tab'.epoch = epoch /\ tab'.last \in Nat
         /\ tab.epoch = epoch /\ Head(send).type = "event" /\ Head(send).seq = tab.last + 1
               => tab'.last >= Head(send).seq
  <1> DEFINE m == Head(send)
  <1>1. m \in Frame /\ m.epoch = epoch /\ (m.type = "event" => m.seq # 0)
    BY QueueShrinks DEF Deliver, StreamInv, ConnInv
  <1>2. TabInv /\ UNCHANGED resumePending /\ tab.last \in Nat /\ m.seq \in Nat
    BY <1>1, StreamConstants DEF StreamConstants, StreamInv, TabInv, Deliver, Frame, Seq0
  <1>3. m.type \in {"event", "resume_ok"}
    BY <1>1 DEF Frame
  <1> HIDE DEF m
  <1>4. CASE m.type = "resume_ok"
    <2>1. Resumed(m)
      BY <1>4 DEF Deliver, m
    <2>2. TabInv' /\ tab' = tab /\ anchor' = anchor
      BY <1>1, <1>2, <2>1, TabResumes DEF Resumed
    <2> QED
      BY <1>2, <1>4, <2>1, <2>2 DEF m
  <1>5. CASE m.type = "event" /\ m.epoch # tab.epoch
    <2>1. NewEpoch(m)
      BY <1>5 DEF Deliver, m
    <2>2. TabInv' /\ tab'.epoch = epoch /\ tab'.last = m.seq
      BY <1>1, <1>2, <1>5, <2>1, TabAnchors
    <2> QED
      BY <1>1, <1>2, <1>5, <2>2 DEF m
  <1>6. CASE m.type = "event" /\ m.epoch = tab.epoch /\ m.seq = tab.last + 1
    <2>1. InTurn(m)
      BY <1>2, <1>6 DEF Deliver, m
    <2>2. TabInv' /\ tab'.epoch = tab.epoch /\ tab'.last >= m.seq
      BY <1>1, <1>2, <1>6, <2>1, TabTakes
    <2>3. tab'.last \in Nat /\ anchor' = anchor
      BY <2>1, <2>2, StreamConstants DEF StreamConstants, TabInv, Seq0, InTurn
    <2> QED
      BY <1>1, <1>2, <1>6, <2>2, <2>3 DEF m
  <1>7. CASE m.type = "event" /\ m.epoch = tab.epoch /\ m.seq > tab.last + 1
    <2>1. TooEarly(m)
      BY <1>2, <1>7 DEF Deliver, m
    <2>2. TabInv' /\ tab'.epoch = tab.epoch /\ tab'.last = tab.last /\ anchor' = anchor
      BY <1>1, <1>2, <1>7, <2>1, TabBuffers DEF TooEarly
    <2> QED
      BY <1>1, <1>2, <1>7, <2>2 DEF m
  <1>8. CASE m.type = "event" /\ m.epoch = tab.epoch /\ m.seq <= tab.last
    <2>1. UNCHANGED <<tab, anchor, dispatched, told, hushed, warned>>
      BY <1>2, <1>8 DEF Deliver, m
    <2>2. TabInv' /\ tab'.epoch = tab.epoch /\ tab'.last = tab.last /\ anchor' = anchor
      BY <1>2, <2>1, TabRests DEF TabInv
    <2> QED
      BY <1>1, <1>2, <1>8, <2>1, <2>2 DEF m
  <1> QED
    BY <1>2, <1>3, <1>4, <1>5, <1>6, <1>7, <1>8

(* The next frame reaches the tab. *)
LEMMA DeliverKeeps ==
  ASSUME StreamInv, Deliver
  PROVE  StreamInv'
  <1>1. /\ up /\ send # <<>> /\ send' = Tail(send)
        /\ UNCHANGED <<epoch, seq, ring, stamped, disconnects, restarts>>
        /\ UNCHANGED <<up, drops, resume, replay, asked>>
    BY DEF Deliver, hubVars
  <1>2. HubInv'
    BY <1>1 DEF StreamInv, HubInv
  <1>3. /\ TabInv'
        /\ tab.epoch = epoch => /\ tab'.epoch = tab.epoch /\ tab'.last >= tab.last
                                /\ anchor' = anchor
    BY TabHears
  <1>4. resume \in Request /\ asked \in Request /\ send \in Seq(Frame) /\ Numbered(send)
    BY DEF StreamInv, ConnInv
  <1>5. Known(resume)' /\ Known(asked)'
    <2>1. \A rq \in {resume, asked} : rq.epoch = epoch' =>
             tab'.epoch = epoch' /\ anchor' <= rq.last /\ rq.last <= tab'.last
      BY <1>1, <1>3, <1>4, KnownKept DEF StreamInv
    <2> QED
      BY <1>1, <2>1 DEF Known
  <1>6. /\ send' \in Seq(Frame) /\ Numbered(send') /\ Len(send') = Len(send) - 1
        /\ \A i \in DOMAIN send' : i + 1 \in DOMAIN send /\ send'[i] = send[i + 1]
    BY <1>1, <1>4, QueueShrinks
  <1>7. Len(send') <= SendBuf
    BY <1>4, <1>6, StreamConstants DEF StreamConstants, StreamInv, ConnInv
  <1>8. Numbered(send)' /\ Numbered(replay)'
    BY <1>1, <1>6 DEF Numbered, StreamInv, ConnInv
  <1>9. ConnInv'
    BY <1>1, <1>4, <1>6, <1>7, <1>8 DEF StreamInv, ConnInv
  <1> QED
    BY <1>2, <1>3, <1>5, <1>9 DEF StreamInv

(* A step that changes nothing. *)
LEMMA StreamStutters ==
  ASSUME StreamInv, UNCHANGED vars
  PROVE  StreamInv'
  <1>1. UNCHANGED <<epoch, seq, ring, stamped, disconnects, restarts>>
        /\ UNCHANGED <<epoch, connVars, tabVars>>
    BY DEF vars, hubVars
  <1>2. HubInv'
    BY <1>1 DEF StreamInv, HubInv
  <1> QED
    BY <1>1, <1>2, RestRests

(* Every step keeps the invariant. *)
LEMMA StreamNext ==
  ASSUME StreamInv, [Next]_vars
  PROVE  StreamInv'
  <1>1. ASSUME NEW b \in Sender, Stamp(b) PROVE StreamInv'
    BY <1>1, StampKeeps
  <1>2. ASSUME NEW b \in Sender, Send(b) PROVE StreamInv'
    BY <1>2, SendKeeps
  <1>3. CASE DropAtHub
    BY <1>3, DropAtHubKeeps
  <1>4. CASE Disconnect
    BY <1>4, DisconnectKeeps
  <1>5. CASE EvictSlow
    BY <1>5, EvictSlowKeeps
  <1>6. CASE Restart
    BY <1>6, RestartKeeps
  <1>7. CASE Connect
    BY <1>7, ConnectKeeps
  <1>8. CASE HandleResume
    BY <1>8, HandleResumeKeeps
  <1>9. CASE ReplayNext
    BY <1>9, ReplayNextKeeps
  <1>10. CASE Deliver
    BY <1>10, DeliverKeeps
  <1>11. CASE GapTimer
    BY <1>11, GapTimerKeeps
  <1>12. CASE UNCHANGED vars
    BY <1>12, StreamStutters
  <1> QED
    BY <1>1, <1>2, <1>3, <1>4, <1>5, <1>6, <1>7, <1>8, <1>9, <1>10, <1>11, <1>12 DEF Next

(* The invariant of the hub, the connection and the tab. *)
LEMMA StreamInvariant == Spec => []StreamInv
  BY StreamInit, StreamNext, PTL DEF Spec

--------------------------------------------------------------------------------
(* The theorems.                                                           *)

(* Every variable stays in its type, the send queue within its capacity    *)
(* and what waits in the tab's buffer ahead of a hole.                     *)
THEOREM StreamTyped == Spec => []TypeOK
  <1>1. StreamInv => TypeOK
    <2> SUFFICES ASSUME StreamInv PROVE TypeOK
      OBVIOUS
    <2>1. epoch \in Epoch
      <3>1. restarts \in 0 .. MaxRestarts /\ epoch = restarts + 1 /\ MaxRestarts \in Nat
        BY StreamConstants DEF StreamConstants, StreamInv, HubInv
      <3> QED
        BY <3>1 DEF Epoch
    <2> QED
      BY <2>1 DEF StreamInv, HubInv, ConnInv, TabInv, GivenOK, Request, TypeOK
  <1> QED
    BY <1>1, StreamInvariant, PTL

(* However often the ring has wrapped, replaySince answers a client that   *)
(* saw messages up to last with every later one the ring holds, in order   *)
(* and without a hole, and reports a gap exactly when that is not all.     *)
THEOREM ReplayExact == Spec => []ReplayIsExact
  <1>1. StreamInv => ReplayIsExact
    <2> SUFFICES ASSUME StreamInv, NEW last \in 0 .. seq
                 PROVE  LET got == Replayed(ring, seq, last)
                            lost == seq - last - Len(got)
                        IN  /\ lost >= 0
                            /\ \A i \in DOMAIN got : got[i] = last + lost + i
                            /\ ReplayGap(ring, seq, last) <=> lost > 0
                            /\ lost > 0 => Len(got) = RingSize
      BY DEF ReplayIsExact
    <2> DEFINE got == Replayed(ring, seq, last)
    <2>1. seq \in Nat /\ RingHolds(ring, seq) /\ last \in Nat
      BY StreamConstants DEF StreamConstants, StreamInv, HubInv, Seq0
    <2>2. PICK m \in Nat :
            /\ m = Len(got) /\ m <= seq - last /\ got = [k \in 1 .. m |-> seq - m + k]
            /\ ReplayGap(ring, seq, last) <=> m < seq - last
            /\ m < seq - last => m = RingSize
      BY <2>1, ReplayReads
    <2> HIDE DEF got
    <2>3. \A i \in DOMAIN got : got[i] = last + (seq - last - m) + i
      BY <2>1, <2>2
    <2>4. /\ seq - last - m >= 0
          /\ ReplayGap(ring, seq, last) <=> seq - last - m > 0
          /\ seq - last - m > 0 => m = RingSize
      BY <2>1, <2>2
    <2> QED
      BY <2>2, <2>3, <2>4 DEF got
  <1> QED
    BY <1>1, StreamInvariant, PTL

(* What the tab is past, from the first message of its epoch on, it has    *)
(* dispatched, refetched, or given up where it warns, whatever is dropped, *)
(* reordered, doubled or pushed out of its buffer; and only a warning it   *)
(* has shown hushes another (dispatchOrderingWarning, useHuginnWS.ts:182). *)
THEOREM SkipsWarned == Spec => []SkipsAreWarned
  <1>1. StreamInv => SkipsAreWarned
    BY DEF StreamInv, TabInv, NoSkip, Given, GivenOK, SkipsAreWarned
  <1> QED
    BY <1>1, StreamInvariant, PTL

(* The handlers of the tab get each message of an epoch once, in the order *)
(* the hub numbered them.                                                  *)
THEOREM EachOnceInOrder == Spec => []DispatchedInOrder
  <1>1. StreamInv => DispatchedInOrder
    BY DEF StreamInv, TabInv
  <1> QED
    BY <1>1, StreamInvariant, PTL

--------------------------------------------------------------------------------
(* What a resume promises.                                                 *)

(* Before its p-th frame the queue holds the events after lo, up to the    *)
(* number that frame bears, in order among whatever else it holds.         *)
Ahead(q, p, lo) ==
  \E f \in [lo + 1 .. q[p].seq -> 1 .. p - 1] :
    /\ \A s \in lo + 1 .. q[p].seq : q[f[s]].type = "event" /\ q[f[s]].seq = s
    /\ \A s, t \in lo + 1 .. q[p].seq : s < t => f[s] < f[t]

UnderWay == send \o replay

(* A resume_ok without a gap, still under way to a tab that asked with an  *)
(* epoch, answers for this epoch and comes behind all the tab has not had. *)
Closing ==
  asked.epoch # NoEpoch =>
    \A p \in DOMAIN UnderWay :
      UnderWay[p].type = "resume_ok" /\ ~UnderWay[p].gap
        => asked.epoch = epoch /\ Ahead(UnderWay, p, tab.last)

(* The queue frame by frame. *)
LEMMA QueueReads ==
  ASSUME NEW u \in Seq(Frame), NEW v \in Seq(Frame)
  PROVE  /\ Len(u) \in Nat /\ Len(v) \in Nat /\ u \o v \in Seq(Frame)
         /\ Len(u \o v) = Len(u) + Len(v) /\ DOMAIN (u \o v) = 1 .. Len(u) + Len(v)
         /\ \A i \in 1 .. Len(u) : (u \o v)[i] = u[i]
         /\ \A i \in 1 .. Len(v) : (u \o v)[Len(u) + i] = v[i]
  OBVIOUS

(* Frame by frame the same queue, however far the first frame is past. *)
LEMMA AheadSame ==
  ASSUME NEW q, NEW r, NEW p \in Nat, NEW lo \in Nat, NEW hi \in Nat, hi >= lo,
         q[p].seq \in Nat, \A i \in 1 .. p : r[i] = q[i], p >= 1, Ahead(q, p, lo)
  PROVE  Ahead(r, p, hi)
  <1>1. PICK f \in [lo + 1 .. q[p].seq -> 1 .. p - 1] :
          /\ \A s \in lo + 1 .. q[p].seq : q[f[s]].type = "event" /\ q[f[s]].seq = s
          /\ \A s, t \in lo + 1 .. q[p].seq : s < t => f[s] < f[t]
    BY DEF Ahead
  <1>2. r[p] = q[p]
    OBVIOUS
  <1> DEFINE g == [s \in hi + 1 .. q[p].seq |-> f[s]]
  <1>3. \A s \in hi + 1 .. q[p].seq : /\ s \in lo + 1 .. q[p].seq /\ g[s] = f[s]
                                      /\ f[s] \in 1 .. p - 1 /\ f[s] \in 1 .. p
    BY <1>1
  <1>4. g \in [hi + 1 .. r[p].seq -> 1 .. p - 1]
    BY <1>2, <1>3
  <1>5. \A s \in hi + 1 .. r[p].seq : r[g[s]].type = "event" /\ r[g[s]].seq = s
    <2> TAKE s \in hi + 1 .. r[p].seq
    <2>1. s \in lo + 1 .. q[p].seq /\ g[s] = f[s] /\ r[f[s]] = q[f[s]]
      BY <1>2, <1>3
    <2> QED
      BY <1>1, <2>1
  <1>6. \A s, t \in hi + 1 .. r[p].seq : s < t => g[s] < g[t]
    <2> TAKE s, t \in hi + 1 .. r[p].seq
    <2>1. s \in lo + 1 .. q[p].seq /\ g[s] = f[s] /\ t \in lo + 1 .. q[p].seq /\ g[t] = f[t]
      BY <1>2, <1>3
    <2> QED
      BY <1>1, <2>1
  <1> HIDE DEF g
  <1> QED
    BY <1>4, <1>5, <1>6 DEF Ahead

(* A frame put in behind the n-th changes nothing of that. *)
LEMMA AheadInserted ==
  ASSUME NEW q, NEW r, NEW n \in Nat, NEW p \in Nat, p >= 1, NEW lo \in Nat, q[p].seq \in Nat,
         \A i \in 1 .. p : r[IF i <= n THEN i ELSE i + 1] = q[i], Ahead(q, p, lo)
  PROVE  Ahead(r, IF p <= n THEN p ELSE p + 1, lo)
  <1> DEFINE At(i) == IF i <= n THEN i ELSE i + 1
  <1>1. PICK f \in [lo + 1 .. q[p].seq -> 1 .. p - 1] :
          /\ \A s \in lo + 1 .. q[p].seq : q[f[s]].type = "event" /\ q[f[s]].seq = s
          /\ \A s, t \in lo + 1 .. q[p].seq : s < t => f[s] < f[t]
    BY DEF Ahead
  <1>2. r[At(p)] = q[p]
    OBVIOUS
  <1> DEFINE g == [s \in lo + 1 .. q[p].seq |-> At(f[s])]
  <1>3. \A i \in 1 .. p - 1 : At(i) \in 1 .. At(p) - 1 /\ r[At(i)] = q[i]
    OBVIOUS
  <1>4. \A s \in lo + 1 .. q[p].seq : g[s] = At(f[s]) /\ f[s] \in 1 .. p - 1
    BY <1>1
  <1>5. \A i, j \in 1 .. p - 1 : i < j => At(i) < At(j)
    OBVIOUS
  <1> HIDE DEF At
  <1>6. g \in [lo + 1 .. r[At(p)].seq -> 1 .. At(p) - 1]
    BY <1>2, <1>3, <1>4
  <1> HIDE DEF g
  <1>7. \A s \in lo + 1 .. r[At(p)].seq : r[g[s]].type = "event" /\ r[g[s]].seq = s
    <2> TAKE s \in lo + 1 .. r[At(p)].seq
    <2>1. s \in lo + 1 .. q[p].seq /\ g[s] = At(f[s]) /\ r[At(f[s])] = q[f[s]]
      BY <1>2, <1>3, <1>4
    <2> QED
      BY <1>1, <2>1
  <1>8. \A s, t \in lo + 1 .. r[At(p)].seq : s < t => g[s] < g[t]
    <2> TAKE s, t \in lo + 1 .. r[At(p)].seq
    <2>1. s \in lo + 1 .. q[p].seq /\ t \in lo + 1 .. q[p].seq
      BY <1>2
    <2>2. g[s] = At(f[s]) /\ g[t] = At(f[t]) /\ f[s] \in 1 .. p - 1 /\ f[t] \in 1 .. p - 1
      BY <1>4, <2>1
    <2>3. s < t => f[s] < f[t]
      BY <1>1, <2>1
    <2> QED
      BY <1>5, <2>2, <2>3
  <1>9. Ahead(r, At(p), lo)
    BY <1>6, <1>7, <1>8 DEF Ahead
  <1> QED
    BY <1>9 DEF At

(* Nor does the loss of the first frame, when the tab takes it in turn. *)
LEMMA AheadTaken ==
  ASSUME NEW q, NEW r, NEW p \in Nat, p >= 2, NEW lo \in Nat, NEW hi \in Nat, hi >= lo,
         q[p].seq \in Nat, \A i \in 1 .. p - 1 : r[i] = q[i + 1],
         q[1].type = "event" /\ q[1].seq = lo + 1 => hi >= lo + 1, Ahead(q, p, lo)
  PROVE  Ahead(r, p - 1, hi)
  <1>1. PICK f \in [lo + 1 .. q[p].seq -> 1 .. p - 1] :
          /\ \A s \in lo + 1 .. q[p].seq : q[f[s]].type = "event" /\ q[f[s]].seq = s
          /\ \A s, t \in lo + 1 .. q[p].seq : s < t => f[s] < f[t]
    BY DEF Ahead
  <1>2. r[p - 1] = q[p]
    <2>1. p - 1 \in 1 .. p - 1 /\ (p - 1) + 1 = p
      OBVIOUS
    <2> QED
      BY <2>1
  <1> DEFINE g == [s \in hi + 1 .. q[p].seq |-> f[s] - 1]
  <1>3. \A s \in hi + 1 .. q[p].seq : f[s] \in 2 .. p - 1 /\ s \in lo + 1 .. q[p].seq
    <2> TAKE s \in hi + 1 .. q[p].seq
    <2>1. s \in lo + 1 .. q[p].seq /\ lo + 1 \in lo + 1 .. q[p].seq /\ s \in Nat
      OBVIOUS
    <2>2. f[s] \in 1 .. p - 1 /\ f[lo + 1] \in 1 .. p - 1
      BY <1>1, <2>1
    <2>3. CASE s = lo + 1
      <3>1. q[f[s]].type = "event" /\ q[f[s]].seq = lo + 1 /\ ~(hi >= lo + 1)
        BY <1>1, <2>1, <2>3
      <3>2. f[s] # 1
        BY <3>1
      <3> QED
        BY <2>1, <2>2, <3>2
    <2>4. CASE s # lo + 1
      <3>1. lo + 1 < s
        BY <2>1, <2>4
      <3>2. f[lo + 1] < f[s]
        BY <1>1, <2>1, <3>1
      <3> QED
        BY <2>1, <2>2, <3>2
    <2> QED
      BY <2>3, <2>4
  <1>4. g \in [hi + 1 .. r[p - 1].seq -> 1 .. (p - 1) - 1]
    BY <1>2, <1>3
  <1>5. \A s \in hi + 1 .. q[p].seq : g[s] = f[s] - 1 /\ r[g[s]] = q[f[s]]
    <2> TAKE s \in hi + 1 .. q[p].seq
    <2>1. f[s] \in 2 .. p - 1 /\ g[s] = f[s] - 1
      BY <1>3
    <2>2. f[s] - 1 \in 1 .. p - 1 /\ (f[s] - 1) + 1 = f[s]
      BY <2>1
    <2> QED
      BY <2>1, <2>2
  <1> HIDE DEF g
  <1>6. \A s \in hi + 1 .. r[p - 1].seq : r[g[s]].type = "event" /\ r[g[s]].seq = s
    <2> TAKE s \in hi + 1 .. r[p - 1].seq
    <2>1. s \in lo + 1 .. q[p].seq /\ r[g[s]] = q[f[s]]
      BY <1>2, <1>3, <1>5
    <2> QED
      BY <1>1, <2>1
  <1>7. \A s, t \in hi + 1 .. r[p - 1].seq : s < t => g[s] < g[t]
    <2> TAKE s, t \in hi + 1 .. r[p - 1].seq
    <2>1. s \in lo + 1 .. q[p].seq /\ t \in lo + 1 .. q[p].seq
          /\ f[s] \in 2 .. p - 1 /\ f[t] \in 2 .. p - 1 /\ g[s] = f[s] - 1 /\ g[t] = f[t] - 1
      BY <1>2, <1>3, <1>5
    <2>2. s < t => f[s] < f[t]
      BY <1>1, <2>1
    <2> QED
      BY <2>1, <2>2
  <1> QED
    BY <1>4, <1>6, <1>7 DEF Ahead

(* The answer to a resume comes behind all it replays. *)
LEMMA AheadAnswered ==
  ASSUME NEW q, NEW n \in Nat, NEW m \in Nat, NEW last \in Nat, NEW lo \in Nat, lo >= last,
         q[n + m + 1].seq = last + m,
         \A i \in 1 .. m : q[n + i].type = "event" /\ q[n + i].seq = last + i
  PROVE  Ahead(q, n + m + 1, lo)
  <1> DEFINE p == n + m + 1
             f == [s \in lo + 1 .. q[p].seq |-> n + (s - last)]
  <1>1. q[p].seq = last + m
    OBVIOUS
  <1>2. \A s \in lo + 1 .. q[p].seq : /\ s - last \in 1 .. m /\ n + (s - last) \in 1 .. p - 1
                                      /\ f[s] = n + (s - last) /\ last + (s - last) = s
    BY <1>1
  <1>3. f \in [lo + 1 .. q[p].seq -> 1 .. p - 1]
    BY <1>2
  <1>4. \A s \in lo + 1 .. q[p].seq : q[f[s]].type = "event" /\ q[f[s]].seq = s
    BY <1>2
  <1>5. \A s, t \in lo + 1 .. q[p].seq : s < t => f[s] < f[t]
    BY <1>1, <1>2
  <1> HIDE DEF f
  <1>6. Ahead(q, p, lo)
    BY <1>3, <1>4, <1>5 DEF Ahead
  <1> QED
    BY <1>6

(* What Closing says of one frame. *)
LEMMA ClosingReads ==
  ASSUME StreamInv, Closing, asked.epoch # NoEpoch, NEW p \in DOMAIN UnderWay,
         UnderWay[p].type = "resume_ok", ~UnderWay[p].gap
  PROVE  /\ asked.epoch = epoch /\ tab.epoch = epoch /\ Ahead(UnderWay, p, tab.last)
         /\ tab.last \in Nat /\ UnderWay[p].seq \in Nat /\ p \in Nat /\ p >= 1
  <1>1. asked.epoch = epoch /\ Ahead(UnderWay, p, tab.last)
    BY DEF Closing
  <1>2. tab.last \in Nat /\ tab.epoch = epoch
    BY <1>1, StreamConstants DEF StreamConstants, StreamInv, TabInv, Known, Seq0
  <1>3. UnderWay \in Seq(Frame)
    BY QueueReads DEF StreamInv, ConnInv, UnderWay
  <1>4. UnderWay[p] \in Frame /\ p \in Nat /\ p >= 1
    BY <1>3
  <1>5. UnderWay[p].seq \in Nat
    BY <1>4, StreamConstants DEF StreamConstants, Frame, Seq0
  <1> QED
    BY <1>1, <1>2, <1>4, <1>5

(* The queue may stay while the tab goes on. *)
LEMMA ClosingRests ==
  ASSUME StreamInv, StreamInv', Closing, UNCHANGED <<epoch, asked>>,
         DOMAIN UnderWay' = DOMAIN UnderWay,
         \A i \in DOMAIN UnderWay : UnderWay'[i] = UnderWay[i],
         tab.epoch = epoch => tab'.last >= tab.last
  PROVE  Closing'
  <1>1. SUFFICES ASSUME asked.epoch # NoEpoch, NEW p \in DOMAIN UnderWay,
                        UnderWay'[p].type = "resume_ok", ~UnderWay'[p].gap
                 PROVE  asked.epoch = epoch /\ Ahead(UnderWay', p, tab'.last)
    BY DEF Closing
  <1>2. UnderWay[p].type = "resume_ok" /\ ~UnderWay[p].gap
    BY <1>1
  <1>3. /\ asked.epoch = epoch /\ tab.epoch = epoch /\ Ahead(UnderWay, p, tab.last)
        /\ tab.last \in Nat /\ UnderWay[p].seq \in Nat /\ p \in Nat /\ p >= 1
    BY <1>1, <1>2, ClosingReads
  <1>4. PICK hi \in Nat : hi = tab'.last /\ hi >= tab.last
    BY <1>3, StreamConstants DEF StreamConstants, StreamInv, TabInv, Seq0
  <1>5. PICK r : r = UnderWay'
    OBVIOUS
  <1>6. DOMAIN UnderWay = 1 .. Len(send) + Len(replay) /\ Len(send) + Len(replay) \in Nat
    BY QueueReads DEF StreamInv, ConnInv, UnderWay
  <1>7. \A i \in 1 .. p : r[i] = UnderWay[i]
    BY <1>1, <1>3, <1>5, <1>6
  <1>8. Ahead(r, p, hi)
    BY <1>3, <1>4, <1>7, AheadSame
  <1> QED
    BY <1>3, <1>4, <1>5, <1>8

(* A step that leaves the queues alone. *)
LEMMA ClosingUndisturbed ==
  ASSUME StreamInv, StreamInv', Closing, UNCHANGED <<epoch, asked, send, replay>>,
         tab.epoch = epoch => tab'.last >= tab.last
  PROVE  Closing'
  <1>1. UnderWay' = UnderWay
    BY DEF UnderWay
  <1> QED
    BY <1>1, ClosingRests

(* A live message gets in behind the others, before what is replayed. *)
LEMMA ClosingSend ==
  ASSUME StreamInv, StreamInv', Closing, NEW b \in Sender, Send(b)
  PROVE  Closing'
  <1>1. UNCHANGED <<epoch, up, asked, replay, tab>> /\ tab.last >= tab.last
    BY StreamConstants DEF StreamConstants, StreamInv, TabInv, Send, tabVars, Seq0
  <1>2. CASE UNCHANGED send
    BY <1>1, <1>2, ClosingUndisturbed
  <1>3. CASE send' = Append(send, Event(stamped[b]))
    <2>1. send \in Seq(Frame) /\ replay \in Seq(Frame) /\ send' \in Seq(Frame)
          /\ replay' = replay
      BY <1>1 DEF StreamInv, ConnInv
    <2> DEFINE n == Len(send)
               k == Len(replay)
               At(i) == IF i <= n THEN i ELSE i + 1
    <2>2. n \in Nat /\ k \in Nat /\ Len(send') = n + 1
      BY <1>3, <2>1
    <2>3. PICK e : e = Event(stamped[b])
      OBVIOUS
    <2>4. /\ \A i \in 1 .. n : send'[i] = send[i]
          /\ send'[n + 1] = e /\ e.type = "event"
      BY <1>3, <2>1, <2>2, <2>3 DEF Event
    <2>5. PICK r : r = UnderWay'
      OBVIOUS
    <2>6. r = send' \o replay
      BY <1>1, <2>5 DEF UnderWay
    <2>7. /\ DOMAIN UnderWay = 1 .. n + k
          /\ \A i \in 1 .. n : UnderWay[i] = send[i]
          /\ \A i \in 1 .. k : UnderWay[n + i] = replay[i]
      BY <2>1, QueueReads DEF UnderWay
    <2> HIDE DEF n
    <2>8. /\ DOMAIN r = 1 .. (n + 1) + k
          /\ \A i \in 1 .. n + 1 : r[i] = send'[i]
          /\ \A i \in 1 .. k : r[(n + 1) + i] = replay[i]
      <3>1. PICK u \in Seq(Frame) : u = send'
        BY <2>1
      <3>2. Len(u) = n + 1 /\ n + 1 \in Nat /\ r = u \o replay
        BY <2>2, <2>6, <3>1
      <3>3. PICK l \in Nat : l = n + 1 /\ l = Len(u)
        BY <3>2
      <3>4. k = Len(replay) /\ replay \in Seq(Frame)
        BY <2>1
      <3>5. /\ DOMAIN r = 1 .. l + k
            /\ \A i \in 1 .. l : r[i] = u[i]
            /\ \A i \in 1 .. k : r[l + i] = replay[i]
        <4>1. /\ DOMAIN (u \o replay) = 1 .. Len(u) + Len(replay)
              /\ \A i \in 1 .. Len(u) : (u \o replay)[i] = u[i]
              /\ \A i \in 1 .. Len(replay) : (u \o replay)[Len(u) + i] = replay[i]
          BY <3>4, QueueReads
        <4> QED
          BY <3>2, <3>3, <4>1, Zenon
      <3> QED
        BY <3>1, <3>3, <3>5, Zenon
    <2> HIDE DEF k
    <2>9. \A i \in 1 .. n + k : r[At(i)] = UnderWay[i]
      <3> TAKE i \in 1 .. n + k
      <3>1. CASE i <= n
        <4>1. i \in 1 .. n /\ i \in 1 .. n + 1
          BY <2>2, <3>1
        <4> QED
          BY <2>4, <2>7, <2>8, <3>1, <4>1
      <3>2. CASE ~(i <= n)
        <4>1. i - n \in 1 .. k /\ n + (i - n) = i /\ (n + 1) + (i - n) = i + 1
          BY <2>2, <3>2
        <4> QED
          BY <2>7, <2>8, <3>2, <4>1
      <3> QED
        BY <3>1, <3>2
    <2>10. r[n + 1].type # "resume_ok"
      BY <2>2, <2>4, <2>8
    <2>11. \A j \in 1 .. (n + 1) + k : j # n + 1 => \E i \in 1 .. n + k : j = At(i)
      <3> TAKE j \in 1 .. (n + 1) + k
      <3>1. CASE j <= n
        <4>1. j \in 1 .. n + k /\ j = At(j)
          BY <2>2, <3>1
        <4> QED
          BY <4>1
      <3>2. CASE j > n + 1
        <4>1. j - 1 \in 1 .. n + k /\ j = At(j - 1)
          BY <2>2, <3>2
        <4> QED
          BY <4>1
      <3> QED
        BY <2>2, <3>1, <3>2
    <2>12. SUFFICES ASSUME asked.epoch # NoEpoch, NEW j \in DOMAIN r,
                           r[j].type = "resume_ok", ~r[j].gap
                    PROVE  asked.epoch = epoch /\ Ahead(r, j, tab.last)
      BY <1>1, <2>5 DEF Closing
    <2>13. PICK i \in 1 .. n + k : j = At(i)
      BY <2>8, <2>10, <2>11, <2>12
    <2>14. UnderWay[i].type = "resume_ok" /\ ~UnderWay[i].gap /\ i \in DOMAIN UnderWay
      BY <2>7, <2>9, <2>12, <2>13
    <2>15. /\ asked.epoch = epoch /\ Ahead(UnderWay, i, tab.last)
           /\ tab.last \in Nat /\ UnderWay[i].seq \in Nat /\ i \in Nat /\ i >= 1
      BY <2>12, <2>14, ClosingReads
    <2>16. \A h \in 1 .. i : r[IF h <= n THEN h ELSE h + 1] = UnderWay[h]
      BY <2>2, <2>9, <2>15
    <2>17. Ahead(r, IF i <= n THEN i ELSE i + 1, tab.last)
      BY <2>2, <2>15, <2>16, AheadInserted
    <2> QED
      BY <2>13, <2>15, <2>17
  <1> QED
    BY <1>2, <1>3 DEF Send

(* The answer to a resume is the only one under way. *)
LEMMA ClosingHandleResume ==
  ASSUME StreamInv, StreamInv', HandleResume
  PROVE  Closing'
  <1>1. /\ UNCHANGED <<epoch, send, tab>> /\ asked' = resume /\ resume # Nobody
    BY DEF HandleResume, hubVars, tabVars
  <1>2. PICK m \in 0 .. seq, g \in BOOLEAN :
           /\ replay' = Answer(m, g)
           /\ ~g => /\ resume.epoch \in {epoch, NoEpoch}
                    /\ resume.last \in 0 .. seq /\ m = seq - resume.last
    BY ResumeReads
  <1>3. seq \in Nat /\ seq \in Seq0
    BY StreamConstants DEF StreamConstants, StreamInv, HubInv, Seq0
  <1>4. PICK a : a = Answer(m, g)
    OBVIOUS
  <1>5. /\ a \in Seq(Frame) /\ Len(a) = m + 1 /\ m \in Nat
        /\ \A i \in 1 .. m : a[i] = Event(seq - m + i)
        /\ a[m + 1] = ResumeOk(seq, g)
    BY <1>4, AnswerReads DEF StreamInv
  <1>6. send \in Seq(Frame) /\ \A i \in DOMAIN send : send[i].type = "event"
    BY <1>1 DEF StreamInv, ConnInv
  <1> DEFINE n == Len(send)
  <1>7. PICK r : r = UnderWay'
    OBVIOUS
  <1>8. r = send \o a
    BY <1>1, <1>2, <1>4, <1>7 DEF UnderWay
  <1>9. /\ n \in Nat /\ DOMAIN r = 1 .. n + (m + 1)
        /\ \A i \in 1 .. n : r[i] = send[i]
        /\ \A i \in 1 .. m + 1 : r[n + i] = a[i]
    <2>1. n \in Nat /\ n = Len(send)
      BY <1>6
    <2>2. PICK l \in Nat : l = m + 1 /\ l = Len(a)
      BY <1>5
    <2> HIDE DEF n
    <2>3. /\ DOMAIN r = 1 .. n + l
          /\ \A i \in 1 .. n : r[i] = send[i]
          /\ \A i \in 1 .. l : r[n + i] = a[i]
      <3>1. /\ DOMAIN (send \o a) = 1 .. Len(send) + Len(a)
            /\ \A i \in 1 .. Len(send) : (send \o a)[i] = send[i]
            /\ \A i \in 1 .. Len(a) : (send \o a)[Len(send) + i] = a[i]
        BY <1>5, <1>6, QueueReads
      <3> QED
        BY <1>8, <2>1, <2>2, <3>1, Zenon
    <2> QED
      BY <2>1, <2>2, <2>3, Zenon
  <1>10. \A i \in 1 .. n : r[i].type = "event"
    BY <1>6, <1>9
  <1>11. \A i \in 1 .. m : r[n + i].type = "event" /\ r[n + i].seq = seq - m + i
    <2> TAKE i \in 1 .. m
    <2>1. r[n + i] = Event(seq - m + i)
      BY <1>5, <1>9
    <2> QED
      BY <2>1 DEF Event
  <1>12. r[n + (m + 1)].seq = seq /\ (r[n + (m + 1)].gap <=> g)
    <2>1. r[n + (m + 1)] = ResumeOk(seq, g)
      BY <1>5, <1>9
    <2> QED
      BY <2>1 DEF ResumeOk
  <1> HIDE DEF n
  <1>13. SUFFICES ASSUME resume.epoch # NoEpoch, NEW p \in DOMAIN r,
                         r[p].type = "resume_ok", ~r[p].gap
                  PROVE  resume.epoch = epoch /\ Ahead(r, p, tab.last)
    BY <1>1, <1>7 DEF Closing
  <1>14. p = n + (m + 1)
    <2>1. ~(p \in 1 .. n)
      BY <1>10, <1>13
    <2>2. ~(p - n \in 1 .. m /\ n + (p - n) = p)
      BY <1>11, <1>13
    <2> QED
      BY <1>5, <1>9, <1>13, <2>1, <2>2
  <1>15. /\ ~g /\ resume.epoch = epoch /\ resume.last \in Nat /\ m = seq - resume.last
    BY <1>2, <1>3, <1>12, <1>13, <1>14
  <1>16. tab.last \in Nat /\ tab.last >= resume.last
    BY <1>15, StreamConstants DEF StreamConstants, StreamInv, TabInv, Known, Seq0
  <1>17. PICK last \in Nat : last = resume.last
    BY <1>15
  <1>18. /\ r[n + m + 1].seq = last + m
         /\ \A i \in 1 .. m : r[n + i].type = "event" /\ r[n + i].seq = last + i
    <2>1. seq = last + m /\ n + (m + 1) = n + m + 1
      <3>1. seq = last + m
        BY <1>3, <1>5, <1>15, <1>17
      <3>2. n + (m + 1) = n + m + 1
        BY <1>5, <1>9
      <3> QED
        BY <3>1, <3>2
    <2>2. \A i \in 1 .. m : seq - m + i = last + i
      BY <1>3, <1>5, <1>17, <2>1
    <2> QED
      BY <1>11, <1>12, <2>1, <2>2
  <1>19. Ahead(r, n + m + 1, tab.last)
    BY <1>5, <1>9, <1>16, <1>17, <1>18, AheadAnswered
  <1> QED
    BY <1>5, <1>9, <1>14, <1>15, <1>19

(* A replayed frame only moves on, behind what is already on its way. *)
LEMMA ClosingReplayNext ==
  ASSUME StreamInv, StreamInv', Closing, ReplayNext
  PROVE  Closing'
  <1>1. /\ UNCHANGED <<epoch, asked, tab>> /\ replay # <<>>
        /\ send' = Append(send, Head(replay)) /\ replay' = Tail(replay)
    BY DEF ReplayNext, hubVars, tabVars
  <1>2. send \in Seq(Frame) /\ replay \in Seq(Frame)
    BY DEF StreamInv, ConnInv
  <1>3. UnderWay' = Append(send, Head(replay)) \o Tail(replay)
    BY <1>1 DEF UnderWay
  <1>4. Append(send, Head(replay)) \o Tail(replay) = send \o replay
    BY <1>1, <1>2
  <1>5. UnderWay' = UnderWay
    BY <1>3, <1>4 DEF UnderWay
  <1>6. tab'.last >= tab.last
    BY <1>1, StreamConstants DEF StreamConstants, StreamInv, TabInv, Seq0
  <1> QED
    BY <1>1, <1>5, <1>6, ClosingRests

(* What the tab hears in turn is no longer ahead of it. *)
LEMMA ClosingDeliver ==
  ASSUME StreamInv, StreamInv', Closing, Deliver
  PROVE  Closing'
  <1>1. /\ UNCHANGED <<epoch, asked, replay>> /\ send # <<>> /\ send' = Tail(send)
    BY DEF Deliver, hubVars
  <1>2. send \in Seq(Frame) /\ replay \in Seq(Frame) /\ send' \in Seq(Frame)
    BY <1>1 DEF StreamInv, ConnInv
  <1>3. PICK r : r = UnderWay'
    OBVIOUS
  <1>4. r = Tail(send) \o replay
    BY <1>1, <1>3 DEF UnderWay
  <1>5. /\ Len(send) \in Nat /\ Len(send) >= 1 /\ Len(replay) \in Nat
        /\ Tail(send) \in Seq(Frame) /\ Len(Tail(send)) = Len(send) - 1
        /\ \A i \in 1 .. Len(send) - 1 : Tail(send)[i] = send[i + 1]
        /\ Head(send) = send[1]
    BY <1>1, <1>2
  <1>6. /\ DOMAIN UnderWay = 1 .. Len(send) + Len(replay)
        /\ \A i \in 1 .. Len(send) : UnderWay[i] = send[i]
        /\ \A i \in 1 .. Len(replay) : UnderWay[Len(send) + i] = replay[i]
    BY <1>2, QueueReads DEF UnderWay
  <1>7. /\ DOMAIN r = 1 .. (Len(send) - 1) + Len(replay)
        /\ \A i \in 1 .. Len(send) - 1 : r[i] = Tail(send)[i]
        /\ \A i \in 1 .. Len(replay) : r[(Len(send) - 1) + i] = replay[i]
    BY <1>2, <1>4, <1>5, QueueReads
  <1>8. \A i \in DOMAIN r : r[i] = UnderWay[i + 1] /\ i + 1 \in DOMAIN UnderWay
    <2> TAKE i \in DOMAIN r
    <2>1. CASE i <= Len(send) - 1
      <3>1. i \in 1 .. Len(send) - 1 /\ i + 1 \in 1 .. Len(send)
        BY <1>5, <1>7, <2>1
      <3> QED
        BY <1>5, <1>6, <1>7, <3>1
    <2>2. CASE i > Len(send) - 1
      <3>1. PICK j \in 1 .. Len(replay) : (Len(send) - 1) + j = i /\ Len(send) + j = i + 1
        <4>1. i \in Int /\ i <= (Len(send) - 1) + Len(replay)
          BY <1>5, <1>7
        <4>2. /\ i - (Len(send) - 1) \in 1 .. Len(replay)
              /\ (Len(send) - 1) + (i - (Len(send) - 1)) = i
              /\ Len(send) + (i - (Len(send) - 1)) = i + 1
          BY <1>5, <2>2, <4>1
        <4> QED
          BY <4>2
      <3> QED
        BY <1>5, <1>6, <1>7, <3>1
    <2> QED
      BY <1>5, <1>7, <2>1, <2>2
  <1>9. SUFFICES ASSUME asked.epoch # NoEpoch, NEW i \in DOMAIN r,
                        r[i].type = "resume_ok", ~r[i].gap
                 PROVE  asked.epoch = epoch /\ Ahead(r, i, tab'.last)
    BY <1>1, <1>3 DEF Closing
  <1>10. PICK p \in Nat : p = i + 1 /\ p >= 2 /\ p \in DOMAIN UnderWay /\ p - 1 = i
    BY <1>5, <1>7, <1>8
  <1>11. UnderWay[p].type = "resume_ok" /\ ~UnderWay[p].gap
    BY <1>8, <1>9, <1>10
  <1>12. /\ asked.epoch = epoch /\ tab.epoch = epoch /\ Ahead(UnderWay, p, tab.last)
         /\ tab.last \in Nat /\ UnderWay[p].seq \in Nat
    BY <1>9, <1>10, <1>11, ClosingReads
  <1>13. UnderWay[1] = Head(send)
    BY <1>5, <1>6
  <1>14. /\ tab'.last >= tab.last
         /\ Head(send).type = "event" /\ Head(send).seq = tab.last + 1
               => tab'.last >= Head(send).seq
    BY <1>12, TabHears
  <1>15. PICK hi \in Nat : hi = tab'.last
    BY StreamConstants DEF StreamConstants, StreamInv, TabInv, Seq0
  <1>16. \A h \in 1 .. p - 1 : r[h] = UnderWay[h + 1]
    <2>1. PICK k \in Int : k = (Len(send) - 1) + Len(replay) /\ DOMAIN r = 1 .. k
      <3>1. (Len(send) - 1) + Len(replay) \in Int
        BY <1>5
      <3> QED
        BY <1>7, <3>1, Zenon
    <2>2. p - 1 <= k /\ p - 1 \in Nat
      BY <1>9, <1>10, <2>1
    <2>3. \A h \in 1 .. p - 1 : h \in DOMAIN r
      BY <2>1, <2>2
    <2> QED
      BY <1>8, <2>3
  <1>17. Ahead(r, p - 1, hi)
    BY <1>10, <1>12, <1>13, <1>14, <1>15, <1>16, AheadTaken
  <1> QED
    BY <1>10, <1>12, <1>15, <1>17

(* Every step keeps what a resume_ok promises. *)
LEMMA ClosingNext ==
  ASSUME StreamInv, StreamInv', Closing, [Next]_vars
  PROVE  Closing'
  <1>1. tab.last \in Int
    BY StreamConstants DEF StreamConstants, StreamInv, TabInv, Seq0
  <1>2. ASSUME UNCHANGED <<epoch, connVars, tabVars>> PROVE Closing'
    <2>1. UNCHANGED <<epoch, asked, send, replay>> /\ tab'.last >= tab.last
      BY <1>1, <1>2 DEF connVars, tabVars
    <2> QED
      BY <2>1, ClosingUndisturbed
  <1>3. ASSUME asked'.epoch = NoEpoch PROVE Closing'
    BY <1>3 DEF Closing
  <1>4. ASSUME NEW b \in Sender, Stamp(b) PROVE Closing'
    BY <1>2, <1>4 DEF Stamp
  <1>5. ASSUME NEW b \in Sender, Send(b) PROVE Closing'
    BY <1>5, ClosingSend
  <1>6. CASE DropAtHub
    BY <1>2, <1>6 DEF DropAtHub
  <1>7. ASSUME ConnectionLost PROVE Closing'
    BY <1>3, <1>7 DEF ConnectionLost, Nobody
  <1>8. CASE Disconnect \/ EvictSlow
    BY <1>7, <1>8 DEF Disconnect, EvictSlow
  <1>9. CASE Restart
    <2>1. CASE up
      BY <1>7, <1>9, <2>1 DEF Restart
    <2>2. CASE ~up
      BY <1>3, <1>9, <2>2 DEF Restart, connVars, StreamInv, ConnInv, Nobody
    <2> QED
      BY <2>1, <2>2
  <1>10. CASE Connect
    <2>1. UNCHANGED <<epoch, asked, send, replay, tab>>
      BY <1>10 DEF Connect, hubVars
    <2> QED
      BY <1>1, <2>1, ClosingUndisturbed
  <1>11. CASE HandleResume
    BY <1>11, ClosingHandleResume
  <1>12. CASE ReplayNext
    BY <1>12, ClosingReplayNext
  <1>13. CASE Deliver
    BY <1>13, ClosingDeliver
  <1>14. CASE GapTimer
    <2>1. UNCHANGED <<epoch, asked, send, replay>> /\ tab'.last >= tab.last
      BY <1>14, TabGivesUp DEF GapTimer, hubVars, connVars, StreamInv
    <2> QED
      BY <2>1, ClosingUndisturbed
  <1>15. CASE UNCHANGED vars
    BY <1>2, <1>15 DEF vars, hubVars
  <1> QED
    BY <1>4, <1>5, <1>6, <1>8, <1>9, <1>10, <1>11, <1>12, <1>13, <1>14, <1>15 DEF Next

(* By the time a resume_ok without a gap is the next frame, a tab that     *)
(* knew an epoch has dispatched everything numbered since the message it   *)
(* asked to resume from, or gave it up where it warns (which a warning     *)
(* shown before may have hushed), whatever the live messages that overtook *)
(* the replay, the drops and the evictions before it.                      *)
THEOREM ResumeComplete == Spec => []ResumeCatchesUp
  <1>1. Init => Closing
    BY DEF Init, Closing, Nobody
  <1>2. StreamInv /\ Closing => ResumeCatchesUp
    <2> SUFFICES ASSUME StreamInv, Closing, ResumeCloses, asked.epoch # NoEpoch
                 PROVE  Missed \subseteq Dispatched \cup Given
      BY DEF ResumeCatchesUp, Given
    <2> DEFINE m == Head(send)
    <2>1. send \in Seq(Frame) /\ replay \in Seq(Frame) /\ Numbered(send) /\ send # <<>>
          /\ m.type = "resume_ok" /\ ~m.gap
      BY DEF StreamInv, ConnInv, ResumeCloses
    <2>2. m = send[1] /\ Len(send) \in Nat /\ Len(send) >= 1 /\ DOMAIN send = 1 .. Len(send)
      BY <2>1
    <2>3. UnderWay[1] = m /\ 1 \in DOMAIN UnderWay
      BY <2>1, <2>2, QueueReads DEF UnderWay
    <2>4. m.epoch = epoch
      BY <2>1, <2>2 DEF Numbered
    <2> HIDE DEF m
    <2>5. /\ asked.epoch = epoch /\ Ahead(UnderWay, 1, tab.last)
          /\ tab.last \in Nat /\ m.seq \in Nat
      BY <2>1, <2>3, ClosingReads
    <2>6. m.seq <= tab.last
      <3> SUFFICES ASSUME tab.last < m.seq PROVE FALSE
        BY <2>5
      <3>1. PICK f : f \in [tab.last + 1 .. m.seq -> 1 .. 1 - 1]
        BY <2>3, <2>5 DEF Ahead
      <3>2. tab.last + 1 \in tab.last + 1 .. m.seq
        BY <2>5
      <3>3. f[tab.last + 1] \in 1 .. 0
        BY <3>1, <3>2
      <3> QED
        BY <3>3
    <2>7. Missed = asked.last + 1 .. m.seq
      BY <2>4, <2>5 DEF Missed, m
    <2>8. asked.last \in Nat /\ anchor <= asked.last /\ anchor \in Nat
      <3>1. epoch # NoEpoch /\ asked \in Request
        BY <2>5 DEF StreamInv, ConnInv
      <3>2. asked.last \in Nat
        BY <2>5, <3>1, StreamConstants DEF StreamConstants, Request, Nobody, Seq0
      <3> QED
        BY <2>5, <3>2, StreamConstants DEF StreamConstants, StreamInv, TabInv, Known, Seq0
    <2> SUFFICES ASSUME NEW s \in asked.last + 1 .. m.seq PROVE s \in Dispatched \cup Given
      BY <2>7
    <2>9. s \in anchor .. tab.last /\ s # 0
      BY <2>5, <2>6, <2>8
    <2> QED
      BY <2>9 DEF StreamInv, TabInv, NoSkip
  <1>3. Spec => [](StreamInv /\ Closing)
    <2>1. StreamInv /\ Closing /\ [Next]_vars => (StreamInv /\ Closing)'
      BY StreamNext, ClosingNext
    <2> QED
      BY <1>1, <2>1, StreamInit, PTL DEF Spec
  <1> QED
    BY <1>2, <1>3, PTL

================================================================================
