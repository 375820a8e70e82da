---------------------------- MODULE ChatRunsProofs ----------------------------
(* What TLAPS proves of ChatRuns, for every number of turns and evictions  *)
(* and every scenario.                                                     *)
EXTENDS ChatRuns, NumberLemmas, SequenceTheorems, TLAPS

Message == [kind : MsgKind, of : SUBSET Run]

--------------------------------------------------------------------------------
(* The messages.                                                           *)

(* What a turn adds to the history is never empty and tells of itself. *)
LEMMA NewMessagesRead ==
  ASSUME NEW r \in Run, NEW h \in Seq(Message), seen[r] = h
  PROVE  /\ NewMessages(r) \in Seq(Message) /\ Len(NewMessages(r)) \in Nat
         /\ Len(NewMessages(r)) >= 1 /\ NewMessages(r)[1].of = {r}
  <1> DEFINE pong == {i \in DOMAIN h : h[i].kind = "pong"}
             pongs == Cardinality(pong)
             loop  == IF KindOf(r) = "tool"
                        THEN <<Msg("call", r), Msg("result", r), Msg("reply", r)>>
                        ELSE <<Msg("reply", r)>>
             fresh == SubSeq(loop, pongs + 1, Len(loop))
             Own == {Msg(k, r) : k \in MsgKind}
  <1>1. pongs \in Nat
    <2>1. IsFiniteSet(1 .. Len(h)) /\ pong \in SUBSET (1 .. Len(h))
      <3>1. Len(h) \in Nat /\ DOMAIN h = 1 .. Len(h)
        OBVIOUS
      <3>2. IsFiniteSet(1 .. Len(h))
        BY <3>1, FS_Interval
      <3> QED
        BY <3>1, <3>2
    <2> QED
      BY <2>1, FS_Subset, FS_CardinalityType
  <1>2. \A k \in MsgKind : Msg(k, r) \in Own /\ Msg(k, r) \in Message
    BY DEF Msg, Message
  <1>3. {"ask", "pong", "call", "result", "reply"} \subseteq MsgKind
    BY DEF MsgKind
  <1>4. Own \subseteq Message /\ \A m \in Own : m.of = {r}
    BY <1>2 DEF Msg
  <1> HIDE DEF Own
  <1>5. loop \in Seq(Own) /\ Len(loop) \in Nat
    BY <1>2, <1>3
  <1>6. fresh \in Seq(Own)
    <2>1. \A i \in pongs + 1 .. Len(loop) : loop[i] \in Own
      BY <1>1, <1>5
    <2> HIDE DEF loop, pongs
    <2> QED
      BY <1>1, <1>5, <2>1, SubSeqProperties
  <1>7. NewMessages(r) \in {<<Msg("ask", r), Msg("pong", r)>>, <<Msg("ask", r)>>,
                            <<Msg("ask", r), Msg("reply", r)>>,
                            IF fresh = <<>> THEN <<Msg("ask", r), Msg("reply", r)>> ELSE fresh}
    BY DEF NewMessages
  <1> HIDE DEF fresh
  <1>8. NewMessages(r) \in Seq(Own) /\ NewMessages(r) # <<>>
    <2>1. \A a, b \in Own : /\ <<a, b>> \in Seq(Own) /\ <<a, b>> # <<>>
                            /\ <<a>> \in Seq(Own) /\ <<a>> # <<>>
      OBVIOUS
    <2>2. Msg("ask", r) \in Own /\ Msg("pong", r) \in Own /\ Msg("reply", r) \in Own
      BY <1>2, <1>3
    <2> QED
      BY <1>6, <1>7, <2>1, <2>2
  <1>9. /\ NewMessages(r) \in Seq(Message) /\ Len(NewMessages(r)) \in Nat
        /\ Len(NewMessages(r)) >= 1 /\ NewMessages(r)[1] \in Own
    BY <1>4, <1>8
  <1> QED
    BY <1>4, <1>9

(* The tail that a compaction keeps is a history too. *)
LEMMA TailRead ==
  ASSUME NEW h \in Seq(Message)
  PROVE  LastExchanges(h) \in Seq(Message)
  <1> DEFINE users == {i \in DOMAIN h : h[i].kind \in {"ask", "summary"}}
             from  == CHOOSE i \in users : Cardinality({j \in users : j > i}) = 1
  <1>1. CASE Cardinality(users) <= 2
    BY <1>1 DEF LastExchanges
  <1>2. CASE ~(Cardinality(users) <= 2)
    <2>1. Len(h) \in Nat /\ users \in SUBSET (1 .. Len(h)) /\ DOMAIN h = 1 .. Len(h)
      OBVIOUS
    <2>2. Cardinality(users) > 1
      <3>1. IsFiniteSet(users)
        <4>1. IsFiniteSet(1 .. Len(h))
          BY <2>1, FS_Interval
        <4> HIDE DEF users
        <4> QED
          BY <2>1, <4>1, FS_Subset
      <3>2. Cardinality(users) \in Nat
        BY <3>1, FS_CardinalityType
      <3> QED
        BY <1>2, <3>2
    <2>3. \E i \in users : Cardinality({j \in users : j > i}) = 1
      <3> HIDE DEF users
      <3> QED
        BY <2>1, <2>2, LastButOne
    <2> HIDE DEF users
    <2>4. from \in users
      BY <2>3
    <2> HIDE DEF from
    <2>5. from \in Int /\ \A i \in from .. Len(h) : h[i] \in Message
      BY <2>1, <2>4
    <2>6. SubSeq(h, from, Len(h)) \in Seq(Message)
      BY <2>1, <2>5, SubSeqProperties
    <2>7. LastExchanges(h) = SubSeq(h, from, Len(h))
      BY <1>2 DEF LastExchanges, users, from
    <2> QED
      BY <2>6, <2>7
  <1> QED
    BY <1>1, <1>2

(* A longer history tells of more turns. *)
LEMMA CoveredGrows ==
  ASSUME NEW u \in Seq(Message), NEW v \in Seq(Message)
  PROVE  /\ u \o v \in Seq(Message)
         /\ Covered(u) \subseteq Covered(u \o v)
         /\ Len(v) >= 1 => v[1].of \subseteq Covered(u \o v)
  <1>1. /\ Len(u) \in Nat /\ Len(v) \in Nat /\ u \o v \in Seq(Message)
        /\ DOMAIN (u \o v) = 1 .. Len(u) + Len(v) /\ DOMAIN u = 1 .. Len(u)
        /\ \A i \in 1 .. Len(u) : (u \o v)[i] = u[i]
        /\ Len(v) >= 1 => (u \o v)[Len(u) + 1] = v[1]
    OBVIOUS
  <1>2. \A i \in DOMAIN u : i \in DOMAIN (u \o v) /\ (u \o v)[i] = u[i]
    BY <1>1
  <1>3. Len(v) >= 1 => Len(u) + 1 \in DOMAIN (u \o v)
    BY <1>1
  <1> QED
    BY <1>1, <1>2, <1>3 DEF Covered

--------------------------------------------------------------------------------
(* Where runs, sessions and counters can be.                               *)

(* A run goes from one program point to another. *)
Edge(r, a, b) ==
  \/ a = "accepting" /\ b = "queued"
  \/ a = "queued" /\ b = "lookup"
  \/ a = "settling" /\ b \in {"lookup", "emitting"}
  \/ a = "lookup" /\ b = "claiming"
  \/ a = "claiming" /\ b \in {"turn", "waiting"}
  \/ a = "waiting" /\ b \in {"claiming", "busy"}
  \/ a = "busy" /\ b \in {"lookup", "persisting"}
  \/ a = "turn" /\ b \in {"model", "releasing"}
  \/ a = "model" /\ b = "releasing"
  \/ a = "releasing" /\ b = "persisting"
  \/ a = "persisting" /\ b = "emitting"
  \/ a = "emitting" /\ b = (IF ModeOf(r) = "follow" THEN "over" ELSE "ending")
  \/ a = "ending" /\ b = "over"

Located == {"claiming", "waiting", "turn", "model", "releasing"}
After   == {"releasing", "persisting", "emitting", "ending", "over"}

QueueTypes ==
  /\ scenario \in Scenario /\ admitted \in 0 .. NumRuns
  /\ pc \in [Run -> PC]
  /\ reg \in 0 .. admitted /\ depth \in Nat
  /\ waitOn \in [Run -> 0 .. NumRuns]
  /\ ctx \in [Run -> {"live", "cancelled", "ended"}] /\ late \subseteq Run

SessionTypes ==
  /\ live \in Obj \cup {NoObj} /\ obj \in [Run -> Obj \cup {NoObj}]
  /\ holder \in [Obj -> 0 .. NumRuns] /\ idleOn \in [Run -> 0 .. NumRuns]
  /\ failed \in [Run -> {"no", "early", "late"}]
  /\ idleLong \in BOOLEAN /\ evictee \in BOOLEAN /\ evictions \in 0 .. MaxEvictions

HistoryTypes ==
  /\ history \in [Obj -> Seq(Message)] /\ seen \in [Run -> Seq(Message)]
  /\ compaction \in [Run -> {"no", "scheduled", "summarising", "over"}]
  /\ compactMu \in [Obj -> 0 .. NumRuns] /\ compSnap \in [Run -> Seq(Message)]
  /\ raced \subseteq Run

StoreTypes ==
  /\ stored \in [Run -> SUBSET {"ask", "reply", "error"}] /\ lastAsk \in 0 .. admitted
  /\ out \in [Run -> {"none", "done", "cancelled", "error"}]

(* Runs are new until they are admitted, only chat runs pass through the   *)
(* server's queue, a run beyond lookup has its Session object, and it is   *)
(* compacted only after its turn.  What has been idle may still be evicted.*)
Placed ==
  /\ \A r \in Run :
       /\ pc[r] = "new" <=> r > admitted
       /\ pc[r] \in {"accepting", "queued", "ending"} => ModeOf(r) # "follow"
       /\ pc[r] = "settling" => ModeOf(r) = "follow"
       /\ pc[r] \in Located => obj[r] \in Obj
       /\ compaction[r] # "no" => obj[r] \in Obj /\ pc[r] \in After
  /\ idleLong \/ evictee => evictions < MaxEvictions

Base == QueueTypes /\ SessionTypes /\ HistoryTypes /\ StoreTypes /\ Placed

(* Before the first chat message nothing is queued, held or stored. *)
LEMMA BaseInit == Init => Base
  <1> SUFFICES ASSUME Init PROVE Base
    OBVIOUS
  <1>0. NumRuns \in Nat /\ MaxEvictions \in Nat /\ scenario \in Scenario
    BY ChatConstants DEF ChatConstants, Init
  <1>1. QueueTypes
    BY <1>0 DEF QueueTypes, Init, PC, NoRun
  <1>2. SessionTypes
    <2>1. live \in Obj \cup {NoObj} /\ obj \in [Run -> Obj \cup {NoObj}]
      BY DEF Init
    <2>2. holder \in [Obj -> 0 .. NumRuns] /\ idleOn \in [Run -> 0 .. NumRuns]
      BY <1>0 DEF Init, NoRun
    <2>3. failed \in [Run -> {"no", "early", "late"}]
      BY DEF Init
    <2>4. idleLong \in BOOLEAN /\ evictee \in BOOLEAN /\ evictions \in 0 .. MaxEvictions
      <3>1. evictions \in 0 .. MaxEvictions
        BY <1>0 DEF Init
      <3> QED
        BY <3>1 DEF Init
    <2> QED
      BY <2>1, <2>2, <2>3, <2>4 DEF SessionTypes
  <1>3. HistoryTypes
    <2>1. <<>> \in Seq(Message)
      OBVIOUS
    <2> QED
      BY <1>0, <2>1 DEF HistoryTypes, Init, NoRun
  <1>4. StoreTypes
    BY <1>0 DEF StoreTypes, Init, NoRun
  <1>5. Placed
    BY <1>0 DEF Placed, Init, Located, Run
  <1> QED
    BY <1>1, <1>2, <1>3, <1>4, <1>5 DEF Base

(* Every step of a run is along an edge. *)
LEMMA RunMoves ==
  ASSUME Base, NEW r \in Run, RunStep(r)
  PROVE  /\ pc' = [pc EXCEPT ![r] = pc'[r]] /\ Edge(r, pc[r], pc'[r])
         /\ UNCHANGED <<scenario, admitted>>
  <1>1. pc \in [Run -> PC]
    BY DEF Base, QueueTypes
  <1>2. ASSUME NEW p, Goto(r, p)
        PROVE  pc' = [pc EXCEPT ![r] = pc'[r]] /\ pc'[r] = p
    BY <1>1, <1>2 DEF Goto
  <1>3. CASE Accept(r) \/ AwaitChatTurn(r) \/ FollowUpSettles(r)
    BY <1>2, <1>3 DEF Accept, AwaitChatTurn, FollowUpSettles, Edge
  <1>4. CASE Lookup(r) \/ TryBeginRun(r) \/ SlotTaken(r) \/ WaitForIdle(r)
    BY <1>2, <1>4 DEF Lookup, TryBeginRun, SlotTaken, WaitForIdle, Edge
  <1>5. CASE QueueBusy(r) \/ SnapshotHistory(r) \/ TurnFails(r) \/ EndRun(r)
    BY <1>2, <1>5 DEF QueueBusy, SnapshotHistory, TurnFails, EndRun, Edge
  <1>6. CASE FastAnswer(r) \/ ModelAnswers(r)
    BY <1>2, <1>6 DEF FastAnswer, ModelAnswers, Concludes, Edge
  <1>7. CASE PersistAccumulated(r) \/ EmitDone(r) \/ EndChatRun(r)
    BY <1>2, <1>7 DEF PersistAccumulated, EmitDone, EndChatRun, Edge
  <1> QED
    BY <1>3, <1>4, <1>5, <1>6, <1>7 DEF RunStep

(* Admission, registration and the end of a run keep the queue within its  *)
(* types; nobody is registered who was not admitted.                       *)
LEMMA QueueTypesKept ==
  ASSUME Base, [Next]_vars
  PROVE  QueueTypes'
  <1> USE DEF Base, QueueTypes
  <1>0. NumRuns \in Nat
    BY ChatConstants DEF ChatConstants
  <1>1. CASE Arrive
    <2> DEFINE r == admitted + 1
    <2>1. r \in Run /\ r \in 0 .. NumRuns /\ admitted' = r /\ r \in 0 .. r
      BY <1>0, <1>1 DEF Arrive, Run
    <2>2. scenario' = scenario
      BY <1>1 DEF Arrive
    <2>3. reg \in 0 .. r
      BY <1>0
    <2> HIDE DEF r
    <2>4. CASE ReserveChatRun(r) /\ \E p \in {"accepting", "queued"} : Goto(r, p)
      BY <1>0, <2>1, <2>2, <2>4 DEF ReserveChatRun, Goto, PC
    <2>5. CASE UNCHANGED queueVars /\ Goto(r, "settling")
      <3>1. UNCHANGED <<reg, depth, waitOn, ctx, late>>
        BY <2>5 DEF queueVars
      <3>2. pc' \in [Run -> PC]
        BY <2>5 DEF Goto, PC
      <3>3. reg' \in 0 .. admitted' /\ admitted' \in 0 .. NumRuns
        BY <2>1, <2>3, <3>1
      <3> QED
        BY <2>2, <3>1, <3>2, <3>3
    <2> QED
      BY <1>1, <2>4, <2>5 DEF Arrive, r, FrameArrives, PostArrives, FollowUpStarts
  <1>2. ASSUME NEW r \in Run, RunStep(r) PROVE QueueTypes'
    <2>1. pc' = [pc EXCEPT ![r] = pc'[r]] /\ Edge(r, pc[r], pc'[r]) /\ UNCHANGED <<scenario, admitted>>
      BY <1>2, RunMoves
    <2>2. pc'[r] \in PC
      BY <2>1 DEF Edge, PC
    <2>3. pc' \in [Run -> PC]
      BY <2>1, <2>2
    <2>4. CASE UNCHANGED queueVars
      BY <2>1, <2>3, <2>4 DEF queueVars
    <2>5. CASE AwaitChatTurn(r)
      BY <1>0, <2>1, <2>3, <2>5 DEF AwaitChatTurn, NoRun
    <2>6. CASE EndChatRun(r)
      BY <1>0, <2>1, <2>3, <2>6 DEF EndChatRun, NoRun
    <2> QED
      BY <1>2, <2>4, <2>5, <2>6 DEF RunStep, Accept, FollowUpSettles, Lookup, TryBeginRun, SlotTaken,
           WaitForIdle, QueueBusy, FastAnswer, SnapshotHistory, ModelAnswers, Concludes, TurnFails,
           EndRun, PersistAccumulated, EmitDone
  <1>3. CASE ChatCancel
    BY <1>0, <1>3 DEF ChatCancel, NoRun, Run
  <1>4. ASSUME UNCHANGED <<scenario, admitted, pc, queueVars>> PROVE QueueTypes'
    BY <1>4 DEF queueVars
  <1>5. ASSUME NEW r \in Run, Compaction(r) PROVE QueueTypes'
    BY <1>4, <1>5 DEF Compaction, CompactionStarts, CompactionEnds
  <1>6. CASE Eviction
    BY <1>4, <1>6 DEF Eviction, GrowsIdle, EvictionPicks, EvictionDeletes
  <1>7. CASE UNCHANGED vars
    BY <1>4, <1>7 DEF vars
  <1> QED
    BY <1>1, <1>2, <1>3, <1>5, <1>6, <1>7 DEF Next

(* Lookups, claims, releases and evictions keep the sessions typed. *)
LEMMA SessionTypesKept ==
  ASSUME Base, [Next]_vars
  PROVE  SessionTypes'
  <1>0. MaxEvictions \in Nat /\ NumRuns \in Nat
    BY ChatConstants DEF ChatConstants
  <1>1. SessionTypes /\ pc \in [Run -> PC]
    BY DEF Base, QueueTypes
  <1>2. ASSUME UNCHANGED <<sessionVars, failed, evictVars>> PROVE SessionTypes'
    BY <1>1, <1>2 DEF SessionTypes, sessionVars, evictVars
  <1>3. ASSUME NEW r \in Run, RunStep(r) PROVE SessionTypes'
    <2>1. pc[r] \in Located => obj[r] \in Obj
      BY DEF Base, Placed
    <2>2. r \in 0 .. NumRuns
      BY <1>0 DEF Run
    <2>3. ASSUME UNCHANGED <<sessionVars, evictVars>>, failed' \in [Run -> {"no", "early", "late"}]
          PROVE  SessionTypes'
      BY <1>1, <2>3 DEF SessionTypes, sessionVars, evictVars
    <2>4. CASE FollowUpSettles(r) \/ QueueBusy(r) \/ TurnFails(r)
      BY <1>1, <2>3, <2>4 DEF FollowUpSettles, QueueBusy, TurnFails, SessionTypes
    <2>5. CASE Lookup(r)
      <3>1. live' \in Obj \cup {NoObj} /\ live' \in Obj
        BY <1>0, <1>1, <2>5 DEF Lookup, SessionTypes, Obj, NoObj
      <3> QED
        BY <1>1, <2>5, <3>1 DEF Lookup, SessionTypes, evictVars
    <2>6. CASE TryBeginRun(r)
      BY <1>1, <2>2, <2>6 DEF TryBeginRun, SessionTypes
    <2>7. CASE SlotTaken(r)
      <3>1. holder[obj[r]] \in 0 .. NumRuns
        BY <1>1, <2>1, <2>7 DEF SlotTaken, SessionTypes, Located
      <3> QED
        BY <1>1, <2>7, <3>1 DEF SlotTaken, SessionTypes, evictVars
    <2>8. CASE WaitForIdle(r)
      <3>1. NoRun \in 0 .. NumRuns
        BY <1>0 DEF NoRun
      <3> QED
        BY <1>1, <2>8, <3>1 DEF WaitForIdle, SessionTypes, evictVars
    <2>9. CASE EndRun(r)
      <3>1. NoRun \in 0 .. NumRuns
        BY <1>0 DEF NoRun
      <3> QED
        BY <1>1, <2>9, <3>1 DEF EndRun, SessionTypes, evictVars
    <2> QED
      BY <1>2, <1>3, <2>4, <2>5, <2>6, <2>7, <2>8, <2>9 DEF RunStep, Accept, AwaitChatTurn, FastAnswer,
         SnapshotHistory, ModelAnswers, Concludes, PersistAccumulated, EmitDone, EndChatRun
  <1>4. CASE Arrive \/ ChatCancel
    BY <1>2, <1>4 DEF Arrive, ChatCancel
  <1>5. ASSUME NEW r \in Run, Compaction(r) PROVE SessionTypes'
    BY <1>2, <1>5 DEF Compaction, CompactionStarts, CompactionEnds
  <1>6. CASE GrowsIdle \/ EvictionPicks
    BY <1>1, <1>6 DEF GrowsIdle, EvictionPicks, sessionVars, SessionTypes
  <1>7. CASE EvictionDeletes
    <2>1. evictions < MaxEvictions
      BY <1>7 DEF Base, Placed, EvictionDeletes
    <2>2. evictions' \in 0 .. MaxEvictions
      BY <1>0, <1>1, <1>7, <2>1 DEF EvictionDeletes, SessionTypes
    <2> QED
      BY <1>1, <1>7, <2>2 DEF EvictionDeletes, SessionTypes
  <1>8. CASE UNCHANGED vars
    BY <1>2, <1>8 DEF vars
  <1> QED
    BY <1>3, <1>4, <1>5, <1>6, <1>7, <1>8 DEF Next, Eviction

(* Turns and compactions write sequences of messages. *)
LEMMA HistoryTypesKept ==
  ASSUME Base, [Next]_vars
  PROVE  HistoryTypes'
  <1>0. NumRuns \in Nat
    BY ChatConstants DEF ChatConstants
  <1>1. HistoryTypes
    BY DEF Base
  <1>2. ASSUME UNCHANGED historyVars PROVE HistoryTypes'
    BY <1>1, <1>2 DEF HistoryTypes, historyVars
  <1>3. <<>> \in Seq(Message) /\ NoRun \in 0 .. NumRuns
    BY <1>0 DEF NoRun
  <1>4. \A r \in Run : r \in 0 .. NumRuns
    BY <1>0 DEF Run
  <1>5. ASSUME NEW r \in Run, Concludes(r), pc[r] \in Located PROVE HistoryTypes'
    <2>1. obj[r] \in Obj
      BY <1>5 DEF Base, Placed
    <2>2. NewMessages(r) \in Seq(Message) /\ history[obj[r]] \in Seq(Message)
      BY <1>1, <2>1, NewMessagesRead DEF HistoryTypes
    <2>3. history[obj[r]] \o NewMessages(r) \in Seq(Message)
      BY <2>2
    <2>4. history' \in [Obj -> Seq(Message)]
      BY <1>1, <1>5, <2>1, <2>3 DEF Concludes, HistoryTypes
    <2> QED
      BY <1>1, <1>3, <1>5, <2>4 DEF Concludes, HistoryTypes
  <1>6. ASSUME NEW r \in Run, RunStep(r) PROVE HistoryTypes'
    <2>1. CASE SnapshotHistory(r)
      <3>1. obj[r] \in Obj
        BY <2>1 DEF Base, Placed, SnapshotHistory, Located
      <3>2. history[obj[r]] \in Seq(Message)
        BY <1>1, <3>1 DEF HistoryTypes
      <3> QED
        BY <1>1, <2>1, <3>2 DEF SnapshotHistory, HistoryTypes
    <2>2. CASE TurnFails(r)
      BY <1>1, <1>3, <2>2 DEF TurnFails, HistoryTypes
    <2>3. CASE FastAnswer(r) \/ ModelAnswers(r)
      BY <1>5, <2>3 DEF FastAnswer, ModelAnswers, Located
    <2> QED
      BY <1>2, <1>6, <2>1, <2>2, <2>3 DEF RunStep, Accept, AwaitChatTurn, FollowUpSettles, Lookup,
         TryBeginRun, SlotTaken, WaitForIdle, QueueBusy, EndRun, PersistAccumulated, EmitDone, EndChatRun
  <1>7. ASSUME NEW r \in Run, CompactionStarts(r) PROVE HistoryTypes'
    <2>1. obj[r] \in Obj
      BY <1>7 DEF Base, Placed, CompactionStarts
    <2>2. history[obj[r]] \in Seq(Message)
      BY <1>1, <2>1 DEF HistoryTypes
    <2> QED
      BY <1>1, <1>4, <1>7, <2>2 DEF CompactionStarts, HistoryTypes
  <1>8. ASSUME NEW r \in Run, CompactionEnds(r) PROVE HistoryTypes'
    <2> DEFINE summary == [kind |-> "summary", of |-> Covered(compSnap[r])]
               h == <<summary>> \o LastExchanges(compSnap[r])
    <2>1. compSnap[r] \in Seq(Message)
      BY <1>1 DEF HistoryTypes
    <2>2. h \in Seq(Message)
      <3>1. Covered(compSnap[r]) \in SUBSET Run
        <4>1. \A i \in DOMAIN compSnap[r] : compSnap[r][i] \in Message
          BY <2>1
        <4>2. \A i \in DOMAIN compSnap[r] : compSnap[r][i].of \subseteq Run
          BY <4>1 DEF Message
        <4> QED
          BY <4>2 DEF Covered
      <3>2. summary \in Message
        BY <3>1 DEF Message, MsgKind
      <3>3. LastExchanges(compSnap[r]) \in Seq(Message)
        BY <2>1, TailRead
      <3> HIDE DEF summary
      <3> QED
        BY <3>2, <3>3
    <2>3. history' \in [Obj -> Seq(Message)] /\ raced' \subseteq Run
      <3>1. history' = [history EXCEPT ![obj[r]] = h] \/ history' = history
        BY <1>8 DEF CompactionEnds
      <3>2. raced' \subseteq Run
        BY <1>1, <1>8 DEF CompactionEnds, HistoryTypes
      <3> HIDE DEF h
      <3> QED
        BY <1>1, <2>2, <3>1, <3>2 DEF HistoryTypes
    <2> QED
      BY <1>1, <1>3, <1>8, <2>3 DEF CompactionEnds, HistoryTypes
  <1>9. CASE Arrive \/ ChatCancel \/ Eviction
    BY <1>2, <1>9 DEF Arrive, ChatCancel, Eviction, GrowsIdle, EvictionPicks, EvictionDeletes
  <1>10. CASE UNCHANGED vars
    BY <1>2, <1>10 DEF vars
  <1> QED
    BY <1>6, <1>7, <1>8, <1>9, <1>10 DEF Next, Compaction

(* The rows a run may store, and what follows when the ask is among them. *)
LEMMA RowsRead ==
  ASSUME NEW r \in Run, NEW rows \in RowsToStore(r)
  PROVE  rows \subseteq {"ask", "reply", "error"}
  <1>1. \A a \in AnswerRows(r) : a \subseteq {"reply", "error"}
    BY DEF AnswerRows
  <1> QED
    BY <1>1 DEF RowsToStore

(* What is stored and told stays typed. *)
LEMMA StoreTypesKept ==
  ASSUME Base, [Next]_vars
  PROVE  StoreTypes'
  <1>0. NumRuns \in Nat
    BY ChatConstants DEF ChatConstants
  <1>1. StoreTypes /\ pc \in [Run -> PC] /\ admitted \in 0 .. NumRuns
    BY DEF Base, QueueTypes
  <1>2. ASSUME UNCHANGED <<storeVars, out>>, UNCHANGED admitted PROVE StoreTypes'
    BY <1>1, <1>2 DEF StoreTypes, storeVars
  <1>3. ASSUME NEW r \in Run, r <= admitted', PersistInbound(r), UNCHANGED out,
               admitted' \in Nat, admitted <= admitted'
        PROVE  StoreTypes'
    <2>1. stored' \in [Run -> SUBSET {"ask", "reply", "error"}]
      BY <1>1, <1>3 DEF PersistInbound, StoreTypes, storeVars
    <2>2. lastAsk' \in 0 .. admitted'
      BY <1>0, <1>1, <1>3 DEF PersistInbound, StoreTypes, storeVars, Run
    <2> QED
      BY <1>1, <1>3, <2>1, <2>2 DEF StoreTypes
  <1>4. CASE Arrive
    <2> DEFINE r == admitted + 1
    <2>1. r \in Run /\ admitted' = r /\ UNCHANGED out
      BY <1>0, <1>1, <1>4 DEF Arrive, Run
    <2>2. CASE PersistInbound(r)
      BY <1>0, <1>1, <1>3, <2>1, <2>2
    <2>3. CASE UNCHANGED storeVars
      <3>1. lastAsk' \in 0 .. admitted'
        BY <1>0, <1>1, <2>1, <2>3 DEF StoreTypes, storeVars
      <3> QED
        BY <1>1, <2>1, <2>3, <3>1 DEF StoreTypes, storeVars
    <2> QED
      BY <1>4, <2>2, <2>3 DEF Arrive, FrameArrives, PostArrives, FollowUpStarts
  <1>5. ASSUME NEW r \in Run, RunStep(r) PROVE StoreTypes'
    <2>1. UNCHANGED admitted /\ Edge(r, pc[r], pc'[r])
      BY <1>5, RunMoves
    <2>2. r <= admitted /\ r \in Int
      <3>1. pc[r] # "new"
        BY <2>1 DEF Edge
      <3> QED
        BY <1>0, <1>1, <3>1 DEF Base, Placed, Run
    <2>3. CASE Accept(r)
      BY <1>0, <1>1, <1>3, <2>1, <2>2, <2>3 DEF Accept
    <2>4. CASE PersistAccumulated(r)
      <3>1. PICK rows \in RowsToStore(r) :
               /\ stored' = [stored EXCEPT ![r] = @ \cup rows]
               /\ lastAsk' = IF "ask" \in rows \ stored[r] THEN r ELSE lastAsk
        BY <2>4 DEF PersistAccumulated
      <3>2. rows \subseteq {"ask", "reply", "error"}
        BY RowsRead
      <3>3. stored' \in [Run -> SUBSET {"ask", "reply", "error"}]
        BY <1>1, <3>1, <3>2 DEF StoreTypes
      <3>4. lastAsk' \in 0 .. admitted'
        BY <1>0, <1>1, <2>1, <2>2, <3>1 DEF StoreTypes, Run
      <3> QED
        BY <1>1, <2>4, <3>3, <3>4 DEF StoreTypes, PersistAccumulated
    <2>5. CASE EmitDone(r)
      <3>1. out' \in [Run -> {"none", "done", "cancelled", "error"}]
        BY <1>1, <2>5 DEF EmitDone, StoreTypes
      <3> QED
        BY <1>1, <2>1, <2>5, <3>1 DEF EmitDone, StoreTypes, storeVars
    <2> QED
      BY <1>2, <1>5, <2>1, <2>3, <2>4, <2>5 DEF RunStep, AwaitChatTurn, FollowUpSettles, Lookup, TryBeginRun,
         SlotTaken, WaitForIdle, QueueBusy, FastAnswer, SnapshotHistory, ModelAnswers, Concludes, TurnFails,
         EndRun, EndChatRun
  <1>6. ASSUME NEW r \in Run, Compaction(r) PROVE StoreTypes'
    BY <1>2, <1>6 DEF Compaction, CompactionStarts, CompactionEnds
  <1>7. CASE ChatCancel \/ Eviction
    BY <1>2, <1>7 DEF ChatCancel, Eviction, GrowsIdle, EvictionPicks, EvictionDeletes
  <1>8. CASE UNCHANGED vars
    BY <1>2, <1>8 DEF vars
  <1> QED
    BY <1>4, <1>5, <1>6, <1>7, <1>8 DEF Next

(* Every step of a run takes it to a place that agrees with its session,   *)
(* its compaction and the eviction under way.                              *)
LEMMA PlacedKept ==
  ASSUME Base, [Next]_vars
  PROVE  Placed'
  <1>0. NumRuns \in Nat /\ MaxEvictions \in Nat
    BY ChatConstants DEF ChatConstants
  <1>1. /\ pc \in [Run -> PC] /\ admitted \in 0 .. NumRuns
        /\ obj \in [Run -> Obj \cup {NoObj}]
        /\ compaction \in [Run -> {"no", "scheduled", "summarising", "over"}] /\ Placed
        /\ evictions \in 0 .. MaxEvictions
    BY DEF Base, QueueTypes, SessionTypes, HistoryTypes
  <1>2. ASSUME UNCHANGED <<scenario, admitted, pc, obj, compaction, evictVars>> PROVE Placed'
    BY <1>1, <1>2 DEF Placed, ModeOf, evictVars
  <1>3. CASE Arrive
    <2> DEFINE n == admitted + 1
    <2>1. n \in Run /\ admitted' = n /\ UNCHANGED <<scenario, obj, compaction, evictVars>>
      BY <1>0, <1>1, <1>3 DEF Arrive, Run, sessionVars, historyVars
    <2>2. pc[n] = "new"
      BY <1>0, <1>1, <2>1 DEF Placed
    <2>3. \/ ModeOf(n) # "follow" /\ \E p \in {"accepting", "queued"} : Goto(n, p)
          \/ ModeOf(n) = "follow" /\ Goto(n, "settling")
      BY <1>3 DEF Arrive, FrameArrives, PostArrives, FollowUpStarts
    <2>4. \A r \in Run : r > n <=> r > admitted /\ r # n
      BY <1>0, <1>1 DEF Run
    <2>5. ~(n > n)
      BY <1>1
    <2> HIDE DEF n
    <2>6. \A r \in Run : r # n => pc'[r] = pc[r]
      BY <1>1, <2>3 DEF Goto
    <2>7. \/ ModeOf(n) # "follow" /\ pc'[n] \in {"accepting", "queued"}
          \/ ModeOf(n) = "follow" /\ pc'[n] = "settling"
      BY <1>1, <2>1, <2>3 DEF Goto
    <2>8. compaction[n] = "no"
      BY <1>1, <2>1, <2>2 DEF Placed, After
    <2> QED
      BY <1>1, <2>1, <2>2, <2>4, <2>5, <2>6, <2>7, <2>8 DEF Placed, Located, After, ModeOf, evictVars
  <1>4. ASSUME NEW r \in Run, RunStep(r) PROVE Placed'
    <2>1. /\ pc' = [pc EXCEPT ![r] = pc'[r]] /\ Edge(r, pc[r], pc'[r])
          /\ UNCHANGED <<scenario, admitted>>
      BY <1>4, RunMoves
    <2>2. /\ \A x \in Run : x # r => pc'[x] = pc[x] /\ obj'[x] = obj[x] /\ compaction'[x] = compaction[x]
          /\ compaction'[r] = compaction[r] \/ (pc[r] \in {"turn", "model"} /\ pc'[r] = "releasing")
          /\ UNCHANGED <<evictee, evictions>>
          /\ idleLong' => idleLong
      <3>1. \A x \in Run : x # r => pc'[x] = pc[x]
        BY <1>1, <2>1
      <3>2. CASE UNCHANGED <<obj, compaction, evictee, evictions>> /\ (idleLong' => idleLong)
        BY <3>1, <3>2
      <3>3. CASE Lookup(r)
        BY <1>1, <3>1, <3>3 DEF Lookup, historyVars, evictVars
      <3>4. CASE FastAnswer(r) \/ ModelAnswers(r)
        <4>1. pc[r] \in {"turn", "model"} /\ pc'[r] = "releasing"
          BY <1>1, <3>4 DEF FastAnswer, ModelAnswers, Concludes, Goto
        <4>2. UNCHANGED <<obj, evictee, evictions, idleLong>>
          BY <3>4 DEF FastAnswer, ModelAnswers, Concludes, sessionVars, evictVars
        <4>3. \A x \in Run : x # r => compaction'[x] = compaction[x]
          BY <1>1, <3>4 DEF FastAnswer, ModelAnswers, Concludes
        <4> QED
          BY <3>1, <4>1, <4>2, <4>3
      <3>5. CASE TryBeginRun(r)
        BY <3>2, <3>5 DEF TryBeginRun, historyVars
      <3>6. CASE SnapshotHistory(r) \/ TurnFails(r)
        BY <3>2, <3>6 DEF SnapshotHistory, TurnFails, sessionVars, evictVars
      <3>7. CASE Accept(r) \/ AwaitChatTurn(r) \/ FollowUpSettles(r) \/ SlotTaken(r) \/ WaitForIdle(r)
        BY <3>2, <3>7 DEF Accept, AwaitChatTurn, FollowUpSettles, SlotTaken, WaitForIdle, historyVars,
           sessionVars, evictVars
      <3>8. CASE QueueBusy(r) \/ EndRun(r) \/ PersistAccumulated(r) \/ EmitDone(r) \/ EndChatRun(r)
        BY <3>2, <3>8 DEF QueueBusy, EndRun, PersistAccumulated, EmitDone, EndChatRun, historyVars,
           sessionVars, evictVars
      <3> QED
        BY <1>4, <3>3, <3>4, <3>5, <3>6, <3>7, <3>8 DEF RunStep
    <2>3. CASE Lookup(r)
      <3>1. obj'[r] \in Obj /\ pc'[r] = "claiming"
        <4>1. pc'[r] = "claiming" /\ obj'[r] = live'
          BY <1>1, <2>3 DEF Lookup, Goto
        <4>2. live' \in Obj
          BY <1>0, <1>1, <2>3 DEF Lookup, Base, SessionTypes, Obj, NoObj
        <4> QED
          BY <4>1, <4>2
      <3>2. compaction'[r] = "no"
        BY <1>1, <2>2, <2>3 DEF Lookup, Placed, After
      <3> QED
        BY <1>1, <2>1, <2>2, <2>3, <3>1, <3>2 DEF Placed, ModeOf, Lookup
    <2>4. CASE obj' = obj /\ pc[r] # "lookup"
      <3>1. pc'[r] \in Located => obj[r] \in Obj
        BY <1>1, <2>1, <2>4 DEF Edge, Placed, Located
      <3>2. compaction'[r] # "no" => obj[r] \in Obj /\ pc'[r] \in After
        BY <1>1, <2>1, <2>2 DEF Edge, Placed, Located, After
      <3>3. /\ pc'[r] = "new" <=> r > admitted
            /\ pc'[r] \in {"accepting", "queued", "ending"} => ModeOf(r) # "follow"
            /\ pc'[r] = "settling" => ModeOf(r) = "follow"
        BY <1>1, <2>1 DEF Edge, Placed
      <3> QED
        BY <1>1, <2>1, <2>2, <2>4, <3>1, <3>2, <3>3 DEF Placed, ModeOf
    <2> QED
      <3>1. ~Lookup(r) => pc[r] # "lookup" /\ obj' = obj
        BY <1>4 DEF RunStep, Accept, AwaitChatTurn, FollowUpSettles, TryBeginRun, SlotTaken,
           WaitForIdle, QueueBusy, FastAnswer, SnapshotHistory, ModelAnswers, Concludes, TurnFails, EndRun,
           PersistAccumulated, EmitDone, EndChatRun, sessionVars
      <3> QED
        BY <2>3, <2>4, <3>1
  <1>5. ASSUME NEW r \in Run, Compaction(r) PROVE Placed'
    <2>1. /\ UNCHANGED <<scenario, admitted, pc, obj, evictVars>> /\ compaction[r] # "no"
          /\ \A x \in Run : x # r => compaction'[x] = compaction[x]
      BY <1>1, <1>5 DEF Compaction, CompactionStarts, CompactionEnds, sessionVars
    <2> QED
      BY <1>1, <2>1 DEF Placed, ModeOf, evictVars
  <1>6. CASE ChatCancel
    BY <1>2, <1>6 DEF ChatCancel, sessionVars, historyVars
  <1>7. CASE Eviction
    <2>1. UNCHANGED <<scenario, admitted, pc, obj, compaction>>
      BY <1>7 DEF Eviction, GrowsIdle, EvictionPicks, EvictionDeletes, sessionVars, historyVars
    <2>2. idleLong' \/ evictee' => evictions' < MaxEvictions
      BY <1>1, <1>7 DEF Eviction, GrowsIdle, EvictionPicks, EvictionDeletes, Placed
    <2> QED
      BY <1>1, <2>1, <2>2 DEF Placed, ModeOf
  <1>8. CASE UNCHANGED vars
    BY <1>2, <1>8 DEF vars, sessionVars, historyVars
  <1> QED
    BY <1>3, <1>4, <1>5, <1>6, <1>7, <1>8 DEF Next

(* The types and the places hold in every behaviour. *)
LEMMA BaseHolds == Spec => []Base
  <1>1. Base /\ [Next]_vars => Base'
    BY QueueTypesKept, SessionTypesKept, HistoryTypesKept, StoreTypesKept, PlacedKept DEF Base
  <1> QED
    BY <1>1, BaseInit, PTL DEF Spec

--------------------------------------------------------------------------------
(* The queue.                                                              *)

Unfinished == {r \in Run : Chat(r) /\ pc[r] # "over"}

(* Steps at which no chat run is admitted or ends and nothing is cancelled *)
(* leave the counters alone.                                               *)
LEMMA AccountInit == Init => QueueAccounted
  <1> SUFFICES ASSUME Init PROVE QueueAccounted
    OBVIOUS
  <1>1. {r \in Run : Chat(r) /\ pc[r] # "over"} = {}
    BY ChatConstants DEF ChatConstants, Init, Chat, Run
  <1>2. Cardinality({}) = 0
    BY FS_EmptySet
  <1> QED
    BY <1>1, <1>2 DEF QueueAccounted, Init

(* A chat run is counted from its admission, with the registration, to its *)
(* end, once, so the depth and the registration stay those of the runs that*)
(* are not over.                                                           *)
LEMMA AccountKept ==
  ASSUME Base, Base', QueueAccounted, [Next]_vars
  PROVE  QueueAccounted'
  <1>0. NumRuns \in Nat /\ NoRun \notin Run
    BY ChatConstants DEF ChatConstants, NoRun, Run
  <1>1. /\ pc \in [Run -> PC] /\ admitted \in 0 .. NumRuns /\ reg \in 0 .. admitted
        /\ depth = Cardinality(Unfinished)
        /\ reg # NoRun => reg \in Unfinished /\ \A r \in Run : Chat(r) => r <= reg
    BY <1>0 DEF Base, QueueTypes, QueueAccounted, Unfinished, Run, NoRun
  <1>2. IsFiniteSet(Unfinished) /\ Cardinality(Unfinished) \in Nat
    <2>1. IsFiniteSet(Run) /\ Unfinished \in SUBSET Run
      BY <1>0, FS_Interval DEF Run, Unfinished
    <2> QED
      BY <2>1, FS_Subset, FS_CardinalityType
  <1>3. SUFFICES ASSUME TRUE
                 PROVE  /\ depth' = Cardinality(Unfinished')
                        /\ reg' # NoRun => reg' \in Unfinished' /\ \A r \in Run : Chat(r)' => r <= reg'
    BY DEF QueueAccounted, Unfinished
  <1>4. ASSUME UNCHANGED <<reg, depth>>, Unfinished' = Unfinished, \A r \in Run : Chat(r)' => Chat(r)
        PROVE  /\ depth' = Cardinality(Unfinished')
               /\ reg' # NoRun => reg' \in Unfinished' /\ \A r \in Run : Chat(r)' => r <= reg'
    BY <1>1, <1>4
  <1>5. ASSUME UNCHANGED <<scenario, admitted>> PROVE \A r \in Run : Chat(r)' <=> Chat(r)
    BY <1>5 DEF Chat, ModeOf
  <1>6. CASE Arrive
    <2> DEFINE n == admitted + 1
    <2>1. n \in Run /\ admitted' = n /\ UNCHANGED scenario
      BY <1>0, <1>1, <1>6 DEF Arrive, Run
    <2>2. n \notin Unfinished /\ \A r \in Run : r <= n <=> r <= admitted \/ r = n
      BY <1>0, <1>1 DEF Unfinished, Chat, Run
    <2>3. \A r \in Run : Chat(r)' <=> Chat(r) \/ (r = n /\ ModeOf(n) # "follow")
      BY <1>0, <1>1, <2>1, <2>2 DEF Chat, ModeOf
    <2>4. ASSUME NEW p \in PC \ {"over"}, Goto(n, p), ModeOf(n) # "follow"
          PROVE  Unfinished' = Unfinished \cup {n}
      <3>1. \A r \in Run : pc'[r] = IF r = n THEN p ELSE pc[r]
        BY <1>1, <2>4 DEF Goto
      <3> HIDE DEF n
      <3> QED
        BY <2>1, <2>3, <2>4, <3>1 DEF Unfinished
    <2>5. CASE ReserveChatRun(n) /\ ModeOf(n) # "follow" /\ \E p \in PC \ {"over"} : Goto(n, p)
      <3>1. Unfinished' = Unfinished \cup {n}
        BY <2>4, <2>5
      <3>2. depth' = Cardinality(Unfinished')
        BY <1>1, <1>2, <2>2, <2>5, <3>1, FS_AddElement DEF ReserveChatRun
      <3>3. \A r \in Run : Chat(r)' => r <= n
        BY <2>1 DEF Chat
      <3> QED
        BY <2>5, <3>1, <3>2, <3>3 DEF ReserveChatRun
    <2>6. CASE UNCHANGED queueVars /\ ModeOf(n) = "follow" /\ Goto(n, "settling")
      <3>1. \A r \in Run : r # n => pc'[r] = pc[r]
        BY <1>1, <2>6 DEF Goto
      <3>2. \A r \in Run : Chat(r)' <=> Chat(r)
        BY <2>3, <2>6
      <3>3. ~Chat(n)
        BY <2>6 DEF Chat
      <3> HIDE DEF n
      <3>4. Unfinished' = Unfinished
        BY <3>1, <3>2, <3>3 DEF Unfinished
      <3> QED
        BY <1>4, <2>6, <3>2, <3>4 DEF queueVars
    <2> QED
      BY <1>6, <2>5, <2>6 DEF Arrive, FrameArrives, PostArrives, FollowUpStarts, PC
  <1>7. ASSUME NEW r \in Run, RunStep(r)
        PROVE  /\ depth' = Cardinality(Unfinished')
               /\ reg' # NoRun => reg' \in Unfinished' /\ \A x \in Run : Chat(x)' => x <= reg'
    <2>1. /\ pc' = [pc EXCEPT ![r] = pc'[r]] /\ Edge(r, pc[r], pc'[r])
          /\ UNCHANGED <<scenario, admitted>>
      BY <1>7, RunMoves
    <2>2. \A x \in Run : (Chat(x)' <=> Chat(x)) /\ (x # r => pc'[x] = pc[x])
      BY <1>1, <1>5, <2>1
    <2>3. CASE EndChatRun(r)
      <3>1. r \in Unfinished /\ pc'[r] = "over"
        <4>1. pc[r] = "ending" /\ pc'[r] = "over"
          BY <1>1, <2>3 DEF EndChatRun, Goto
        <4>2. ModeOf(r) # "follow" /\ ~(r > admitted)
          BY <4>1 DEF Base, Placed
        <4>3. Chat(r)
          BY <1>0, <1>1, <4>2 DEF Chat, Run
        <4> QED
          BY <4>1, <4>3 DEF Unfinished
      <3>2. Unfinished' = Unfinished \ {r}
        BY <2>2, <3>1 DEF Unfinished
      <3>3. Cardinality(Unfinished) # 0
        BY <1>2, <3>1, FS_EmptySet
      <3>4. depth' = depth - 1
        BY <1>1, <1>2, <2>3, <3>3 DEF EndChatRun
      <3>5. depth' = Cardinality(Unfinished')
        BY <1>1, <1>2, <3>1, <3>2, <3>4, FS_RemoveElement
      <3> QED
        BY <1>1, <2>2, <2>3, <3>2, <3>5 DEF EndChatRun
    <2>4. CASE UNCHANGED <<reg, depth>> /\ ~EndChatRun(r)
      <3>1. pc[r] # "over" /\ (pc'[r] = "over" => ~Chat(r))
        <4>1. pc[r] # "ending"
          BY <1>7, <2>4 DEF RunStep, Accept, AwaitChatTurn, FollowUpSettles, Lookup, TryBeginRun, SlotTaken,
             WaitForIdle, QueueBusy, FastAnswer, SnapshotHistory, ModelAnswers, TurnFails, EndRun,
             PersistAccumulated, EmitDone
        <4> QED
          BY <2>1, <4>1 DEF Edge, Chat
      <3>2. Unfinished' = Unfinished
        BY <2>2, <3>1 DEF Unfinished
      <3> QED
        BY <1>4, <2>2, <2>4, <3>2
    <2> QED
      BY <1>7, <2>3, <2>4 DEF RunStep, Accept, AwaitChatTurn, FollowUpSettles, Lookup, TryBeginRun, SlotTaken,
         WaitForIdle, QueueBusy, FastAnswer, SnapshotHistory, ModelAnswers, Concludes, TurnFails, EndRun,
         PersistAccumulated, EmitDone, queueVars
  <1>8. ASSUME UNCHANGED <<scenario, admitted, pc>> PROVE Unfinished' = Unfinished
    BY <1>5, <1>8 DEF Unfinished
  <1>9. CASE ChatCancel
    BY <1>1, <1>8, <1>9 DEF ChatCancel
  <1>10. ASSUME UNCHANGED <<scenario, admitted, pc, queueVars>>
         PROVE  /\ depth' = Cardinality(Unfinished')
                /\ reg' # NoRun => reg' \in Unfinished' /\ \A x \in Run : Chat(x)' => x <= reg'
    BY <1>4, <1>5, <1>8, <1>10 DEF queueVars
  <1>11. ASSUME NEW r \in Run, Compaction(r) PROVE UNCHANGED <<scenario, admitted, pc, queueVars>>
    BY <1>11 DEF Compaction, CompactionStarts, CompactionEnds
  <1>12. CASE Eviction
    BY <1>10, <1>12 DEF Eviction, GrowsIdle, EvictionPicks, EvictionDeletes
  <1>13. CASE UNCHANGED vars
    BY <1>10, <1>13 DEF vars
  <1> QED
    BY <1>6, <1>7, <1>9, <1>10, <1>11, <1>12, <1>13 DEF Next

(* The depth that is quoted to a user counts the unfinished chat runs, and *)
(* a registered run is the newest of them (QueueAccounted).                *)
THEOREM QueueCounted == Spec => []QueueAccounted
  <1>1. QueueAccounted /\ Base /\ Base' /\ [Next]_vars => QueueAccounted'
    BY AccountKept
  <1> QED
    BY <1>1, AccountInit, BaseHolds, PTL DEF Spec

(* Every variable stays within its type (TypeOK): the depth too is at most *)
(* the number of runs that were admitted.                                  *)
THEOREM ChatTyped == Spec => []TypeOK
  <1>1. Base /\ QueueAccounted => TypeOK
    <2> SUFFICES ASSUME Base, QueueAccounted PROVE TypeOK
      OBVIOUS
    <2>0. NumRuns \in Nat /\ admitted \in 0 .. NumRuns
      BY ChatConstants DEF ChatConstants, Base, QueueTypes
    <2>1. depth \in 0 .. admitted
      <3>1. depth = Cardinality(Unfinished) /\ Unfinished \in SUBSET (1 .. admitted)
        BY <2>0 DEF QueueAccounted, Unfinished, Chat, Run
      <3>2. IsFiniteSet(1 .. admitted) /\ Cardinality(1 .. admitted) = admitted
        <4>1. admitted \in Int /\ 1 \in Int /\ 1 <= admitted + 1 /\ admitted - 1 + 1 = admitted
          BY <2>0
        <4> QED
          BY <4>1, IntervalSize
      <3>3. Cardinality(Unfinished) <= Cardinality(1 .. admitted)
        BY <3>1, <3>2, FS_Subset
      <3> QED
        BY <2>0, <3>1, <3>2, <3>3 DEF Base, QueueTypes
    <2>2. \A o \in Obj : \A i \in DOMAIN history[o] : history[o][i] \in Message
      <3>1. \A o \in Obj : history[o] \in Seq(Message)
        BY DEF Base, HistoryTypes
      <3> QED
        BY <3>1
    <2> QED
      BY <2>1, <2>2 DEF TypeOK, Base, QueueTypes, SessionTypes, HistoryTypes, StoreTypes, Message
  <1> QED
    BY <1>1, BaseHolds, QueueCounted, PTL

--------------------------------------------------------------------------------
(* The run slot and the history.                                           *)

(* A run that works on a turn owns the slot of its Session object. *)
SlotInv == \A r \in Run : pc[r] \in InSlot => holder[obj[r]] = r

(* No run works on a turn at first. *)
LEMMA SlotInit == Init => SlotInv
  BY DEF Init, SlotInv, InSlot

(* Only its owner gives a slot up, and nobody takes one that is held. *)
LEMMA SlotKept ==
  ASSUME Base, SlotInv, [Next]_vars
  PROVE  SlotInv'
  <1>0. NumRuns \in Nat /\ NoRun \notin Run
    BY ChatConstants DEF ChatConstants, NoRun, Run
  <1>1. /\ pc \in [Run -> PC] /\ admitted \in 0 .. NumRuns
        /\ obj \in [Run -> Obj \cup {NoObj}] /\ holder \in [Obj -> 0 .. NumRuns]
    BY DEF Base, QueueTypes, SessionTypes
  <1>2. \A r \in Run : pc[r] \in InSlot => holder[obj[r]] = r
    BY DEF SlotInv
  <1>3. \A r \in Run : pc[r] \in InSlot \cup {"claiming"} => obj[r] \in Obj
    BY DEF Base, Placed, InSlot, Located
  <1>4. ASSUME UNCHANGED <<obj, holder>>, \A r \in Run : pc'[r] \in InSlot => pc[r] \in InSlot
        PROVE  SlotInv'
    BY <1>2, <1>4 DEF SlotInv
  <1>5. CASE Arrive
    <2>1. UNCHANGED <<obj, holder>> /\ \E p \in {"accepting", "queued", "settling"} : Goto(admitted + 1, p)
      BY <1>5 DEF Arrive, FrameArrives, PostArrives, FollowUpStarts, sessionVars
    <2>2. \A r \in Run : pc'[r] \in InSlot => pc[r] \in InSlot
      BY <1>1, <2>1 DEF Goto, InSlot
    <2> QED
      BY <1>4, <2>1, <2>2
  <1>6. ASSUME NEW r \in Run, RunStep(r) PROVE SlotInv'
    <2>1. pc' = [pc EXCEPT ![r] = pc'[r]] /\ Edge(r, pc[r], pc'[r])
      BY <1>6, RunMoves
    <2>2. \A x \in Run : x # r => pc'[x] = pc[x]
      BY <1>1, <2>1
    <2>3. CASE TryBeginRun(r)
      <3>1. pc[r] = "claiming" /\ obj' = obj /\ holder' = [holder EXCEPT ![obj[r]] = r] /\ holder[obj[r]] = NoRun
        BY <2>3 DEF TryBeginRun
      <3>2. ASSUME NEW x \in Run, x # r, pc[x] \in InSlot PROVE obj[x] # obj[r]
        BY <1>0, <1>2, <3>1, <3>2
      <3> QED
        BY <1>1, <1>2, <1>3, <2>2, <3>1, <3>2 DEF SlotInv
    <2>4. CASE EndRun(r)
      <3>1. pc[r] \in InSlot /\ obj' = obj /\ holder' = [holder EXCEPT ![obj[r]] = NoRun] /\ pc'[r] \notin InSlot
        BY <1>1, <2>4 DEF EndRun, Goto, InSlot
      <3>2. ASSUME NEW x \in Run, x # r, pc[x] \in InSlot PROVE obj[x] # obj[r]
        BY <1>2, <3>1, <3>2
      <3> QED
        BY <1>1, <1>2, <1>3, <2>2, <3>1, <3>2 DEF SlotInv
    <2>5. CASE Lookup(r)
      <3>1. pc'[r] \notin InSlot /\ holder' = holder /\ \A x \in Run : x # r => obj'[x] = obj[x]
        BY <1>1, <2>5 DEF Lookup, Goto, InSlot
      <3> QED
        BY <1>2, <2>2, <3>1 DEF SlotInv
    <2>6. CASE UNCHANGED <<obj, holder>> /\ pc[r] # "claiming"
      <3>1. \A x \in Run : pc'[x] \in InSlot => pc[x] \in InSlot
        BY <2>1, <2>2, <2>6 DEF Edge, InSlot
      <3> QED
        BY <1>4, <2>6, <3>1
    <2>7. CASE SlotTaken(r)
      <3>1. UNCHANGED <<obj, holder>> /\ pc'[r] = "waiting"
        BY <1>1, <2>7 DEF SlotTaken, Goto
      <3> QED
        BY <1>4, <2>2, <3>1 DEF InSlot
    <2>8. CASE Accept(r) \/ AwaitChatTurn(r) \/ FollowUpSettles(r) \/ WaitForIdle(r) \/ QueueBusy(r)
      BY <2>6, <2>8 DEF Accept, AwaitChatTurn, FollowUpSettles, WaitForIdle, QueueBusy, sessionVars
    <2>9. CASE FastAnswer(r) \/ SnapshotHistory(r) \/ ModelAnswers(r) \/ TurnFails(r)
      BY <2>6, <2>9 DEF FastAnswer, SnapshotHistory, ModelAnswers, Concludes, TurnFails, sessionVars
    <2>10. CASE PersistAccumulated(r) \/ EmitDone(r) \/ EndChatRun(r)
      BY <2>6, <2>10 DEF PersistAccumulated, EmitDone, EndChatRun, sessionVars
    <2> QED
      BY <1>6, <2>3, <2>4, <2>5, <2>7, <2>8, <2>9, <2>10 DEF RunStep
  <1>7. ASSUME NEW r \in Run, Compaction(r) PROVE SlotInv'
    BY <1>4, <1>7 DEF Compaction, CompactionStarts, CompactionEnds, sessionVars
  <1>8. CASE ChatCancel \/ Eviction
    BY <1>4, <1>8 DEF ChatCancel, Eviction, GrowsIdle, EvictionPicks, EvictionDeletes, sessionVars
  <1>9. CASE UNCHANGED vars
    BY <1>4, <1>9 DEF vars, sessionVars
  <1> QED
    BY <1>5, <1>6, <1>7, <1>8, <1>9 DEF Next

(* Of two runs that work on the same Session object one does not exist. *)
LEMMA OneInSlot ==
  ASSUME SlotInv, NEW r \in Run, NEW x \in Run, pc[r] \in InSlot, pc[x] \in InSlot, obj[r] = obj[x]
  PROVE  r = x
  BY DEF SlotInv

(* Nothing but the end of a turn and the end of a compaction touches a     *)
(* history.                                                                *)
LEMMA AnswersKept ==
  ASSUME Base, SlotInv, AnswersItsHistory, [Next]_vars
  PROVE  AnswersItsHistory'
  <1>1. /\ pc \in [Run -> PC] /\ admitted \in 0 .. NumRuns
        /\ obj \in [Run -> Obj \cup {NoObj}] /\ history \in [Obj -> Seq(Message)]
        /\ seen \in [Run -> Seq(Message)]
    BY DEF Base, QueueTypes, SessionTypes, HistoryTypes
  <1>2. \A r \in Run : pc[r] = "model" /\ r \notin raced => history[obj[r]] = seen[r]
    BY DEF AnswersItsHistory
  <1>3. \A r \in Run : pc[r] \in InSlot => obj[r] \in Obj
    BY DEF Base, Placed, InSlot, Located
  <1>4. ASSUME UNCHANGED <<history, seen, raced>>,
               \A x \in Run : pc'[x] = "model" => pc[x] = "model" /\ obj'[x] = obj[x]
        PROVE  AnswersItsHistory'
    BY <1>2, <1>4 DEF AnswersItsHistory
  <1>5. CASE Arrive
    <2>1. UNCHANGED <<history, seen, raced, obj>>
          /\ \E p \in {"accepting", "queued", "settling"} : Goto(admitted + 1, p)
      BY <1>5 DEF Arrive, FrameArrives, PostArrives, FollowUpStarts, sessionVars, historyVars
    <2>2. \A x \in Run : pc'[x] = "model" => pc[x] = "model" /\ obj'[x] = obj[x]
      BY <1>1, <2>1 DEF Goto
    <2> QED
      BY <1>4, <2>1, <2>2
  <1>6. ASSUME NEW r \in Run, RunStep(r) PROVE AnswersItsHistory'
    <2>1. pc' = [pc EXCEPT ![r] = pc'[r]] /\ Edge(r, pc[r], pc'[r])
      BY <1>6, RunMoves
    <2>2. \A x \in Run : x # r => pc'[x] = pc[x]
      BY <1>1, <2>1
    <2>3. CASE Concludes(r) /\ pc[r] \in InSlot
      <3>1. /\ obj' = obj /\ pc'[r] # "model" /\ raced \subseteq raced'
            /\ \A x \in Run : x # r => seen'[x] = seen[x]
            /\ \A o \in Obj : o # obj[r] => history'[o] = history[o]
        BY <1>1, <1>3, <2>3 DEF Concludes, Goto, sessionVars
      <3>2. ASSUME NEW x \in Run, pc'[x] = "model", x \notin raced' PROVE history'[obj'[x]] = seen'[x]
        <4>1. x # r /\ pc[x] = "model" /\ x \notin raced
          BY <2>2, <3>1, <3>2
        <4>2. pc[x] \in InSlot /\ obj[x] \in Obj /\ obj[x] # obj[r]
          BY <1>3, <2>3, <4>1, OneInSlot DEF InSlot
        <4> QED
          BY <1>2, <3>1, <4>1, <4>2
      <3> QED
        BY <3>2 DEF AnswersItsHistory
    <2>4. CASE SnapshotHistory(r)
      <3>1. /\ UNCHANGED <<history, raced, obj>> /\ seen'[r] = history[obj[r]]
            /\ \A x \in Run : x # r => seen'[x] = seen[x]
        BY <1>1, <2>4 DEF SnapshotHistory, sessionVars
      <3> QED
        BY <1>2, <2>2, <3>1 DEF AnswersItsHistory
    <2>5. CASE TurnFails(r)
      <3>1. /\ UNCHANGED <<history, raced, obj>> /\ pc'[r] = "releasing"
            /\ \A x \in Run : x # r => seen'[x] = seen[x]
        BY <1>1, <2>5 DEF TurnFails, sessionVars, Goto
      <3> QED
        BY <1>2, <2>2, <3>1 DEF AnswersItsHistory
    <2>6. CASE UNCHANGED historyVars /\ pc'[r] # "model" /\ \A x \in Run : x # r => obj'[x] = obj[x]
      BY <1>4, <2>2, <2>6 DEF historyVars
    <2>7. CASE Lookup(r)
      BY <1>1, <2>6, <2>7 DEF Lookup, Goto
    <2>8. CASE UNCHANGED <<historyVars, obj>> /\ pc[r] # "turn"
      BY <2>1, <2>6, <2>8 DEF Edge
    <2>9. CASE Accept(r) \/ AwaitChatTurn(r) \/ FollowUpSettles(r) \/ WaitForIdle(r) \/ QueueBusy(r)
      BY <2>8, <2>9 DEF Accept, AwaitChatTurn, FollowUpSettles, WaitForIdle, QueueBusy, sessionVars
    <2>10. CASE TryBeginRun(r) \/ SlotTaken(r) \/ EndRun(r)
      BY <2>8, <2>10 DEF TryBeginRun, SlotTaken, EndRun
    <2>11. CASE PersistAccumulated(r) \/ EmitDone(r) \/ EndChatRun(r)
      BY <2>8, <2>11 DEF PersistAccumulated, EmitDone, EndChatRun, sessionVars
    <2>12. CASE FastAnswer(r) \/ ModelAnswers(r)
      BY <2>3, <2>12 DEF FastAnswer, ModelAnswers, InSlot
    <2> QED
      BY <1>6, <2>4, <2>5, <2>7, <2>9, <2>10, <2>11, <2>12 DEF RunStep
  <1>7. ASSUME NEW r \in Run, CompactionStarts(r) PROVE AnswersItsHistory'
    BY <1>4, <1>7 DEF CompactionStarts, sessionVars
  <1>8. ASSUME NEW r \in Run, CompactionEnds(r) PROVE AnswersItsHistory'
    <2>1. UNCHANGED <<pc, obj, seen>>
      BY <1>8 DEF CompactionEnds, sessionVars
    <2>2. CASE UNCHANGED <<history, raced>>
      BY <1>4, <2>1, <2>2
    <2>3. CASE /\ \A o \in Obj : o # obj[r] => history'[o] = history[o]
               /\ raced' = raced \cup {x \in Run : pc[x] = "model" /\ obj[x] = obj[r]}
      BY <1>2, <1>3, <2>1, <2>3 DEF AnswersItsHistory, InSlot
    <2> QED
      BY <1>1, <1>8, <2>2, <2>3 DEF CompactionEnds
  <1>9. CASE ChatCancel \/ Eviction
    BY <1>4, <1>9 DEF ChatCancel, Eviction, GrowsIdle, EvictionPicks, EvictionDeletes, sessionVars, historyVars
  <1>10. CASE UNCHANGED vars
    BY <1>4, <1>10 DEF vars, sessionVars, historyVars
  <1> QED
    BY <1>5, <1>6, <1>7, <1>8, <1>9, <1>10 DEF Next, Compaction

(* What the model answers to is still the whole history when its answer is *)
(* appended, unless a compaction got in between (AnswersItsHistory): the   *)
(* slot keeps every other turn off the Session object meanwhile.           *)
THEOREM AnswerMatchesHistory == Spec => []AnswersItsHistory
  <1>1. Init => SlotInv /\ AnswersItsHistory
    BY SlotInit DEF Init, AnswersItsHistory
  <1>2. SlotInv /\ AnswersItsHistory /\ Base /\ [Next]_vars => (SlotInv /\ AnswersItsHistory)'
    BY SlotKept, AnswersKept
  <1> QED
    BY <1>1, <1>2, BaseHolds, PTL DEF Spec

(* Who holds compactMu of a Session object is at work on a snapshot of it  *)
(* that tells of every turn concluded there, but for the raced ones.       *)
KeptInv ==
  /\ TurnsKept
  /\ \A o \in Obj : compactMu[o] # NoRun => compaction[compactMu[o]] = "summarising" /\ obj[compactMu[o]] = o
  /\ \A r \in Run : compaction[r] = "summarising" => compactMu[obj[r]] = r
  /\ \A r, x \in Run :
        (compaction[r] = "summarising" /\ compaction[x] # "no" /\ obj[x] = obj[r])
            => x \in Covered(compSnap[r]) \cup raced

(* No turn has concluded at first. *)
LEMMA KeptInit == Init => KeptInv
  BY DEF Init, KeptInv, TurnsKept

(* What a compaction puts in the place of a history tells of what its      *)
(* snapshot told of.                                                       *)
LEMMA SummaryCovers ==
  ASSUME NEW h \in Seq(Message), NEW s \in Message, s.of = Covered(h)
  PROVE  Covered(h) \subseteq Covered(<<s>> \o LastExchanges(h))
  <1>1. <<s>> \in Seq(Message) /\ LastExchanges(h) \in Seq(Message)
    BY TailRead
  <1>2. Covered(<<s>>) \subseteq Covered(<<s>> \o LastExchanges(h))
    BY <1>1, CoveredGrows
  <1>3. s.of \subseteq Covered(<<s>>)
    <2>1. 1 \in DOMAIN <<s>> /\ <<s>>[1].of = s.of
      OBVIOUS
    <2> QED
      BY <2>1 DEF Covered
  <1> QED
    BY <1>2, <1>3

(* A turn that concludes is in the history; a compaction replaces the      *)
(* history by a summary of its snapshot, and a turn that concluded after   *)
(* the snapshot was taken is one that raced records.                       *)
LEMMA KeptInvKept ==
  ASSUME Base, KeptInv, [Next]_vars
  PROVE  KeptInv'
  <1>1. NumRuns \in Nat /\ NoRun \notin Run
    BY ChatConstants DEF ChatConstants, NoRun, Run
  <1>2. /\ obj \in [Run -> Obj \cup {NoObj}] /\ history \in [Obj -> Seq(Message)]
        /\ compaction \in [Run -> {"no", "scheduled", "summarising", "over"}]
        /\ compactMu \in [Obj -> 0 .. NumRuns] /\ compSnap \in [Run -> Seq(Message)]
    BY DEF Base, SessionTypes, HistoryTypes
  <1>3. \A r \in Run : pc[r] \in InSlot \/ compaction[r] # "no" => obj[r] \in Obj
    BY DEF Base, Placed, InSlot, Located
  <1>4. \A o \in Obj : compactMu[o] # NoRun => compactMu[o] \in Run
    BY <1>1, <1>2 DEF Run, NoRun
  <1>5. ASSUME UNCHANGED <<history, compaction, compactMu, compSnap, raced>>,
               \A x \in Run : compaction[x] # "no" => obj'[x] = obj[x]
        PROVE  KeptInv'
    BY <1>5, <1>4 DEF KeptInv, TurnsKept
  <1>6. ASSUME NEW r \in Run, pc[r] \in {"turn", "model"}, Concludes(r) PROVE KeptInv'
    <2> DEFINE o == obj[r]
    <2>1. /\ UNCHANGED <<obj, compactMu, compSnap>> /\ raced \subseteq raced'
          /\ compactMu[o] # NoRun => r \in raced'
          /\ compaction'[r] = "scheduled" /\ \A x \in Run : x # r => compaction'[x] = compaction[x]
          /\ history' = [history EXCEPT ![o] = history[o] \o NewMessages(r)]
      BY <1>2, <1>6 DEF Concludes, sessionVars
    <2>2. o \in Obj /\ history[o] \in Seq(Message) /\ compaction[r] = "no"
      BY <1>2, <1>3, <1>6 DEF Base, Placed, InSlot, After, HistoryTypes
    <2>3. /\ Covered(history[o]) \subseteq Covered(history'[o]) /\ r \in Covered(history'[o])
          /\ \A p \in Obj : p # o => history'[p] = history[p]
      <3>1. /\ NewMessages(r) \in Seq(Message) /\ Len(NewMessages(r)) >= 1
            /\ NewMessages(r)[1].of = {r}
        <4>1. seen[r] \in Seq(Message)
          BY DEF Base, HistoryTypes
        <4> QED
          BY <4>1, NewMessagesRead
      <3>2. /\ Covered(history[o]) \subseteq Covered(history[o] \o NewMessages(r))
            /\ {r} \subseteq Covered(history[o] \o NewMessages(r))
        BY <2>2, <3>1, CoveredGrows
      <3> HIDE DEF o
      <3> QED
        BY <1>2, <2>1, <2>2, <3>2
    <2>4. \A p \in Obj : Covered(history[p]) \subseteq Covered(history'[p])
      BY <2>3
    <2>5. TurnsKept'
      <3>1. ASSUME NEW x \in Run, compaction'[x] # "no"
            PROVE  x \in Covered(history'[obj[x]]) \cup raced'
        BY <1>3, <2>1, <2>3, <2>4, <3>1 DEF KeptInv, TurnsKept
      <3> QED
        BY <2>1, <3>1 DEF TurnsKept
    <2>6. ASSUME NEW y \in Run, NEW x \in Run, compaction'[y] = "summarising", compaction'[x] # "no",
                 obj[x] = obj[y]
          PROVE  x \in Covered(compSnap[y]) \cup raced'
      <3>1. compaction[y] = "summarising" /\ compactMu[obj[y]] = y
        BY <2>1, <2>6 DEF KeptInv
      <3>2. CASE x = r
        BY <1>1, <2>1, <2>6, <3>1, <3>2
      <3>3. CASE x # r
        BY <2>1, <2>6, <3>1, <3>3 DEF KeptInv
      <3> QED
        BY <3>2, <3>3
    <2>7. /\ \A p \in Obj : compactMu[p] # NoRun =>
                compaction'[compactMu[p]] = "summarising" /\ obj[compactMu[p]] = p
          /\ \A x \in Run : compaction'[x] = "summarising" => compactMu[obj[x]] = x
      <3>1. \A p \in Obj : compactMu[p] # NoRun => compactMu[p] # r
        BY <2>2 DEF KeptInv
      <3>2. \A p \in Obj : compactMu[p] # NoRun => compactMu[p] \in Run
        BY <1>1, <1>2 DEF Run, NoRun
      <3> HIDE DEF o
      <3> QED
        BY <2>1, <3>1, <3>2 DEF KeptInv
    <2> QED
      BY <2>1, <2>5, <2>6, <2>7 DEF KeptInv
  <1>7. ASSUME NEW r \in Run, RunStep(r) PROVE KeptInv'
    <2>1. CASE FastAnswer(r) \/ ModelAnswers(r)
      BY <1>6, <2>1 DEF FastAnswer, ModelAnswers
    <2>2. CASE Lookup(r)
      <3>1. compaction[r] = "no" /\ \A x \in Run : x # r => obj'[x] = obj[x]
        BY <1>2, <2>2 DEF Lookup, Base, Placed, After
      <3> QED
        BY <1>5, <2>2, <3>1 DEF Lookup, historyVars
    <2>3. CASE UNCHANGED <<history, compaction, compactMu, compSnap, raced, obj>>
      BY <1>5, <2>3
    <2>4. CASE Accept(r) \/ AwaitChatTurn(r) \/ FollowUpSettles(r) \/ WaitForIdle(r) \/ QueueBusy(r)
      BY <2>3, <2>4 DEF Accept, AwaitChatTurn, FollowUpSettles, WaitForIdle, QueueBusy, sessionVars, historyVars
    <2>5. CASE TryBeginRun(r) \/ SlotTaken(r) \/ EndRun(r)
      BY <2>3, <2>5 DEF TryBeginRun, SlotTaken, EndRun, historyVars
    <2>6. CASE SnapshotHistory(r) \/ TurnFails(r)
      BY <2>3, <2>6 DEF SnapshotHistory, TurnFails, sessionVars
    <2>7. CASE PersistAccumulated(r) \/ EmitDone(r) \/ EndChatRun(r)
      BY <2>3, <2>7 DEF PersistAccumulated, EmitDone, EndChatRun, sessionVars, historyVars
    <2> QED
      BY <1>7, <2>1, <2>2, <2>4, <2>5, <2>6, <2>7 DEF RunStep
  <1>8. ASSUME NEW r \in Run, CompactionStarts(r) PROVE KeptInv'
    <2>1. /\ UNCHANGED <<obj, history, raced>> /\ compaction[r] = "scheduled" /\ compactMu[obj[r]] = NoRun
          /\ compaction'[r] = "summarising" /\ \A x \in Run : x # r => compaction'[x] = compaction[x]
          /\ compSnap'[r] = history[obj[r]] /\ \A x \in Run : x # r => compSnap'[x] = compSnap[x]
      BY <1>2, <1>8 DEF CompactionStarts, sessionVars
    <2>2. /\ obj[r] \in Obj /\ compactMu'[obj[r]] = r
          /\ \A o \in Obj : o # obj[r] => compactMu'[o] = compactMu[o]
      BY <1>2, <1>3, <1>8, <2>1 DEF CompactionStarts
    <2>3. \A o \in Obj : compactMu[o] # NoRun => compactMu[o] \in Run /\ compactMu[o] # r
      BY <1>1, <1>2, <2>1 DEF KeptInv, Run, NoRun
    <2>4. \A o \in Obj : compactMu'[o] # NoRun =>
             compaction'[compactMu'[o]] = "summarising" /\ obj[compactMu'[o]] = o
      BY <2>1, <2>2, <2>3 DEF KeptInv
    <2>5. ASSUME NEW y \in Run, compaction'[y] = "summarising" PROVE compactMu'[obj[y]] = y
      <3>1. CASE y = r
        BY <2>2, <3>1
      <3>2. CASE y # r
        <4>1. compactMu[obj[y]] = y /\ obj[y] \in Obj
          BY <1>3, <2>1, <2>5, <3>2 DEF KeptInv
        <4>2. obj[y] # obj[r]
          BY <1>1, <2>1, <4>1
        <4> QED
          BY <2>2, <4>1, <4>2
      <3> QED
        BY <3>1, <3>2
    <2>6. \A x \in Run : compaction'[x] # "no" => compaction[x] # "no"
      BY <2>1
    <2>7. ASSUME NEW y \in Run, NEW x \in Run, compaction'[y] = "summarising", compaction'[x] # "no",
                 obj[x] = obj[y]
          PROVE  x \in Covered(compSnap'[y]) \cup raced
      <3>1. CASE y = r
        BY <2>1, <2>6, <2>7, <3>1 DEF KeptInv, TurnsKept
      <3>2. CASE y # r
        BY <2>1, <2>6, <2>7, <3>2 DEF KeptInv
      <3> QED
        BY <3>1, <3>2
    <2>8. TurnsKept'
      BY <2>1, <2>6 DEF KeptInv, TurnsKept
    <2> QED
      BY <2>1, <2>4, <2>5, <2>7, <2>8 DEF KeptInv
  <1>9. ASSUME NEW r \in Run, CompactionEnds(r) PROVE KeptInv'
    <2> DEFINE s == [kind |-> "summary", of |-> Covered(compSnap[r])]
               h == <<s>> \o LastExchanges(compSnap[r])
    <2>1. /\ UNCHANGED obj /\ compaction[r] = "summarising" /\ raced \subseteq raced'
          /\ compaction'[r] = "over" /\ \A x \in Run : x # r => compaction'[x] = compaction[x]
          /\ \A x \in Run : x # r => compSnap'[x] = compSnap[x]
      BY <1>2, <1>9 DEF CompactionEnds, sessionVars
    <2>2. /\ obj[r] \in Obj /\ compactMu[obj[r]] = r /\ compactMu'[obj[r]] = NoRun
          /\ \A o \in Obj : o # obj[r] => compactMu'[o] = compactMu[o]
      BY <1>2, <1>3, <1>9, <2>1 DEF CompactionEnds, KeptInv
    <2>3. ASSUME NEW x \in Run, compaction'[x] # "no"
          PROVE  x \in Covered(history'[obj[x]]) \cup raced'
      <3>1. compaction[x] # "no" /\ obj[x] \in Obj
        BY <1>3, <2>1, <2>3
      <3>2. CASE history' = history
        BY <2>1, <3>1, <3>2 DEF KeptInv, TurnsKept
      <3>3. CASE history' = [history EXCEPT ![obj[r]] = h]
        <4>1. CASE obj[x] = obj[r]
          <5>1. x \in Covered(compSnap[r]) \cup raced
            BY <2>1, <3>1, <4>1 DEF KeptInv
          <5>2. Covered(compSnap[r]) \subseteq Covered(h)
            <6>1. compSnap[r] \in Seq(Message)
              BY <1>2
            <6>2. Covered(compSnap[r]) \in SUBSET Run
              <7>1. \A i \in DOMAIN compSnap[r] : compSnap[r][i] \in Message
                BY <6>1
              <7>2. \A i \in DOMAIN compSnap[r] : compSnap[r][i].of \subseteq Run
                BY <7>1 DEF Message
              <7> QED
                BY <7>2 DEF Covered
            <6>3. s \in Message /\ s.of = Covered(compSnap[r])
              BY <6>2 DEF Message, MsgKind
            <6> HIDE DEF s
            <6> QED
              BY <6>1, <6>3, SummaryCovers
          <5>3. history'[obj[x]] = h
            <6> HIDE DEF h
            <6> QED
              BY <1>2, <2>2, <3>3, <4>1
          <5> HIDE DEF h
          <5> QED
            BY <2>1, <5>1, <5>2, <5>3
        <4>2. CASE obj[x] # obj[r]
          <5>1. history'[obj[x]] = history[obj[x]]
            <6> HIDE DEF h
            <6> QED
              BY <1>2, <2>2, <3>1, <3>3, <4>2
          <5> QED
            BY <2>1, <3>1, <5>1 DEF KeptInv, TurnsKept
        <4> QED
          BY <4>1, <4>2
      <3> QED
        BY <1>9, <3>2, <3>3 DEF CompactionEnds
    <2>4. TurnsKept'
      BY <2>1, <2>3 DEF TurnsKept
    <2>5. ASSUME NEW o \in Obj, compactMu'[o] # NoRun
          PROVE  compaction'[compactMu'[o]] = "summarising" /\ obj[compactMu'[o]] = o
      <3>1. o # obj[r] /\ compactMu'[o] = compactMu[o]
        BY <2>2, <2>5
      <3>2. compactMu[o] \in Run /\ compaction[compactMu[o]] = "summarising" /\ obj[compactMu[o]] = o
        BY <1>4, <2>5, <3>1 DEF KeptInv
      <3> QED
        BY <2>1, <3>1, <3>2
    <2>6. ASSUME NEW y \in Run, compaction'[y] = "summarising"
          PROVE  /\ compactMu'[obj[y]] = y
                 /\ \A x \in Run : (compaction'[x] # "no" /\ obj[x] = obj[y])
                                      => x \in Covered(compSnap'[y]) \cup raced'
      <3>1. y # r /\ compaction[y] = "summarising" /\ obj[y] \in Obj /\ compactMu[obj[y]] = y
        BY <1>3, <2>1, <2>6 DEF KeptInv
      <3>2. obj[y] # obj[r]
        BY <2>2, <3>1
      <3>3. \A x \in Run : compaction'[x] # "no" => compaction[x] # "no"
        BY <2>1
      <3> QED
        BY <2>1, <2>2, <3>1, <3>2, <3>3 DEF KeptInv
    <2> QED
      BY <2>1, <2>4, <2>5, <2>6 DEF KeptInv
  <1>10. CASE Arrive \/ ChatCancel \/ Eviction
    BY <1>5, <1>10 DEF Arrive, ChatCancel, Eviction, GrowsIdle, EvictionPicks, EvictionDeletes, sessionVars,
       historyVars
  <1>11. CASE UNCHANGED vars
    BY <1>5, <1>11 DEF vars, sessionVars, historyVars
  <1> QED
    BY <1>7, <1>8, <1>9, <1>10, <1>11 DEF Next, Compaction

(* No concluded turn leaves the history of its Session object, in full or  *)
(* in a summary, except one that raced with a compaction (TurnsKept).      *)
THEOREM ConcludedTurnsKept == Spec => []TurnsKept
  <1>1. KeptInv => TurnsKept
    BY DEF KeptInv
  <1>2. Base /\ KeptInv /\ [Next]_vars => KeptInv'
    BY KeptInvKept
  <1> QED
    BY <1>1, <1>2, KeptInit, BaseHolds, PTL DEF Spec

--------------------------------------------------------------------------------
(* The order of the turns.                                                 *)

(* A run that a chat_cancel or the ceiling took out of the chain, and a    *)
(* run that nothing before s has to wait for any more.                     *)
Undone(c)   == ctx[c] = "cancelled" \/ c \in late
Clear(r, s) == pc[r] = "over" \/ \E c \in r .. s : Undone(c)

(* A run in the queue that waits for w waits for the newest chat run before*)
(* it; past the queue, or when it waits for nobody, all of those are clear.*)
Behind(s, w) ==
  /\ (Begun(s) \/ w = NoRun) => \A r \in Run : (r < s /\ Chat(r)) => Clear(r, s)
  /\ (~Begun(s) /\ w # NoRun) => w < s /\ Chat(w) /\ \A r \in Run : (r < s /\ Chat(r)) => r <= w

(* The chain of done channels.  While nobody is registered, the next run   *)
(* has nobody to wait for.                                                 *)
FifoInv ==
  /\ reg = NoRun => \A r \in Run : Chat(r) => Clear(r, admitted)
  /\ \A s \in Run : Chat(s) => Behind(s, waitOn[s])

(* Nobody waits at first. *)
LEMMA FifoInit == Init => FifoInv
  <1> SUFFICES ASSUME Init PROVE FifoInv
    OBVIOUS
  <1>1. \A r \in Run : ~Chat(r)
    BY ChatConstants DEF ChatConstants, Init, Chat, Run
  <1> QED
    BY <1>1 DEF FifoInv

(* What is clear before s is clear before any later run. *)
LEMMA ClearLater ==
  ASSUME NEW r \in Run, NEW s \in Int, NEW t \in Int, s <= t, Clear(r, s)
  PROVE  Clear(r, t)
  <1>1. r \in Int
    BY ChatConstants DEF ChatConstants, Run
  <1>2. \A c \in r .. s : c \in r .. t
    BY <1>1
  <1> QED
    BY <1>2 DEF Clear

(* A new run waits for the registered one; only a cancelled wait or one    *)
(* past the ceiling lets it pass a run that is not over.                   *)
LEMMA FifoKept ==
  ASSUME Base, Base', QueueAccounted, FifoInv, [Next]_vars
  PROVE  FifoInv'
  <1>0. NumRuns \in Nat /\ NoRun \notin Run /\ \A r \in Run : r \in Int /\ r > 0
    BY ChatConstants DEF ChatConstants, NoRun, Run
  <1>1. /\ pc \in [Run -> PC] /\ admitted \in 0 .. NumRuns /\ admitted \in Int /\ admitted' \in Int
        /\ reg \in 0 .. admitted /\ waitOn \in [Run -> 0 .. NumRuns]
        /\ ctx \in [Run -> {"live", "cancelled", "ended"}]
    BY <1>0 DEF Base, QueueTypes
  <1>2. \A s \in Run : waitOn[s] # NoRun => waitOn[s] \in Run
    BY <1>0, <1>1 DEF Run, NoRun
  <1>3. reg # NoRun => reg \in Run /\ Chat(reg) /\ reg <= admitted /\ \A r \in Run : Chat(r) => r <= reg
    BY <1>0, <1>1 DEF QueueAccounted, Run, NoRun
  \* A step that undoes nothing keeps clear what is clear.
  <1>4. ASSUME \A r \in Run : pc[r] = "over" => pc'[r] = "over",
               \A c \in Int : Undone(c) => Undone(c)'
        PROVE  \A r \in Run, s \in Int : Clear(r, s) => Clear(r, s)'
    <2>1. \A r \in Run, s \in Int : \A c \in r .. s : c \in Int
      BY <1>0
    <2> QED
      BY <1>4, <2>1 DEF Clear
  <1>5. ASSUME UNCHANGED <<scenario, admitted>>, reg' = reg \/ reg' # NoRun,
               \A s \in Run : Chat(s) => waitOn'[s] = waitOn[s] /\ (Begun(s)' <=> Begun(s)),
               \A r \in Run, s \in Int : Clear(r, s) => Clear(r, s)'
        PROVE  FifoInv'
    <2>1. \A s \in Run : Chat(s)' <=> Chat(s)
      BY <1>5 DEF Chat, ModeOf
    <2>2. reg' = NoRun => \A r \in Run : Chat(r)' => Clear(r, admitted)'
      BY <1>1, <1>5, <2>1 DEF FifoInv
    <2>3. ASSUME NEW s \in Run, Chat(s)'
          PROVE  Behind(s, waitOn[s])'
      <3>1. PICK w : w = waitOn[s]
        OBVIOUS
      <3>2. Chat(s) /\ waitOn'[s] = w /\ (Begun(s)' <=> Begun(s)) /\ s \in Int
        BY <1>0, <1>5, <2>1, <2>3, <3>1
      <3>3. w # NoRun /\ Chat(w) => Chat(w)'
        BY <1>2, <2>1, <3>1
      <3>4. Behind(s, w)
        BY <3>1, <3>2 DEF FifoInv
      <3> QED
        BY <1>5, <2>1, <3>2, <3>3, <3>4 DEF Behind
    <2> QED
      BY <2>2, <2>3 DEF FifoInv
  <1>6. ASSUME UNCHANGED <<scenario, admitted, pc, queueVars>> PROVE FifoInv'
    <2>1. \A c \in Int : Undone(c) => Undone(c)'
      BY <1>6 DEF Undone, queueVars
    <2> QED
      BY <1>4, <1>5, <1>6, <2>1 DEF queueVars, Begun
  <1>7. CASE Arrive
    <2>1. PICK n \in Int : n = admitted + 1
      BY <1>1
    <2>2. /\ n \in Run /\ admitted' = n /\ UNCHANGED scenario /\ ~Chat(n) /\ admitted <= n
          /\ \A r \in Run : Chat(r) => r < n
      BY <1>0, <1>1, <1>7, <2>1 DEF Arrive, Run, Chat
    <2>3. /\ \A r \in Run : r # n => (Chat(r)' <=> Chat(r))
          /\ \A r \in Run : Chat(r) => Chat(r)'
      <3>1. \A r \in Run : (r # n => (r <= n <=> r <= admitted)) /\ (r <= admitted => r <= n)
        BY <1>0, <1>1, <2>1
      <3>2. admitted' = n /\ scenario' = scenario
        BY <2>2
      <3> QED
        BY <3>1, <3>2 DEF Chat, ModeOf
    <2>4. PICK p \in {"accepting", "queued", "settling"} : Goto(n, p)
      BY <1>7, <2>1 DEF Arrive, FrameArrives, PostArrives, FollowUpStarts
    <2>5. /\ pc[n] = "new" /\ pc'[n] = p /\ ~Begun(n)'
          /\ \A r \in Run : r # n => pc'[r] = pc[r] /\ (Begun(r)' <=> Begun(r))
      <3>1. n > admitted
        BY <1>1, <2>1
      <3>2. pc[n] = "new"
        BY <2>2, <3>1 DEF Base, Placed
      <3>3. pc'[n] = p /\ \A r \in Run : r # n => pc'[r] = pc[r]
        BY <1>1, <2>2, <2>4 DEF Goto
      <3> QED
        BY <3>2, <3>3 DEF Begun
    <2>6. UNCHANGED <<ctx, late>>
      BY <1>7 DEF Arrive, FrameArrives, PostArrives, FollowUpStarts, ReserveChatRun, queueVars
    <2>7. \A r \in Run, s \in Int : Clear(r, s) => Clear(r, s)'
      BY <1>4, <2>5, <2>6 DEF Undone
    <2>8. \/ reg' = n /\ waitOn' = [waitOn EXCEPT ![n] = reg]
          \/ UNCHANGED <<reg, waitOn>> /\ ~Chat(n)'
      BY <1>7, <2>1, <2>2 DEF Arrive, FrameArrives, PostArrives, FollowUpStarts, ReserveChatRun, queueVars,
         Chat, ModeOf
    <2>9. reg' = NoRun => \A r \in Run : Chat(r)' => Clear(r, admitted)'
      <3>1. CASE reg' = n
        BY <1>0, <2>2, <3>1
      <3>2. CASE reg' = reg /\ ~Chat(n)'
        <4>1. ASSUME reg = NoRun, NEW r \in Run, Chat(r)' PROVE Clear(r, n)'
          <5>1. Chat(r)
            BY <2>3, <3>2, <4>1
          <5>2. Clear(r, admitted)
            BY <4>1, <5>1 DEF FifoInv
          <5>3. Clear(r, n)
            BY <1>1, <2>2, <5>2, ClearLater
          <5> QED
            BY <2>7, <5>3
        <4> QED
          BY <2>2, <3>2, <4>1
      <3> QED
        BY <2>8, <3>1, <3>2
    <2>10. ASSUME NEW s \in Run, Chat(s)' PROVE Behind(s, waitOn[s])'
      <3>1. CASE s # n
        <4>1. PICK w : w = waitOn[s]
          OBVIOUS
        <4>2. waitOn'[s] = w /\ Chat(s)
          BY <1>1, <2>3, <2>8, <2>10, <3>1, <4>1
        <4>3. Behind(s, w) /\ (Begun(s)' <=> Begun(s)) /\ s < n /\ s \in Int
          BY <1>0, <2>2, <2>5, <3>1, <4>1, <4>2 DEF FifoInv
        <4>4. w # NoRun /\ Chat(w) => Chat(w)'
          BY <1>2, <2>3, <4>1
        <4>5. \A r \in Run : r < s => (Chat(r)' <=> Chat(r))
          BY <1>0, <2>1, <2>3, <4>3
        <4> QED
          BY <2>7, <4>2, <4>3, <4>4, <4>5 DEF Behind
      <3>2. CASE s = n
        <4>1. reg' = n /\ waitOn'[n] = reg
          BY <1>1, <2>2, <2>8, <2>10, <3>2
        <4>2. \A r \in Run : r < n => (Chat(r)' <=> Chat(r))
          BY <1>0, <2>1, <2>3
        <4>3. CASE reg = NoRun
          <5>1. \A r \in Run : (r < n /\ Chat(r)') => Clear(r, n)'
            <6>1. ASSUME NEW r \in Run, r < n, Chat(r)' PROVE Clear(r, n)'
              <7>1. Clear(r, admitted)
                BY <4>2, <4>3, <6>1 DEF FifoInv
              <7>2. Clear(r, n)
                BY <1>1, <2>2, <7>1, ClearLater
              <7> QED
                BY <2>7, <7>2
            <6> QED
              BY <6>1
          <5> QED
            BY <3>2, <4>1, <4>3, <5>1 DEF Behind
        <4>4. CASE reg # NoRun
          <5>2. PICK w : w = reg
            OBVIOUS
          <5>3. waitOn'[s] = w /\ w # NoRun /\ w < s /\ Chat(w)' /\ \A r \in Run : (r < s /\ Chat(r)') => r <= w
            <6>1. reg \in Run /\ \A r \in Run : Chat(r) => Chat(r)'
              BY <1>3, <2>3, <4>4
            <6>2. Chat(w)'
              BY <1>3, <4>4, <5>2, <6>1
            <6> QED
              BY <3>2, <4>1, <4>2, <1>3, <2>2, <4>4, <5>2, <6>2
          <5> QED
            BY <2>5, <3>2, <5>3 DEF Behind
        <4> QED
          BY <4>3, <4>4
      <3> QED
        BY <3>1, <3>2
    <2> QED
      BY <2>9, <2>10 DEF FifoInv
  <1>8. ASSUME NEW x \in Run, RunStep(x) PROVE FifoInv'
    <2>1. /\ pc' = [pc EXCEPT ![x] = pc'[x]] /\ Edge(x, pc[x], pc'[x])
          /\ UNCHANGED <<scenario, admitted>>
      BY <1>8, RunMoves
    <2>2. \A r \in Run : (r # x => pc'[r] = pc[r]) /\ (pc[r] = "over" => pc'[r] = "over")
      BY <1>1, <2>1 DEF Edge
    <2>3. \A r \in Run : Chat(r)' <=> Chat(r)
      BY <2>1 DEF Chat, ModeOf
    <2>4. CASE AwaitChatTurn(x)
      <3>1. /\ pc[x] = "queued" /\ pc'[x] = "lookup" /\ UNCHANGED <<reg, ctx>> /\ late \subseteq late'
            /\ waitOn'[x] = NoRun /\ \A s \in Run : s # x => waitOn'[s] = waitOn[s]
        BY <1>1, <2>4 DEF AwaitChatTurn, Goto
      <3>2. \A r \in Run, s \in Int : Clear(r, s) => Clear(r, s)'
        BY <1>4, <2>2, <3>1 DEF Undone
      <3>3. reg' = NoRun => \A r \in Run : Chat(r)' => Clear(r, admitted)'
        BY <1>1, <2>1, <2>3, <3>1, <3>2 DEF FifoInv
      <3>4. ASSUME Chat(x), NEW r \in Run, r < x, Chat(r) PROVE Clear(r, x)'
        <4>1. PICK w : w = waitOn[x]
          OBVIOUS
        <4>2. Behind(x, w) /\ ~Begun(x) /\ x \in Int /\ r \in Int
          BY <1>0, <3>1, <3>4, <4>1 DEF FifoInv, Begun
        <4>3. CASE w = NoRun
          <5>1. Clear(r, x)
            BY <3>4, <4>2, <4>3 DEF Behind
          <5> QED
            BY <3>2, <4>2, <5>1
        <4>4. CASE w # NoRun /\ pc[w] = "over"
          <5>1. w \in Run /\ w \in Int /\ w < x /\ Chat(w) /\ r <= w /\ Begun(w)
            BY <1>0, <1>2, <3>4, <4>1, <4>2, <4>4 DEF Behind, Begun
          <5>2. CASE r = w
            BY <2>2, <4>4, <5>2 DEF Clear
          <5>3. CASE r < w
            <6>1. Clear(r, w)
              BY <3>4, <5>1, <5>3 DEF FifoInv, Behind
            <6>2. Clear(r, x)
              BY <4>2, <5>1, <6>1, ClearLater
            <6> QED
              BY <3>2, <4>2, <6>2
          <5> QED
            BY <4>2, <5>1, <5>2, <5>3
        <4>5. CASE ctx[x] = "cancelled" \/ x \in late'
          <5>1. x \in r .. x
            BY <3>4, <4>2
          <5> QED
            BY <3>1, <4>5, <5>1 DEF Clear, Undone
        <4> QED
          BY <2>4, <4>1, <4>3, <4>4, <4>5 DEF AwaitChatTurn
      <3>5. ASSUME NEW s \in Run, Chat(s) PROVE Behind(s, waitOn[s])'
        <4>1. CASE s = x
          <5>1. Begun(x)'
            BY <3>1 DEF Begun
          <5> QED
            BY <2>3, <3>1, <3>4, <3>5, <4>1, <5>1 DEF Behind
        <4>2. CASE s # x
          <5>1. PICK w : w = waitOn[s]
            OBVIOUS
          <5>2. waitOn'[s] = w /\ Behind(s, w) /\ (Begun(s)' <=> Begun(s)) /\ s \in Int
            BY <1>0, <2>2, <3>1, <3>5, <4>2, <5>1 DEF FifoInv, Begun
          <5>3. w # NoRun => (Chat(w)' <=> Chat(w))
            BY <1>2, <2>3, <5>1
          <5> QED
            BY <2>3, <3>2, <5>2, <5>3 DEF Behind
        <4> QED
          BY <4>1, <4>2
      <3> QED
        BY <2>3, <3>3, <3>5 DEF FifoInv
    <2>5. CASE ~AwaitChatTurn(x) /\ UNCHANGED <<waitOn, late>> /\ \A c \in Int : Undone(c) => Undone(c)'
      <3>1. \A r \in Run, s \in Int : Clear(r, s) => Clear(r, s)'
        BY <1>4, <2>2, <2>5
      <3>2. ASSUME Chat(x) PROVE Begun(x)' <=> Begun(x)
        <4>1. pc[x] # "queued"
          BY <1>8, <2>5 DEF RunStep, Accept, FollowUpSettles, Lookup, TryBeginRun, SlotTaken, WaitForIdle,
             QueueBusy, FastAnswer, SnapshotHistory, ModelAnswers, TurnFails, EndRun, PersistAccumulated,
             EmitDone, EndChatRun
        <4>2. pc[x] # "settling"
          BY <3>2 DEF Base, Placed, Chat
        <4> QED
          BY <2>1, <4>1, <4>2 DEF Edge, Begun
      <3>3. \A s \in Run : Chat(s) => waitOn'[s] = waitOn[s] /\ (Begun(s)' <=> Begun(s))
        BY <2>2, <2>5, <3>2 DEF Begun
      <3>4. CASE reg' = reg \/ reg' # NoRun
        BY <1>5, <2>1, <3>1, <3>3, <3>4
      <3>5. CASE EndChatRun(x) /\ reg = x
        <4>1. ASSUME NEW r \in Run, Chat(r) PROVE Clear(r, admitted)'
          <5>1. r <= x /\ x <= admitted /\ Chat(x) /\ Begun(x) /\ pc'[x] = "over" /\ x \in Int /\ r \in Int
            BY <1>0, <1>1, <1>3, <3>5, <4>1 DEF EndChatRun, Goto, Begun
          <5>2. CASE r = x
            BY <5>1, <5>2 DEF Clear
          <5>3. CASE r # x
            <6>1. Clear(r, x)
              BY <4>1, <5>1, <5>3 DEF FifoInv, Behind
            <6>2. Clear(r, admitted)
              BY <1>1, <5>1, <6>1, ClearLater
            <6> QED
              BY <1>1, <2>1, <3>1, <6>2
          <5> QED
            BY <5>2, <5>3
        <4>2. ASSUME NEW s \in Run, Chat(s) PROVE Behind(s, waitOn[s])'
          <5>1. PICK w : w = waitOn[s]
            OBVIOUS
          <5>2. waitOn'[s] = w /\ Behind(s, w) /\ (Begun(s)' <=> Begun(s)) /\ s \in Int
            BY <1>0, <3>3, <4>2, <5>1 DEF FifoInv
          <5>3. w # NoRun => (Chat(w)' <=> Chat(w))
            BY <1>2, <2>3, <5>1
          <5> QED
            BY <2>3, <3>1, <5>2, <5>3 DEF Behind
        <4> QED
          BY <2>3, <4>1, <4>2 DEF FifoInv
      <3>6. ~EndChatRun(x) => reg' = reg
        BY <1>8, <2>5 DEF RunStep, Accept, FollowUpSettles, Lookup, TryBeginRun, SlotTaken, WaitForIdle,
           QueueBusy, FastAnswer, SnapshotHistory, ModelAnswers, Concludes, TurnFails, EndRun,
           PersistAccumulated, EmitDone, queueVars
      <3> QED
        BY <3>4, <3>5, <3>6 DEF EndChatRun
    <2>6. ~AwaitChatTurn(x) => UNCHANGED <<waitOn, late>> /\ \A c \in Int : Undone(c) => Undone(c)'
      <3>1. CASE UNCHANGED queueVars
        BY <3>1 DEF queueVars, Undone
      <3>2. CASE EndChatRun(x)
        <4>1. UNCHANGED <<waitOn, late>> /\ ctx' = [ctx EXCEPT ![x] = IF @ = "live" THEN "ended" ELSE @]
          BY <3>2 DEF EndChatRun
        <4>2. \A c \in Int : ctx[c] = "cancelled" => ctx'[c] = "cancelled"
          BY <1>1, <4>1
        <4> QED
          BY <4>1, <4>2 DEF Undone
      <3> QED
        BY <1>8, <3>1, <3>2 DEF RunStep, Accept, FollowUpSettles, Lookup, TryBeginRun, SlotTaken, WaitForIdle,
           QueueBusy, FastAnswer, SnapshotHistory, ModelAnswers, Concludes, TurnFails, EndRun,
           PersistAccumulated, EmitDone
    <2> QED
      BY <2>4, <2>5, <2>6
  <1>9. CASE ChatCancel
    <2>1. /\ UNCHANGED <<scenario, admitted, pc, waitOn, late>> /\ reg # NoRun /\ reg' = NoRun
          /\ ctx' = [ctx EXCEPT ![reg] = "cancelled"]
      BY <1>9 DEF ChatCancel
    <2>2. PICK c \in Run : c = reg
      BY <1>3, <2>1
    <2>3. ctx'[c] = "cancelled" /\ \A r \in Int : ctx[r] = "cancelled" => ctx'[r] = "cancelled"
      BY <1>1, <2>1, <2>2
    <2>4. \A r \in Run, s \in Int : Clear(r, s) => Clear(r, s)'
      BY <1>4, <2>1, <2>3 DEF Undone
    <2>5. \A s \in Run : Chat(s)' <=> Chat(s)
      BY <2>1 DEF Chat, ModeOf
    <2>6. ASSUME NEW r \in Run, Chat(r) PROVE Clear(r, admitted)'
      <3>1. c \in r .. admitted
        BY <1>0, <1>1, <1>3, <2>1, <2>2, <2>6
      <3> QED
        BY <2>1, <2>3, <3>1 DEF Clear, Undone
    <2>7. ASSUME NEW s \in Run, Chat(s) PROVE Behind(s, waitOn[s])'
      <3>1. PICK w : w = waitOn[s]
        OBVIOUS
      <3>2. waitOn'[s] = w /\ Behind(s, w) /\ (Begun(s)' <=> Begun(s)) /\ s \in Int
        BY <1>0, <2>1, <2>7, <3>1 DEF FifoInv, Begun
      <3>3. w # NoRun => (Chat(w)' <=> Chat(w))
        BY <1>2, <2>5, <3>1
      <3> QED
        BY <2>4, <2>5, <3>2, <3>3 DEF Behind
    <2> QED
      BY <2>5, <2>6, <2>7 DEF FifoInv
  <1>10. ASSUME NEW x \in Run, Compaction(x) PROVE FifoInv'
    BY <1>6, <1>10 DEF Compaction, CompactionStarts, CompactionEnds
  <1>11. CASE Eviction
    BY <1>6, <1>11 DEF Eviction, GrowsIdle, EvictionPicks, EvictionDeletes
  <1>12. CASE UNCHANGED vars
    BY <1>6, <1>12 DEF vars
  <1> QED
    BY <1>7, <1>8, <1>9, <1>10, <1>11, <1>12 DEF Next

(* A chat run gets past the queue while an earlier one is unfinished only  *)
(* if a chat_cancel or the ceiling took one of the runs between them out   *)
(* of the chain (FifoUnlessDisturbed).                                     *)
THEOREM TurnsInOrder == Spec => []FifoUnlessDisturbed
  <1>1. Base /\ FifoInv => FifoUnlessDisturbed
    BY DEF FifoInv, Behind, Clear, Undone, FifoUnlessDisturbed
  <1>2. Base /\ Base' /\ QueueAccounted /\ FifoInv /\ [Next]_vars => FifoInv'
    BY FifoKept
  <1> QED
    BY <1>1, <1>2, FifoInit, BaseHolds, QueueCounted, PTL DEF Spec

--------------------------------------------------------------------------------
(* The store and the terminal event.                                       *)

(* The rows a finished run finds written: its own, or, for a ping, the     *)
(* newer ask of another kind that made its answer a leftover.              *)
Answered(r) ==
  \/ "reply" \in stored[r] /\ (Chat(r) => "ask" \in stored[r])
  \/ /\ KindOf(r) = "ping" /\ ModeOf(r) = "ws"
     /\ \E n \in Run \ {r} : Chat(n) /\ KindOf(n) # "ping" /\ "ask" \in stored[n]

(* A run is told of its end when what it is told of is stored already. *)
Told(r) ==
  /\ out[r] # "none" => pc[r] \in {"ending", "over"}
  /\ (pc[r] = "emitting" /\ failed[r] = "no") => Answered(r)
  /\ (pc[r] = "emitting" /\ failed[r] # "no" /\ ModeOf(r) = "ws")
       => ctx[r] = "cancelled" \/ "ask" \in stored[r]
  /\ out[r] = "done" => Answered(r)
  /\ (out[r] = "error" /\ ModeOf(r) = "ws") => "ask" \in stored[r]

(* The newest user row is the ask of a chat run. *)
StoredInv ==
  /\ lastAsk # NoRun => Chat(lastAsk) /\ "ask" \in stored[lastAsk]
  /\ \A r \in Run : Told(r)

(* Nothing is stored and nothing is told at first. *)
LEMMA StoredInit == Init => StoredInv
  BY DEF Init, StoredInv, Told

(* What the rows that a run stores at its end hold. *)
LEMMA RowsHold ==
  ASSUME Base, NEW r \in Run, NEW rows \in RowsToStore(r)
  PROVE  /\ "ask" \in rows => ModeOf(r) # "follow"
         /\ failed[r] = "no" => \/ "reply" \in rows /\ (ModeOf(r) # "follow" => "ask" \in rows)
                                \/ Overtaken(r)
         /\ (failed[r] # "no" /\ ModeOf(r) = "ws") => ctx[r] = "cancelled" \/ "ask" \in rows
  <1>1. failed[r] = "no" => AnswerRows(r) = {{"reply"}}
    BY DEF AnswerRows
  <1>2. \A a \in AnswerRows(r) : a \subseteq {"reply", "error"}
    BY DEF AnswerRows
  <1>3. CASE ModeOf(r) # "ws" /\ failed[r] # "no"
    BY <1>3 DEF RowsToStore
  <1>4. CASE ModeOf(r) = "follow" /\ failed[r] = "no"
    BY <1>4 DEF RowsToStore
  <1>5. CASE ModeOf(r) = "ws" /\ Overtaken(r)
    BY <1>5 DEF RowsToStore
  <1>6. CASE ~(ModeOf(r) # "ws" /\ failed[r] # "no") /\ ~(ModeOf(r) = "follow" /\ failed[r] = "no")
             /\ ~(ModeOf(r) = "ws" /\ Overtaken(r))
    <2>1. PICK a \in AnswerRows(r) : rows = {"ask"} \cup a
      BY <1>6 DEF RowsToStore
    <2>2. failed[r] = "no" => a = {"reply"}
      BY <1>1
    <2>3. ModeOf(r) # "follow"
      BY <1>6
    <2> QED
      BY <2>1, <2>2, <2>3
  <1> QED
    BY <1>3, <1>4, <1>5, <1>6

(* The rows of a turn are written before its last event is sent, on every  *)
(* way a run ends.                                                         *)
LEMMA StoredKept ==
  ASSUME Base, StoredInv, [Next]_vars
  PROVE  StoredInv'
  <1>0. NumRuns \in Nat /\ NoRun \notin Run /\ \A r \in Run : r \in Int
    BY ChatConstants DEF ChatConstants, NoRun, Run
  <1>1. /\ pc \in [Run -> PC] /\ admitted \in 0 .. NumRuns
        /\ ctx \in [Run -> {"live", "cancelled", "ended"}]
        /\ failed \in [Run -> {"no", "early", "late"}]
        /\ stored \in [Run -> SUBSET {"ask", "reply", "error"}]
        /\ out \in [Run -> {"none", "done", "cancelled", "error"}]
    BY DEF Base, QueueTypes, SessionTypes, StoreTypes
  <1>2. lastAsk # NoRun => lastAsk \in Run
    BY <1>0, <1>1 DEF Base, StoreTypes, NoRun, Run
  \* Asks stay in the store, so a run that is answered stays answered.
  <1>3. ASSUME NEW r \in Run, UNCHANGED scenario, Chat(r)' <=> Chat(r),
               \A n \in Run : (Chat(n) => Chat(n)') /\ ("ask" \in stored[n] => "ask" \in stored'[n]),
               "reply" \in stored[r] => "reply" \in stored'[r], Answered(r)
        PROVE  Answered(r)'
    BY <1>3 DEF Answered, KindOf, ModeOf
  <1>4. ASSUME NEW r \in Run, UNCHANGED scenario, Chat(r)' <=> Chat(r),
               \A n \in Run : (Chat(n) => Chat(n)') /\ ("ask" \in stored[n] => "ask" \in stored'[n]),
               "reply" \in stored[r] => "reply" \in stored'[r],
               pc'[r] = pc[r] \/ (pc[r] = "ending" /\ pc'[r] = "over"),
               failed'[r] = failed[r], out'[r] = out[r], ctx[r] = "cancelled" => ctx'[r] = "cancelled"
        PROVE  Told(r)'
    <2>1. Told(r) /\ (Answered(r) => Answered(r)')
      BY <1>3, <1>4 DEF StoredInv
    <2> QED
      BY <1>4, <2>1 DEF Told, ModeOf
  <1>5. ASSUME UNCHANGED <<scenario, admitted>> PROVE \A n \in Run : Chat(n)' <=> Chat(n)
    BY <1>5 DEF Chat, ModeOf
  <1>6. ASSUME UNCHANGED <<scenario, admitted, pc, failed, out, storeVars>>,
               \A r \in Run : ctx[r] = "cancelled" => ctx'[r] = "cancelled"
        PROVE  StoredInv'
    <2>1. \A r \in Run : Told(r)'
      BY <1>4, <1>5, <1>6 DEF storeVars
    <2> QED
      BY <1>2, <1>5, <1>6, <2>1 DEF StoredInv, storeVars
  <1>7. CASE Arrive
    <2>1. PICK n \in Int : n = admitted + 1
      BY <1>1
    <2>2. n \in Run /\ admitted' = n /\ UNCHANGED <<scenario, failed, out>> /\ n > admitted /\ pc[n] = "new"
      BY <1>0, <1>1, <1>7, <2>1 DEF Arrive, Run, Base, Placed
    <2>3. \A r \in Run : (r # n => (Chat(r)' <=> Chat(r))) /\ (Chat(r) => Chat(r)')
      <3>1. \A r \in Run : (r # n => (r <= n <=> r <= admitted)) /\ (r <= admitted => r <= n)
        BY <1>0, <1>1, <2>1
      <3> QED
        BY <2>2, <3>1 DEF Chat, ModeOf
    <2>4. PICK p \in {"accepting", "queued", "settling"} : Goto(n, p)
      BY <1>7, <2>1 DEF Arrive, FrameArrives, PostArrives, FollowUpStarts
    <2>5. pc'[n] = p /\ \A r \in Run : r # n => pc'[r] = pc[r]
      BY <1>1, <2>2, <2>4 DEF Goto
    <2>6. UNCHANGED ctx
      BY <1>7 DEF Arrive, FrameArrives, PostArrives, FollowUpStarts, ReserveChatRun, queueVars
    <2>7. /\ \/ UNCHANGED <<stored, lastAsk>>
             \/ stored' = [stored EXCEPT ![n] = {"ask"}] /\ lastAsk' = n /\ ModeOf(n) = "http"
      BY <1>7, <2>1 DEF Arrive, FrameArrives, PostArrives, FollowUpStarts, PersistInbound, storeVars
    <2>8. /\ \A r \in Run : "ask" \in stored[r] => "ask" \in stored'[r]
          /\ \A r \in Run : r # n => stored'[r] = stored[r]
      BY <1>1, <2>2, <2>7
    <2>9. ASSUME NEW r \in Run PROVE Told(r)'
      <3>1. CASE r = n
        BY <2>2, <2>4, <2>5, <3>1 DEF StoredInv, Told
      <3>2. CASE r # n
        BY <1>4, <2>2, <2>3, <2>5, <2>6, <2>8, <3>2
      <3> QED
        BY <3>1, <3>2
    <2>10. lastAsk' # NoRun => Chat(lastAsk)' /\ "ask" \in stored'[lastAsk']
      <3>1. CASE UNCHANGED <<stored, lastAsk>>
        BY <1>2, <2>3, <3>1 DEF StoredInv, Chat
      <3>2. CASE stored' = [stored EXCEPT ![n] = {"ask"}] /\ lastAsk' = n /\ ModeOf(n) = "http"
        BY <1>1, <2>2, <3>2 DEF Chat, ModeOf
      <3> QED
        BY <2>7, <3>1, <3>2
    <2> QED
      BY <2>9, <2>10 DEF StoredInv
  <1>8. ASSUME NEW x \in Run, RunStep(x) PROVE StoredInv'
    <2>1. /\ pc' = [pc EXCEPT ![x] = pc'[x]] /\ Edge(x, pc[x], pc'[x])
          /\ UNCHANGED <<scenario, admitted>>
      BY <1>8, RunMoves
    <2>2. /\ \A r \in Run : r # x => pc'[r] = pc[r]
          /\ \A r \in Run : Chat(r)' <=> Chat(r)
          /\ x <= admitted
      <3>1. pc[x] # "new"
        BY <2>1 DEF Edge
      <3>2. x <= admitted
        BY <1>0, <1>1, <3>1 DEF Base, Placed
      <3> QED
        BY <1>1, <1>5, <2>1, <3>2
    <2>3. ASSUME \A r \in Run : r # x => failed'[r] = failed[r] /\ out'[r] = out[r] /\ stored'[r] = stored[r],
                 "ask" \in stored[x] => "ask" \in stored'[x],
                 \A r \in Run : ctx[r] = "cancelled" => ctx'[r] = "cancelled",
                 UNCHANGED lastAsk \/ (lastAsk' = x /\ Chat(x) /\ "ask" \in stored'[x]),
                 Told(x)'
          PROVE  StoredInv'
      <3>1. \A r \in Run : "ask" \in stored[r] => "ask" \in stored'[r]
        BY <2>3
      <3>2. ASSUME NEW r \in Run PROVE Told(r)'
        <4>1. CASE r = x
          BY <2>3, <4>1
        <4>2. CASE r # x
          BY <1>4, <2>1, <2>2, <2>3, <3>1, <4>2
        <4> QED
          BY <4>1, <4>2
      <3>3. CASE UNCHANGED lastAsk
        <4>1. lastAsk' # NoRun => Chat(lastAsk)' /\ "ask" \in stored'[lastAsk']
          BY <1>2, <2>1, <3>1, <3>3 DEF StoredInv, Chat, ModeOf
        <4> QED
          BY <3>2, <4>1 DEF StoredInv
      <3>4. CASE lastAsk' = x /\ Chat(x) /\ "ask" \in stored'[x]
        <4>1. Chat(lastAsk)' /\ "ask" \in stored'[lastAsk']
          BY <2>1, <3>4 DEF Chat, ModeOf
        <4> QED
          BY <3>2, <4>1 DEF StoredInv
      <3> QED
        BY <2>3, <3>3, <3>4
    <2>4. CASE Accept(x)
      <3>1. /\ pc'[x] = "queued" /\ pc[x] = "accepting" /\ UNCHANGED <<failed, out, ctx>>
            /\ UNCHANGED <<stored, lastAsk>> \/ (stored' = [stored EXCEPT ![x] = {"ask"}] /\ lastAsk' = x)
        BY <1>1, <2>4 DEF Accept, Goto, PersistInbound, queueVars, storeVars
      <3>2. Told(x)'
        BY <3>1 DEF StoredInv, Told
      <3>3. Chat(x)
        BY <2>2, <3>1 DEF Base, Placed, Chat
      <3>4. /\ \A r \in Run : r # x => stored'[r] = stored[r]
            /\ "ask" \in stored[x] => "ask" \in stored'[x]
            /\ UNCHANGED lastAsk \/ (lastAsk' = x /\ "ask" \in stored'[x])
        BY <1>1, <3>1
      <3> QED
        BY <2>3, <3>1, <3>2, <3>3, <3>4
    <2>5. CASE FollowUpSettles(x)
      <3>1. /\ pc[x] = "settling" /\ UNCHANGED <<stored, lastAsk, out, ctx>>
            /\ \A r \in Run : r # x => failed'[r] = failed[r]
            /\ pc'[x] = "lookup" \/ (pc'[x] = "emitting" /\ failed'[x] = "early")
        BY <1>1, <2>5 DEF FollowUpSettles, Goto, queueVars, storeVars
      <3>2. ModeOf(x) = "follow" /\ ModeOf(x)' = "follow"
        BY <2>1, <3>1 DEF Base, Placed, ModeOf
      <3>3. Told(x)'
        BY <3>1, <3>2 DEF StoredInv, Told
      <3> QED
        BY <2>3, <3>1, <3>3
    <2>6. CASE PersistAccumulated(x)
      <3>1. PICK rows \in RowsToStore(x) :
               /\ stored' = [stored EXCEPT ![x] = @ \cup rows]
               /\ lastAsk' = IF "ask" \in rows \ stored[x] THEN x ELSE lastAsk
        BY <2>6 DEF PersistAccumulated
      <3>2. /\ pc[x] = "persisting" /\ pc'[x] = "emitting" /\ UNCHANGED <<failed, out, ctx>>
            /\ stored'[x] = stored[x] \cup rows /\ \A r \in Run : r # x => stored'[r] = stored[r]
        BY <1>1, <2>6, <3>1 DEF PersistAccumulated, Goto, queueVars
      <3>3. UNCHANGED lastAsk \/ (lastAsk' = x /\ Chat(x) /\ "ask" \in stored'[x])
        BY <2>2, <3>1, <3>2, RowsHold DEF Chat
      <3>4. failed[x] = "no" => Answered(x)'
        <4>1. CASE "reply" \in rows /\ (ModeOf(x) # "follow" => "ask" \in rows)
          BY <2>2, <3>2, <4>1 DEF Answered, Chat
        <4>2. CASE Overtaken(x)
          <5>1. /\ KindOf(x) = "ping" /\ ModeOf(x) = "ws"
                /\ lastAsk \in Run \ {x} /\ Chat(lastAsk) /\ KindOf(lastAsk) # "ping" /\ "ask" \in stored[lastAsk]
            BY <1>2, <4>2 DEF Overtaken, StoredInv
          <5>2. PICK n \in Run \ {x} : n = lastAsk
            BY <5>1
          <5>3. Chat(n)' /\ KindOf(n)' # "ping" /\ "ask" \in stored'[n]
            BY <2>1, <2>2, <3>2, <5>1, <5>2 DEF KindOf
          <5>4. KindOf(x)' = "ping" /\ ModeOf(x)' = "ws"
            BY <2>1, <5>1 DEF KindOf, ModeOf
          <5> QED
            BY <5>3, <5>4 DEF Answered
        <4> QED
          BY <3>1, <4>1, <4>2, RowsHold
      <3>5. failed[x] # "no" /\ ModeOf(x) = "ws" => ctx[x] = "cancelled" \/ "ask" \in stored'[x]
        BY <3>1, <3>2, RowsHold
      <3>6. Told(x)'
        BY <2>1, <3>2, <3>4, <3>5 DEF StoredInv, Told, ModeOf
      <3> QED
        BY <2>3, <3>2, <3>3, <3>6
    <2>7. CASE EmitDone(x)
      <3>1. /\ pc[x] = "emitting" /\ pc'[x] \in {"ending", "over"} /\ UNCHANGED <<failed, ctx, stored, lastAsk>>
            /\ \A r \in Run : r # x => out'[r] = out[r]
        BY <1>1, <2>7 DEF EmitDone, Goto, queueVars, storeVars
      <3>2. CASE failed[x] = "no"
        <4>1. out'[x] = "done"
          BY <1>1, <2>7, <3>2 DEF EmitDone
        <4>2. Answered(x)
          BY <3>1, <3>2 DEF StoredInv, Told
        <4>3. Answered(x)'
          BY <1>3, <2>1, <2>2, <3>1, <4>2
        <4>4. Told(x)'
          BY <3>1, <4>1, <4>3 DEF Told
        <4> QED
          BY <2>3, <3>1, <4>4
      <3>3. CASE failed[x] # "no"
        <4>1. out'[x] = IF ModeOf(x) = "ws" /\ ctx[x] = "cancelled" THEN "cancelled" ELSE "error"
          BY <1>1, <2>7, <3>3 DEF EmitDone
        <4>2. ModeOf(x) = "ws" => ctx[x] = "cancelled" \/ "ask" \in stored[x]
          BY <3>1, <3>3 DEF StoredInv, Told
        <4>3. Told(x)'
          BY <2>1, <3>1, <4>1, <4>2 DEF Told, ModeOf
        <4> QED
          BY <2>3, <3>1, <4>3
      <3> QED
        BY <3>2, <3>3
    <2>8. CASE EndChatRun(x)
      <3>1. /\ pc[x] = "ending" /\ pc'[x] = "over" /\ UNCHANGED <<failed, out, stored, lastAsk>>
            /\ ctx' = [ctx EXCEPT ![x] = IF @ = "live" THEN "ended" ELSE @]
        BY <1>1, <2>8 DEF EndChatRun, Goto, storeVars
      <3>2. \A r \in Run : ctx[r] = "cancelled" => ctx'[r] = "cancelled"
        BY <1>1, <3>1
      <3>3. Told(x)'
        BY <1>4, <2>1, <2>2, <3>1, <3>2
      <3> QED
        BY <2>3, <3>1, <3>2, <3>3
    \* The other steps are taken by a run that has not been told anything.
    <2>9. CASE /\ UNCHANGED <<storeVars, out, ctx>> /\ \A r \in Run : r # x => failed'[r] = failed[r]
               /\ pc[x] \notin {"settling", "persisting", "emitting", "ending"}
      <3>1. pc[x] # "over" /\ pc'[x] \notin {"emitting", "ending", "over"}
        BY <2>1, <2>9 DEF Edge
      <3>2. out[x] = "none"
        BY <2>9, <3>1 DEF StoredInv, Told
      <3>3. Told(x)'
        BY <2>9, <3>1, <3>2 DEF Told
      <3> QED
        BY <2>3, <2>9, <3>3 DEF storeVars
    <2>10. CASE AwaitChatTurn(x) \/ Lookup(x) \/ TryBeginRun(x) \/ SlotTaken(x) \/ WaitForIdle(x) \/ QueueBusy(x)
      BY <1>1, <2>9, <2>10 DEF AwaitChatTurn, Lookup, TryBeginRun, SlotTaken, WaitForIdle, QueueBusy, queueVars
    <2>11. CASE FastAnswer(x) \/ SnapshotHistory(x) \/ ModelAnswers(x) \/ TurnFails(x) \/ EndRun(x)
      BY <1>1, <2>9, <2>11 DEF FastAnswer, SnapshotHistory, ModelAnswers, Concludes, TurnFails, EndRun, queueVars
    <2> QED
      BY <1>8, <2>4, <2>5, <2>6, <2>7, <2>8, <2>10, <2>11 DEF RunStep
  <1>9. ASSUME NEW r \in Run, Compaction(r) PROVE StoredInv'
    BY <1>6, <1>9 DEF Compaction, CompactionStarts, CompactionEnds, queueVars
  <1>10. CASE ChatCancel
    <2>1. \A r \in Run : ctx[r] = "cancelled" => ctx'[r] = "cancelled"
      BY <1>1, <1>10 DEF ChatCancel
    <2> QED
      BY <1>6, <1>10, <2>1 DEF ChatCancel
  <1>11. CASE Eviction
    BY <1>6, <1>11 DEF Eviction, GrowsIdle, EvictionPicks, EvictionDeletes, queueVars
  <1>12. CASE UNCHANGED vars
    BY <1>6, <1>12 DEF vars, queueVars
  <1> QED
    BY <1>7, <1>8, <1>9, <1>10, <1>11, <1>12 DEF Next

(* A client that is told done finds the ask and the reply in the store,    *)
(* one that is told of an error over the WebSocket the ask; the exception  *)
(* is a ping that a newer ask has overtaken (StoredBeforeTold).            *)
THEOREM StoredFirst == Spec => []StoredBeforeTold
  <1>1. StoredInv => StoredBeforeTold
    BY DEF StoredInv, Told, Answered, StoredBeforeTold
  <1>2. Base /\ StoredInv /\ [Next]_vars => StoredInv'
    BY StoredKept
  <1> QED
    BY <1>1, <1>2, StoredInit, BaseHolds, PTL DEF Spec

================================================================================
