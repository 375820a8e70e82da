------------------------------ MODULE ChatRuns ------------------------------
(***************************************************************************)
(* One chat session: the turns that WebSocket frames, REST posts and       *)
(* thread follow-ups ask for, the FIFO of the server (server/ws.go), the   *)
(* exclusive run slot and the history of the orchestrator's Session        *)
(* (agent/session.go, agent/agent_dispatcher.go), the compaction that      *)
(* trails each turn (agent/chat_engine.go) and the eviction of idle        *)
(* sessions (agent/orchestrator.go).                                       *)
(*                                                                         *)
(* A run is one turn, numbered in the order of its admission.  Each of its *)
(* steps is one critical section, channel wait or store call of the code.  *)
(***************************************************************************)
EXTENDS Integers, Sequences, FiniteSets

CONSTANTS
    NumRuns,       \* how many turns are asked for
    Scenarios,     \* the turns that may be asked for, with what may disturb them
    MaxEvictions   \* bound: how often the idle sweep may drop the session

Mode   == {"ws", "http", "follow"}
Kind   == {"ping", "tool", "chat", "plain", "held"}
Fault  == {"cancel", "ceiling", "error", "acceptWrite", "compact", "evict"}
Run    == 1 .. NumRuns
Obj    == 1 .. MaxEvictions + 1
NoRun  == 0
NoObj  == 0

Scenario == [turns : [Run -> [mode : Mode, kind : Kind]], faults : SUBSET Fault]

ASSUME ChatConstants ==
    /\ NumRuns \in Nat \ {0}
    /\ MaxEvictions \in Nat
    /\ Scenarios \subseteq Scenario

VARIABLES
    scenario,    \* where the turns come from, what they are, what may go wrong
    admitted,    \* how many turns have been asked for so far
    pc,          \* where the goroutine of a run stands
    reg,         \* Server.chatRunCancels[session]: the newest run, or NoRun
    depth,       \* Server.chatQueueDepth[session]
    waitOn,      \* the run whose done channel a run waits for, or NoRun
    ctx,         \* chatRunHandle.ctx: live, cancelled by a user, ended
    late,        \* runs that stopped waiting for their turn at the ceiling
    live,        \* Orchestrator.sessions[session], or NoObj
    obj,         \* the Session object a run has looked up
    holder,      \* Session.running: the run that owns the slot, or NoRun
    idleOn,      \* the run whose idleCh a waiting run has captured
    failed,      \* how ChatWithAgent ended: no error, early or late error
    history,     \* Session.history
    seen,        \* the snapshot a turn sends to the model
    compaction,  \* the goroutine compactHistoryAsync started for a run
    compactMu,   \* Session.compactMu: the run whose compaction holds it
    compSnap,    \* the snapshot that compaction summarises
    raced,       \* runs whose history append or snapshot met a compaction
    stored,      \* rows of the run in the session store
    lastAsk,     \* the run whose ask is the newest user row there, or NoRun
    out,         \* the terminal event the client got
    idleLong,    \* the live object has been idle for longer than the TTL
    evictee,     \* evictIdleSessions has picked the session
    evictions    \* how often it was dropped

queueVars   == <<reg, depth, waitOn, ctx, late>>
sessionVars == <<live, obj, holder, idleOn>>
historyVars == <<history, seen, compaction, compactMu, compSnap, raced>>
storeVars   == <<stored, lastAsk>>
evictVars   == <<idleLong, evictee, evictions>>
vars == <<scenario, admitted, pc, queueVars, sessionVars, historyVars,
          failed, storeVars, out, evictVars>>

PC == {"new", "accepting", "queued", "settling", "lookup", "claiming", "waiting",
       "busy", "turn", "model", "releasing", "persisting", "emitting", "ending",
       "over"}

\* The program points at which a run owns the slot of its Session object.
InSlot == {"turn", "model", "releasing"}

MsgKind == {"ask", "pong", "call", "result", "reply", "summary"}
Msg(k, r) == [kind |-> k, of |-> {r}]

ModeOf(r) == scenario.turns[r].mode
KindOf(r) == scenario.turns[r].kind
May(fault) == fault \in scenario.faults

\* The turns a history tells of, in full or through a summary.
Covered(h) == UNION {h[i].of : i \in DOMAIN h}

-----------------------------------------------------------------------------
Init ==
    /\ scenario \in Scenarios
    /\ admitted = 0
    /\ pc = [r \in Run |-> "new"]
    /\ reg = NoRun /\ depth = 0
    /\ waitOn = [r \in Run |-> NoRun]
    /\ ctx = [r \in Run |-> "live"]
    /\ late = {}
    /\ live = NoObj
    /\ obj = [r \in Run |-> NoObj]
    /\ holder = [o \in Obj |-> NoRun]
    /\ idleOn = [r \in Run |-> NoRun]
    /\ failed = [r \in Run |-> "no"]
    /\ history = [o \in Obj |-> <<>>]
    /\ seen = [r \in Run |-> <<>>]
    /\ compaction = [r \in Run |-> "no"]
    /\ compactMu = [o \in Obj |-> NoRun]
    /\ compSnap = [r \in Run |-> <<>>]
    /\ raced = {}
    /\ stored = [r \in Run |-> {}] /\ lastAsk = NoRun
    /\ out = [r \in Run |-> "none"]
    /\ idleLong = FALSE /\ evictee = FALSE /\ evictions = 0

Goto(r, p) == pc' = [pc EXCEPT ![r] = p]

-----------------------------------------------------------------------------
(* The server's queue.                                                     *)

\* Mutated form: beginChatRun counts the run a second time.
ReserveCountsTwice(r) ==
    /\ waitOn' = [waitOn EXCEPT ![r] = reg]
    /\ reg' = r
    /\ depth' = depth + 2
    /\ UNCHANGED <<ctx, late>>

\* reserveChatRun: the new run takes over the registration and will wait for
\* the done channel of the run that had it.
ReserveChatRun(r) ==
    /\ waitOn' = [waitOn EXCEPT ![r] = reg]
    /\ reg' = r
    /\ depth' = depth + 1
    /\ UNCHANGED <<ctx, late>>

\* persistInboundUserMessage: a failed write is only logged.
PersistInbound(r) ==
    \/ stored' = [stored EXCEPT ![r] = {"ask"}] /\ lastAsk' = r
    \/ May("acceptWrite") /\ UNCHANGED storeVars

\* A "chat" frame: the read pump reserves the slot, then starts the goroutine.
FrameArrives(r) ==
    /\ ModeOf(r) = "ws"
    /\ ReserveChatRun(r)
    /\ Goto(r, "accepting")
    /\ UNCHANGED storeVars

\* POST /sessions/{id}/messages: the ask is written before beginChatRun reserves.
PostArrives(r) ==
    /\ ModeOf(r) = "http"
    /\ ReserveChatRun(r)
    /\ Goto(r, "queued")
    /\ PersistInbound(r)

\* FollowUpFn of a finished delegate: it never enters the server's queue.
FollowUpStarts(r) ==
    /\ ModeOf(r) = "follow"
    /\ Goto(r, "settling")
    /\ UNCHANGED <<queueVars, storeVars>>

Arrive ==
    LET r == admitted + 1 IN
    /\ admitted < NumRuns
    /\ admitted' = r
    /\ \/ FrameArrives(r)
       \/ PostArrives(r)
       \/ FollowUpStarts(r)
    /\ UNCHANGED <<scenario, sessionVars, historyVars, failed, out, evictVars>>

\* The run's goroutine writes the ask before it waits for its turn.
Accept(r) ==
    /\ pc[r] = "accepting"
    /\ Goto(r, "queued")
    /\ PersistInbound(r)
    /\ UNCHANGED <<scenario, admitted, queueVars, sessionVars, historyVars, failed, out, evictVars>>

\* awaitChatTurn: the predecessor's done channel, the run's own context or the
\* ceiling ends the wait; no predecessor, no wait.
AwaitChatTurn(r) ==
    /\ pc[r] = "queued"
    /\ \/ /\ \/ waitOn[r] = NoRun
             \/ waitOn[r] # NoRun /\ pc[waitOn[r]] = "over"
             \/ waitOn[r] # NoRun /\ ctx[r] = "cancelled"
          /\ UNCHANGED late
       \/ /\ May("ceiling") /\ waitOn[r] # NoRun
          /\ late' = late \cup {r}
    /\ waitOn' = [waitOn EXCEPT ![r] = NoRun]
    /\ Goto(r, "lookup")
    /\ UNCHANGED <<scenario, admitted, reg, depth, ctx, sessionVars, historyVars,
                   failed, storeVars, out, evictVars>>

\* Mutated form: the cancelled run is taken off the depth at once, and again at its end.
ChatCancelUncounts ==
    /\ May("cancel") /\ reg # NoRun
    /\ ctx' = [ctx EXCEPT ![reg] = "cancelled"]
    /\ reg' = NoRun
    /\ depth' = depth - 1
    /\ UNCHANGED <<scenario, admitted, pc, waitOn, late, sessionVars, historyVars,
                   failed, storeVars, out, evictVars>>

\* chat_cancel: cancelChatRun cancels the registered run and forgets it.
ChatCancel ==
    /\ May("cancel") /\ reg # NoRun
    /\ ctx' = [ctx EXCEPT ![reg] = "cancelled"]
    /\ reg' = NoRun
    /\ UNCHANGED <<scenario, admitted, pc, depth, waitOn, late, sessionVars, historyVars,
                   failed, storeVars, out, evictVars>>

\* Mutated form: the end of a run forgets whichever run is registered.
EndChatRunForgetsNewer(r) ==
    /\ pc[r] = "ending"
    /\ reg' = NoRun
    /\ depth' = IF depth > 0 THEN depth - 1 ELSE depth
    /\ ctx' = [ctx EXCEPT ![r] = IF @ = "live" THEN "ended" ELSE @]
    /\ Goto(r, "over")
    /\ UNCHANGED <<scenario, admitted, waitOn, late, sessionVars, historyVars, failed,
                   storeVars, out, evictVars>>

\* endChatRun, deferred by both kinds of chat run.
EndChatRun(r) ==
    /\ pc[r] = "ending"
    /\ reg' = IF reg = r THEN NoRun ELSE reg
    /\ depth' = IF depth > 0 THEN depth - 1 ELSE depth
    /\ ctx' = [ctx EXCEPT ![r] = IF @ = "live" THEN "ended" ELSE @]
    /\ Goto(r, "over")
    /\ UNCHANGED <<scenario, admitted, waitOn, late, sessionVars, historyVars, failed,
                   storeVars, out, evictVars>>

-----------------------------------------------------------------------------
(* The orchestrator's run slot.                                            *)

\* An unknown session counts as idle.
SessionIdle == live # NoObj => holder[live] = NoRun

\* WaitForSessionIdle by the follow-up.
FollowUpSettles(r) ==
    /\ pc[r] = "settling"
    /\ \/ /\ SessionIdle
          /\ Goto(r, "lookup")
          /\ UNCHANGED failed
       \/ /\ May("ceiling") /\ ~SessionIdle
          /\ Goto(r, "emitting")
          /\ failed' = [failed EXCEPT ![r] = "early"]
    /\ UNCHANGED <<scenario, admitted, queueVars, sessionVars, historyVars, storeVars, out, evictVars>>

\* ChatWithAgent finds the session's object or registers a fresh one.
Lookup(r) ==
    /\ pc[r] = "lookup"
    /\ live' = IF live = NoObj THEN evictions + 1 ELSE live
    /\ obj' = [obj EXCEPT ![r] = live']
    /\ Goto(r, "claiming")
    /\ UNCHANGED <<scenario, admitted, queueVars, holder, idleOn, historyVars, failed,
                   storeVars, out, evictVars>>

\* Mutated form: the slot is taken without a look at running.
TryBeginRunUnchecked(r) ==
    /\ pc[r] = "claiming"
    /\ holder' = [holder EXCEPT ![obj[r]] = r]
    /\ idleLong' = (idleLong /\ obj[r] # live)
    /\ Goto(r, "turn")
    /\ UNCHANGED <<scenario, admitted, queueVars, live, obj, idleOn, historyVars, failed,
                   storeVars, out, evictee, evictions>>

\* tryBeginRun, which beginExclusiveRun calls before it looks at its context.
TryBeginRun(r) ==
    /\ pc[r] = "claiming"
    /\ holder[obj[r]] = NoRun
    /\ holder' = [holder EXCEPT ![obj[r]] = r]
    /\ idleLong' = (idleLong /\ obj[r] # live)
    /\ Goto(r, "turn")
    /\ UNCHANGED <<scenario, admitted, queueVars, live, obj, idleOn, historyVars, failed,
                   storeVars, out, evictee, evictions>>

\* The slot is taken: WaitForIdle captures the idleCh of the run that has it.
SlotTaken(r) ==
    /\ pc[r] = "claiming"
    /\ holder[obj[r]] # NoRun
    /\ idleOn' = [idleOn EXCEPT ![r] = holder[obj[r]]]
    /\ Goto(r, "waiting")
    /\ UNCHANGED <<scenario, admitted, queueVars, live, obj, holder, historyVars, failed,
                   storeVars, out, evictVars>>

\* WaitForIdle returns: its channel was closed, or the wait's time ran out, or
\* the run was cancelled (ErrQueueWaitTimeout in both).
WaitForIdle(r) ==
    /\ pc[r] = "waiting"
    /\ \/ pc[idleOn[r]] \notin InSlot /\ Goto(r, "claiming")
       \/ May("ceiling") /\ Goto(r, "busy")
       \/ ctx[r] = "cancelled" /\ Goto(r, "busy")
    /\ idleOn' = [idleOn EXCEPT ![r] = NoRun]
    /\ UNCHANGED <<scenario, admitted, queueVars, live, obj, holder, historyVars, failed,
                   storeVars, out, evictVars>>

\* What a caller does about ErrQueueWaitTimeout: runWSChat backs off and asks
\* again until it is cancelled; the REST handler and the follow-up give up.
QueueBusy(r) ==
    /\ pc[r] = "busy"
    /\ IF ModeOf(r) = "ws" /\ ctx[r] # "cancelled"
         THEN Goto(r, "lookup") /\ UNCHANGED failed
         ELSE Goto(r, "persisting") /\ failed' = [failed EXCEPT ![r] = "early"]
    /\ UNCHANGED <<scenario, admitted, queueVars, sessionVars, historyVars, storeVars, out, evictVars>>

\* endRun, deferred by ChatWithAgent.
EndRun(r) ==
    /\ pc[r] = "releasing"
    /\ holder' = [holder EXCEPT ![obj[r]] = NoRun]
    /\ Goto(r, "persisting")
    /\ UNCHANGED <<scenario, admitted, queueVars, live, obj, idleOn, historyVars, failed,
                   storeVars, out, evictVars>>

-----------------------------------------------------------------------------
(* The turn and the history.                                               *)

\* What a finished turn adds to the history.  runAgentTurn leaves the pongs of
\* the snapshot out of the request but counts them when it cuts the new
\* messages off the loop's result; with nothing left to cut off,
\* appendHistoryHonoringGate adds the ask and the answer themselves.
NewMessages(r) ==
    LET pongs == Cardinality({i \in DOMAIN seen[r] : seen[r][i].kind = "pong"})
        loop  == IF KindOf(r) = "tool"
                   THEN <<Msg("call", r), Msg("result", r), Msg("reply", r)>>
                   ELSE <<Msg("reply", r)>>
        fresh == SubSeq(loop, pongs + 1, Len(loop))
    IN  CASE KindOf(r) = "ping"  -> <<Msg("ask", r), Msg("pong", r)>>
          [] KindOf(r) = "held"  -> <<Msg("ask", r)>>
          [] KindOf(r) = "plain" -> <<Msg("ask", r), Msg("reply", r)>>
          [] OTHER -> IF fresh = <<>> THEN <<Msg("ask", r), Msg("reply", r)>> ELSE fresh

\* appendHistory, then compactHistoryAsync, then the return.
Concludes(r) ==
    /\ history' = [history EXCEPT ![obj[r]] = @ \o NewMessages(r)]
    /\ compaction' = [compaction EXCEPT ![r] = "scheduled"]
    /\ raced' = IF compactMu[obj[r]] # NoRun THEN raced \cup {r} ELSE raced
    /\ seen' = [seen EXCEPT ![r] = <<>>]
    /\ Goto(r, "releasing")
    /\ UNCHANGED <<scenario, admitted, queueVars, sessionVars, compactMu, compSnap,
                   failed, storeVars, out, evictVars>>

\* The trivial asks are answered without a snapshot and without the model.
FastAnswer(r) ==
    /\ pc[r] = "turn" /\ KindOf(r) = "ping"
    /\ Concludes(r)

\* snapshotHistory: compactMu is a barrier here and is not kept.
SnapshotHistory(r) ==
    /\ pc[r] = "turn" /\ KindOf(r) # "ping"
    /\ compactMu[obj[r]] = NoRun
    /\ seen' = [seen EXCEPT ![r] = history[obj[r]]]
    /\ Goto(r, "model")
    /\ UNCHANGED <<scenario, admitted, queueVars, sessionVars, history, compaction, compactMu,
                   compSnap, raced, failed, storeVars, out, evictVars>>

ModelAnswers(r) ==
    /\ pc[r] = "model"
    /\ Concludes(r)

\* Mutated form: the error path returns without endRun.
TurnFailsKeepsSlot(r) ==
    /\ \/ /\ pc[r] = "turn" /\ May("error")
          /\ failed' = [failed EXCEPT ![r] = "early"]
       \/ /\ pc[r] = "model" /\ (May("error") \/ ctx[r] = "cancelled")
          /\ failed' = [failed EXCEPT ![r] = "late"]
    /\ seen' = [seen EXCEPT ![r] = <<>>]
    /\ Goto(r, "persisting")
    /\ UNCHANGED <<scenario, admitted, queueVars, sessionVars, history, compaction, compactMu,
                   compSnap, raced, storeVars, out, evictVars>>

\* No model configured, or the completion fails or is cancelled: the turn leaves
\* no trace in the history.
TurnFails(r) ==
    /\ \/ /\ pc[r] = "turn" /\ May("error")
          /\ failed' = [failed EXCEPT ![r] = "early"]
       \/ /\ pc[r] = "model" /\ (May("error") \/ ctx[r] = "cancelled")
          /\ failed' = [failed EXCEPT ![r] = "late"]
    /\ seen' = [seen EXCEPT ![r] = <<>>]
    /\ Goto(r, "releasing")
    /\ UNCHANGED <<scenario, admitted, queueVars, sessionVars, history, compaction, compactMu,
                   compSnap, raced, storeVars, out, evictVars>>

\* The goroutine of compactHistoryAsync takes compactMu and a raw snapshot.
CompactionStarts(r) ==
    /\ May("compact")
    /\ compaction[r] = "scheduled" /\ compactMu[obj[r]] = NoRun
    /\ compactMu' = [compactMu EXCEPT ![obj[r]] = r]
    /\ compSnap' = [compSnap EXCEPT ![r] = history[obj[r]]]
    /\ compaction' = [compaction EXCEPT ![r] = "summarising"]
    /\ UNCHANGED <<scenario, admitted, pc, queueVars, sessionVars, history, seen, raced,
                   failed, storeVars, out, evictVars>>

\* lastNExchanges(messages, 2): the tail from the second to last user message.
LastExchanges(h) ==
    LET users == {i \in DOMAIN h : h[i].kind \in {"ask", "summary"}}
        from  == CHOOSE i \in users : Cardinality({j \in users : j > i}) = 1
    IN  IF Cardinality(users) <= 2 THEN h ELSE SubSeq(h, from, Len(h))

\* Mutated form: what a failed summary returned replaces the history.
CompactionEndsRegardless(r) ==
    LET o == obj[r]
        summary == [kind |-> "summary", of |-> Covered(compSnap[r])]
    IN  /\ compaction[r] = "summarising"
        /\ compaction' = [compaction EXCEPT ![r] = "over"]
        /\ compactMu' = [compactMu EXCEPT ![o] = NoRun]
        /\ compSnap' = [compSnap EXCEPT ![r] = <<>>]
        /\ \/ /\ history' = [history EXCEPT ![o] = <<summary>> \o LastExchanges(compSnap[r])]
              /\ raced' = raced \cup {x \in Run : pc[x] = "model" /\ obj[x] = o}
           \/ history' = [history EXCEPT ![o] = <<>>] /\ UNCHANGED raced
        /\ UNCHANGED <<scenario, admitted, pc, queueVars, sessionVars, seen, failed, storeVars,
                       out, evictVars>>

\* The strategy is over: a summary and the tail replace the history, or the
\* history was within budget (or the summary failed) and nothing changes.
CompactionEnds(r) ==
    LET o == obj[r]
        summary == [kind |-> "summary", of |-> Covered(compSnap[r])]
    IN  /\ compaction[r] = "summarising"
        /\ compaction' = [compaction EXCEPT ![r] = "over"]
        /\ compactMu' = [compactMu EXCEPT ![o] = NoRun]
        /\ compSnap' = [compSnap EXCEPT ![r] = <<>>]
        /\ \/ /\ history' = [history EXCEPT ![o] = <<summary>> \o LastExchanges(compSnap[r])]
              /\ raced' = raced \cup {x \in Run : pc[x] = "model" /\ obj[x] = o}
           \/ UNCHANGED <<history, raced>>
        /\ UNCHANGED <<scenario, admitted, pc, queueVars, sessionVars, seen, failed, storeVars,
                       out, evictVars>>

-----------------------------------------------------------------------------
(* The end of the turn.                                                    *)

\* BindPersistToThisTurn: the "Pong." of a frame is not written once the newest
\* user row is an ask of another kind, whoever that row belongs to.
Overtaken(r) ==
    /\ ModeOf(r) = "ws" /\ KindOf(r) = "ping"
    /\ lastAsk \notin {NoRun, r} /\ KindOf(lastAsk) # "ping"

\* The answer rows persistAccumulated of runWSChat may write: what was said, and
\* after an error possibly nothing or a line about the error.  A ping always has
\* its "Pong." to say, other turns nothing before the model was asked.
AnswerRows(r) ==
    LET silent == IF ctx[r] = "cancelled" THEN {} ELSE {"error"} IN
    CASE failed[r] = "no"                           -> {{"reply"}}
      [] failed[r] # "no" /\ KindOf(r) = "ping"     -> {{"reply"}}
      [] failed[r] = "early" /\ KindOf(r) # "ping"  -> {silent}
      [] OTHER                                      -> {silent, {"reply"}}

\* The rows of the run at its end: persistAccumulated and its two smaller
\* siblings, which write nothing after an error.
RowsToStore(r) ==
    CASE ModeOf(r) # "ws" /\ failed[r] # "no" -> {{}}
      [] ModeOf(r) = "follow" /\ failed[r] = "no" -> {{"reply"}}
      [] ModeOf(r) = "ws" /\ Overtaken(r) ->
             {IF failed[r] = "no" \/ ctx[r] = "cancelled" THEN {} ELSE {"ask", "error"}}
      [] OTHER -> {{"ask"} \cup rows : rows \in AnswerRows(r)}

\* Mutated form: the ask is not written again when the write at accept failed.
PersistsAnswerOnly(r) ==
    /\ pc[r] = "persisting"
    /\ \E rows \in RowsToStore(r) : stored' = [stored EXCEPT ![r] = @ \cup (rows \ {"ask"})]
    /\ Goto(r, "emitting")
    /\ UNCHANGED <<scenario, admitted, queueVars, sessionVars, historyVars, failed, out,
                   lastAsk, evictVars>>

PersistAccumulated(r) ==
    /\ pc[r] = "persisting"
    /\ \E rows \in RowsToStore(r) :
          /\ stored' = [stored EXCEPT ![r] = @ \cup rows]
          /\ lastAsk' = IF "ask" \in rows \ stored[r] THEN r ELSE lastAsk
    /\ Goto(r, "emitting")
    /\ UNCHANGED <<scenario, admitted, queueVars, sessionVars, historyVars, failed, out, evictVars>>

\* The terminal event: done, done with cancelled, error (500 for a post,
\* follow_up_cancelled for a follow-up).
EmitDone(r) ==
    /\ pc[r] = "emitting"
    /\ out' = [out EXCEPT ![r] =
                 CASE failed[r] = "no" -> "done"
                   [] failed[r] # "no" /\ ModeOf(r) = "ws" /\ ctx[r] = "cancelled" -> "cancelled"
                   [] OTHER -> "error"]
    /\ Goto(r, IF ModeOf(r) = "follow" THEN "over" ELSE "ending")
    /\ UNCHANGED <<scenario, admitted, queueVars, sessionVars, historyVars, failed, storeVars, evictVars>>

-----------------------------------------------------------------------------
(* evictIdleSessions.                                                      *)

\* Two hours pass in which no turn is under way.
GrowsIdle ==
    /\ May("evict")
    /\ ~idleLong /\ ~evictee /\ live # NoObj /\ evictions < MaxEvictions
    /\ \A r \in Run : pc[r] \in {"new", "over"}
    /\ idleLong' = TRUE
    /\ UNCHANGED <<scenario, admitted, pc, queueVars, sessionVars, historyVars, failed,
                   storeVars, out, evictee, evictions>>

\* The sweep reads running and lastUsed of the object it found in the map.
EvictionPicks ==
    /\ idleLong /\ ~evictee /\ live # NoObj
    /\ holder[live] = NoRun
    /\ evictee' = TRUE
    /\ UNCHANGED <<scenario, admitted, pc, queueVars, sessionVars, historyVars, failed,
                   storeVars, out, idleLong, evictions>>

\* Later, under the orchestrator's lock, it deletes by id what it picked.
EvictionDeletes ==
    /\ evictee
    /\ live' = NoObj
    /\ evictee' = FALSE /\ idleLong' = FALSE /\ evictions' = evictions + 1
    /\ UNCHANGED <<scenario, admitted, pc, queueVars, obj, holder, idleOn, historyVars,
                   failed, storeVars, out>>

-----------------------------------------------------------------------------
RunStep(r) ==
    \/ Accept(r) \/ AwaitChatTurn(r) \/ FollowUpSettles(r)
    \/ Lookup(r) \/ TryBeginRun(r) \/ SlotTaken(r) \/ WaitForIdle(r) \/ QueueBusy(r)
    \/ FastAnswer(r) \/ SnapshotHistory(r) \/ ModelAnswers(r) \/ TurnFails(r) \/ EndRun(r)
    \/ PersistAccumulated(r) \/ EmitDone(r) \/ EndChatRun(r)

Compaction(r) == CompactionStarts(r) \/ CompactionEnds(r)
Eviction == GrowsIdle \/ EvictionPicks \/ EvictionDeletes

Next ==
    \/ Arrive
    \/ \E r \in Run : RunStep(r)
    \/ \E r \in Run : Compaction(r)
    \/ ChatCancel
    \/ Eviction

\* The Go scheduler runs every goroutine that can run; the model answers or
\* fails (its HTTP client has a time limit); a summary has three minutes.
\* Nobody has to send, cancel or wait for a ceiling.
Fairness == \A r \in Run : WF_vars(RunStep(r)) /\ WF_vars(CompactionEnds(r))

Spec == Init /\ [][Next]_vars
FairSpec == Spec /\ Fairness

-----------------------------------------------------------------------------
(* Every variable stays within its type; a registered run is an admitted one. *)
TypeOK ==
    /\ scenario \in Scenario
    /\ admitted \in 0 .. NumRuns
    /\ pc \in [Run -> PC]
    /\ reg \in 0 .. admitted
    /\ depth \in 0 .. admitted
    /\ waitOn \in [Run -> 0 .. NumRuns]
    /\ ctx \in [Run -> {"live", "cancelled", "ended"}]
    /\ late \subseteq Run
    /\ live \in Obj \cup {NoObj}
    /\ obj \in [Run -> Obj \cup {NoObj}]
    /\ holder \in [Obj -> 0 .. NumRuns]
    /\ idleOn \in [Run -> 0 .. NumRuns]
    /\ failed \in [Run -> {"no", "early", "late"}]
    /\ \A o \in Obj : \A i \in DOMAIN history[o] :
          history[o][i] \in [kind : MsgKind, of : SUBSET Run]
    /\ compaction \in [Run -> {"no", "scheduled", "summarising", "over"}]
    /\ compactMu \in [Obj -> 0 .. NumRuns]
    /\ raced \subseteq Run
    /\ stored \in [Run -> SUBSET {"ask", "reply", "error"}]
    /\ lastAsk \in 0 .. admitted
    /\ out \in [Run -> {"none", "done", "cancelled", "error"}]
    /\ idleLong \in BOOLEAN /\ evictee \in BOOLEAN /\ evictions \in 0 .. MaxEvictions

Chat(r) == r <= admitted /\ ModeOf(r) # "follow"

\* The run has got past the queue: it asks for the slot, works or is over.
Begun(r) == pc[r] \notin {"new", "accepting", "queued", "settling"}

(* "A fast burst of messages can never race the Go scheduler into running  *)
(* turns out of order" (ws.go:1764): a chat run gets past the queue while  *)
(* an earlier one is unfinished only if a chat_cancel took one of the runs *)
(* between them out of the chain, or one of them hit the ceiling.          *)
FifoUnlessDisturbed ==
    \A r, s \in Run :
        (r < s /\ Chat(r) /\ Chat(s) /\ Begun(s) /\ pc[r] # "over")
            => \E c \in r .. s : ctx[c] = "cancelled" \/ c \in late

(* The depth the "I'm behind" notice quotes is the number of chat runs that *)
(* are admitted and not over (ws.go:1616), and a run that is registered, so *)
(* that chat_cancel would answer "cancelled", is unfinished and the newest. *)
QueueAccounted ==
    /\ depth = Cardinality({r \in Run : Chat(r) /\ pc[r] # "over"})
    /\ reg # NoRun => /\ Chat(reg) /\ pc[reg] # "over"
                      /\ \A r \in Run : Chat(r) => r <= reg

(* "Only one agentic loop may run at a time per session - concurrent calls *)
(* would interleave history appends" (agent_dispatcher.go:1084): on one    *)
(* Session object, what the model answers to is still the whole history    *)
(* when its answer is appended, unless a compaction got in between.        *)
AnswersItsHistory ==
    \A r \in Run : (pc[r] = "model" /\ r \notin raced) => history[obj[r]] = seen[r]

(* No concluded turn leaves the history of its Session object, in full or  *)
(* in a summary, except one that was appended while a compaction worked on *)
(* an older snapshot or that itself answered to a history just replaced    *)
(* (chat_engine.go:339): trivial asks and late compactions get past the    *)
(* barrier in snapshotHistory.                                             *)
TurnsKept ==
    \A r \in Run : compaction[r] # "no" => r \in Covered(history[obj[r]]) \cup raced

(* "Persist BEFORE signaling completion" (ws.go:2476): a client that is    *)
(* told done finds the ask and the reply in the store, and one that is     *)
(* told of an error over the WebSocket finds the ask, even when the write  *)
(* at accept had failed.  The exception is a ping that found a newer ask   *)
(* in the store: its answer is taken for a leftover (ws.go:2408).          *)
StoredBeforeTold ==
    \A r \in Run :
        /\ out[r] = "done" =>
              \/ "reply" \in stored[r] /\ (Chat(r) => "ask" \in stored[r])
              \/ /\ KindOf(r) = "ping" /\ ModeOf(r) = "ws"
                 /\ \E n \in Run \ {r} : Chat(n) /\ KindOf(n) # "ping" /\ "ask" \in stored[n]
        /\ out[r] = "error" /\ ModeOf(r) = "ws" => "ask" \in stored[r]

(* "A deep FIFO backlog is queued, never dropped" (ws.go:2194): every turn *)
(* that was asked for ends with a terminal event, whatever is cancelled,   *)
(* times out, fails, is compacted or evicted around it.                    *)
EveryTurnEnds == \A r \in Run : pc[r] # "new" ~> out[r] # "none" /\ pc[r] = "over"

(* "Within a session, the agent already has full context from earlier in   *)
(* the same conversation" (docs/features/sessions.md:45): an answer in the    *)
(* history comes after the ask it answers.                                 *)
HistoryKeepsAsks ==
    \A o \in Obj : \A i \in DOMAIN history[o] :
        history[o][i].kind = "reply" =>
            \E j \in 1 .. i - 1 : history[o][j] = [kind |-> "ask", of |-> history[o][i].of]
=============================================================================
