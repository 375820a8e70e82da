--------------------------- MODULE SessionStream ---------------------------
(***************************************************************************)
(* The event stream of one session from the server's hub (server/ws.go) to *)
(* one browser tab (web/src/composables/useHuginnWS.ts): sequence numbers, *)
(* the replay ring, the bounded send queue with its drops and eviction,    *)
(* disconnects, server restarts, the resume handshake, and the tab's       *)
(* reordering buffer with its gap timer.                                   *)
(*                                                                         *)
(* A message is its sequence number and its epoch.  Two steps of one       *)
(* broadcast are apart in the code, and here: it is stamped and recorded   *)
(* under seqMu, then sent under the lock of the clients.                   *)
(***************************************************************************)
EXTENDS Integers, Sequences, FiniteSets

CONSTANTS
    Sender,          \* goroutines that broadcast to the session
    MaxSeq,          \* bound: messages of one epoch
    RingSize,        \* wsReplayBufferSize
    SendBuf,         \* wsSendBufSize
    MaxDrops,        \* wsMaxDrops
    SeqBufferMax,    \* SEQ_BUFFER_MAX of the tab
    MaxDisconnects,  \* bound: connections that break
    MaxRestarts      \* bound: server restarts

ASSUME StreamConstants ==
    /\ MaxSeq \in Nat \ {0} /\ RingSize \in Nat \ {0} /\ SendBuf \in Nat \ {0}
    /\ MaxDrops \in Nat \ {0} /\ SeqBufferMax \in Nat \ {0}
    /\ MaxDisconnects \in Nat /\ MaxRestarts \in Nat

VARIABLES
    epoch,        \* serverEpoch
    seq,          \* WSHub.sessionSeq[session]
    ring,         \* WSHub.sessionReplay[session]: slots, next write, wrapped
    stamped,      \* the message a sender has stamped and not yet sent
    up,           \* the connection exists and the hub has it registered
    send,         \* wsClient.send, then the wire: one queue in order
    drops,        \* wsClient.consecutiveDrops
    resume,       \* the resume request under way: none, or last_seq and epoch
    replay,       \* what the resume handler still has to send
    asked,        \* the resume request it answers
    tab,          \* the tab's state of the session
    resumePending,\* the tab has lost a connection since it last resumed
    anchor,       \* first message of the tab's epoch that it dispatched, 0 if none
    dispatched,   \* messages of the tab's epoch in the order its handlers got them
    told,         \* messages it warned about, or covered by a history fetch
    hushed,       \* messages it skipped within ten seconds of a warning, without one
    warned,       \* it has shown an ordering warning, in this epoch or an earlier one
    disconnects, restarts

hubVars  == <<epoch, seq, ring, stamped>>
connVars == <<up, send, drops, resume, replay, asked>>
tabVars  == <<tab, resumePending, anchor, dispatched, told, hushed, warned>>
vars == <<hubVars, connVars, tabVars, disconnects, restarts>>

Seq0    == 0 .. MaxSeq
Slot    == 0 .. RingSize - 1
Epoch   == 1 .. MaxRestarts + 1
NoEpoch == 0
Nobody  == [last |-> -1, epoch |-> NoEpoch]

Event(s)      == [type |-> "event", seq |-> s, epoch |-> epoch, gap |-> FALSE]
ResumeOk(s, g) == [type |-> "resume_ok", seq |-> s, epoch |-> epoch, gap |-> g]
Frame == [type : {"event", "resume_ok"}, seq : Seq0, epoch : Epoch, gap : BOOLEAN]

EmptyRing == [buf |-> [i \in Slot |-> 0], next |-> 0, full |-> FALSE]

-----------------------------------------------------------------------------
Init ==
    /\ epoch = 1 /\ seq = 0 /\ ring = EmptyRing
    /\ stamped = [b \in Sender |-> 0]
    /\ up = FALSE /\ send = <<>> /\ drops = 0
    /\ resume = Nobody /\ replay = <<>> /\ asked = Nobody
    /\ tab = [epoch |-> NoEpoch, last |-> 0, buffer |-> {}, timer |-> FALSE]
    /\ resumePending = FALSE
    /\ anchor = 0 /\ dispatched = <<>>
    /\ told = {} /\ hushed = {} /\ warned = FALSE
    /\ disconnects = 0 /\ restarts = 0

-----------------------------------------------------------------------------
(* The replay ring.                                                        *)

Added(r, s) ==
    LET n == (r.next + 1) % RingSize
    IN  [buf |-> [r.buf EXCEPT ![r.next] = s], next |-> n, full |-> r.full \/ n = 0]

\* Slots from the oldest message on, as since walks them.
Start(r)  == IF r.full THEN r.next ELSE 0
Length(r) == IF r.full THEN RingSize ELSE r.next
Nth(r, i) == r.buf[(Start(r) + i - 1) % RingSize]

\* The messages after last, in the order of the walk.
Since(r, last) ==
    LET kept == {i \in 1 .. Length(r) : Nth(r, i) > last}
        Kth(k) == CHOOSE i \in kept : Cardinality({j \in kept : j <= i}) = k
    IN  [k \in 1 .. Cardinality(kept) |-> Nth(r, Kth(k))]

\* Mutated form: the oldest message is looked for in the first slot after the wrap too.
OldestInFirstSlot(r) == IF r.next = 0 THEN 0 ELSE r.buf[0]

OldestSeq(r) == IF r.full THEN r.buf[r.next] ELSE IF r.next = 0 THEN 0 ELSE r.buf[0]

\* The second result of replaySince: the ring cannot cover what was missed.
ReplayGap(r, current, last) ==
    IF last >= current THEN last > current
    ELSE OldestSeq(r) = 0 \/ OldestSeq(r) > last + 1

Replayed(r, current, last) == IF last >= current THEN <<>> ELSE Since(r, last)

-----------------------------------------------------------------------------
(* The hub.                                                                *)

\* stampAndRecord, under seqMu.
Stamp(b) ==
    /\ stamped[b] = 0 /\ seq < MaxSeq
    /\ seq' = seq + 1
    /\ ring' = Added(ring, seq')
    /\ stamped' = [stamped EXCEPT ![b] = seq']
    /\ UNCHANGED <<epoch, connVars, tabVars, disconnects, restarts>>

\* trySendOrEvict to a registered client: a full queue costs the message.
Send(b) ==
    /\ stamped[b] # 0
    /\ stamped' = [stamped EXCEPT ![b] = 0]
    /\ IF ~up
         THEN UNCHANGED <<send, drops>>
         ELSE IF Len(send) < SendBuf
           THEN send' = Append(send, Event(stamped[b])) /\ drops' = 0
           ELSE drops' = drops + 1 /\ UNCHANGED send
    /\ UNCHANGED <<epoch, seq, ring, up, resume, replay, asked, tabVars, disconnects, restarts>>

\* broadcast with broadcastC full: stamped and recorded, never sent.
DropAtHub ==
    /\ seq < MaxSeq
    /\ seq' = seq + 1
    /\ ring' = Added(ring, seq')
    /\ UNCHANGED <<epoch, stamped, connVars, tabVars, disconnects, restarts>>

\* What the end of a connection leaves: the queue is gone, the tab has stopped
\* its gap timer (its buffer stays) and will resume.
ConnectionLost ==
    /\ up' = FALSE /\ send' = <<>> /\ drops' = 0
    /\ resume' = Nobody /\ replay' = <<>> /\ asked' = Nobody
    /\ tab' = [tab EXCEPT !.timer = FALSE]
    /\ resumePending' = TRUE
    /\ UNCHANGED <<anchor, dispatched, told, hushed, warned>>

Disconnect ==
    /\ up /\ disconnects < MaxDisconnects
    /\ disconnects' = disconnects + 1
    /\ ConnectionLost
    /\ UNCHANGED <<hubVars, restarts>>

\* The goroutine that evicts a slow client (close code 4002).
EvictSlow ==
    /\ up /\ drops >= MaxDrops
    /\ ConnectionLost
    /\ UNCHANGED <<hubVars, disconnects, restarts>>

\* A new process: a new epoch, counters and ring from nothing.
Restart ==
    /\ restarts < MaxRestarts
    /\ restarts' = restarts + 1
    /\ epoch' = epoch + 1 /\ seq' = 0 /\ ring' = EmptyRing
    /\ stamped' = [b \in Sender |-> 0]
    /\ IF up THEN ConnectionLost ELSE UNCHANGED <<connVars, tabVars>>
    /\ UNCHANGED disconnects

\* handleWebSocket registers the client before the tab's onopen can run, which
\* asks to resume from what was dispatched so far.
Connect ==
    /\ ~up
    /\ up' = TRUE
    /\ resume' = IF resumePending THEN [last |-> tab.last, epoch |-> tab.epoch] ELSE Nobody
    /\ resumePending' = FALSE
    /\ UNCHANGED <<hubVars, send, drops, replay, asked, tab, anchor, dispatched, told,
                   hushed, warned, disconnects, restarts>>

\* Mutated form: the client's epoch is not compared.
HandleResumeAnyEpoch ==
    /\ up /\ resume # Nobody
    /\ LET restarted == FALSE
           missed == IF restarted THEN <<>> ELSE Replayed(ring, seq, resume.last)
           gap == restarted \/ ReplayGap(ring, seq, resume.last)
       IN  replay' = Append([i \in 1 .. Len(missed) |-> Event(missed[i])], ResumeOk(seq, gap))
    /\ resume' = Nobody /\ asked' = resume
    /\ UNCHANGED <<hubVars, up, send, drops, tabVars, disconnects, restarts>>

\* The "resume" frame: replaySince under seqMu, then one send per message on the
\* read pump, closed by resume_ok.
HandleResume ==
    /\ up /\ resume # Nobody
    /\ LET restarted == resume.epoch # NoEpoch /\ resume.epoch # epoch
           missed == IF restarted THEN <<>> ELSE Replayed(ring, seq, resume.last)
           gap == restarted \/ ReplayGap(ring, seq, resume.last)
       IN  replay' = Append([i \in 1 .. Len(missed) |-> Event(missed[i])], ResumeOk(seq, gap))
    /\ resume' = Nobody /\ asked' = resume
    /\ UNCHANGED <<hubVars, up, send, drops, tabVars, disconnects, restarts>>

\* safeSend blocks while the queue is full.
ReplayNext ==
    /\ up /\ replay # <<>> /\ Len(send) < SendBuf
    /\ send' = Append(send, Head(replay))
    /\ replay' = Tail(replay)
    /\ UNCHANGED <<hubVars, up, drops, resume, asked, tabVars, disconnects, restarts>>

-----------------------------------------------------------------------------
(* The tab.                                                                *)

MinOf(S) == CHOOSE s \in S : \A t \in S : s <= t

\* flushBufferedInOrder: the last message that is then contiguous.
FlushedTo(last, buffer) ==
    CHOOSE n \in last .. MaxSeq : (last + 1) .. n \subseteq buffer /\ n + 1 \notin buffer

\* Dispatches from + 1 on: what is in hand, then what the buffer continues with.
DispatchFrom(from, buffer) ==
    LET last == FlushedTo(from, buffer)
        rest == buffer \ ((from + 1) .. last)
    IN  /\ tab' = [tab EXCEPT !.last = last, !.buffer = rest, !.timer = @ /\ rest # {}]
        /\ dispatched' = dispatched \o [i \in 1 .. last - from |-> from + i]

\* dispatchOrderingWarning shows nothing if the last warning is less than ten
\* seconds old, which any earlier warning may be.
Warn(skipped) ==
    \/ /\ told' = told \cup skipped /\ warned' = TRUE
       /\ UNCHANGED hushed
    \/ /\ warned
       /\ hushed' = hushed \cup skipped
       /\ UNCHANGED <<told, warned>>

NewEpoch(m) ==
    /\ tab' = [epoch |-> m.epoch, last |-> m.seq, buffer |-> {}, timer |-> FALSE]
    /\ anchor' = m.seq /\ dispatched' = <<m.seq>> /\ told' = {} /\ hushed' = {}
    /\ UNCHANGED warned

\* Mutated form: the buffer is not looked at when the hole closes.
InTurnUnflushed(m) ==
    /\ tab' = [tab EXCEPT !.last = m.seq] /\ dispatched' = Append(dispatched, m.seq)
    /\ UNCHANGED <<anchor, told, hushed, warned>>

InTurn(m) ==
    /\ DispatchFrom(tab.last, tab.buffer \cup {m.seq})
    /\ UNCHANGED <<anchor, told, hushed, warned>>

\* What a full buffer gives up for one more message.
GivenUp == IF Cardinality(tab.buffer) >= SeqBufferMax THEN {MinOf(tab.buffer)} ELSE {}

\* Mutated form: the gap timer is not started.
TooEarlyUnscheduled(m) ==
    /\ tab' = [tab EXCEPT !.buffer = (@ \ GivenUp) \cup {m.seq}]
    /\ IF GivenUp = {} THEN UNCHANGED <<told, hushed, warned>> ELSE Warn(GivenUp)
    /\ UNCHANGED <<anchor, dispatched>>

\* Too early: it waits in the buffer, at the expense of the oldest if that is full.
TooEarly(m) ==
    /\ tab' = [tab EXCEPT !.buffer = (@ \ GivenUp) \cup {m.seq}, !.timer = TRUE]
    /\ IF GivenUp = {} THEN UNCHANGED <<told, hushed, warned>> ELSE Warn(GivenUp)
    /\ UNCHANGED <<anchor, dispatched>>

\* resume_ok has no seq of its own; with a gap the app fetches the history.
Resumed(m) ==
    /\ told' = IF ~m.gap THEN told
               ELSE told \cup (IF m.epoch = tab.epoch THEN 1 .. m.seq ELSE 1 .. MaxSeq)
    /\ UNCHANGED <<tab, anchor, dispatched, hushed, warned>>

\* Mutated form: a message the tab is past is dispatched again.
DeliverRepeats ==
    /\ up /\ send # <<>>
    /\ send' = Tail(send)
    /\ LET m == Head(send) IN
       CASE m.type = "resume_ok"      -> Resumed(m)
         [] m.type = "event" /\ m.epoch # tab.epoch -> NewEpoch(m)
         [] m.type = "event" /\ m.epoch = tab.epoch /\ m.seq = tab.last + 1 -> InTurn(m)
         [] m.type = "event" /\ m.epoch = tab.epoch /\ m.seq > tab.last + 1 -> TooEarly(m)
         [] OTHER -> dispatched' = Append(dispatched, m.seq)
                      /\ UNCHANGED <<tab, anchor, told, hushed, warned>>
    /\ UNCHANGED <<hubVars, up, drops, resume, replay, asked, resumePending, disconnects, restarts>>

\* deliverOrBuffer.
Deliver ==
    /\ up /\ send # <<>>
    /\ send' = Tail(send)
    /\ LET m == Head(send) IN
       CASE m.type = "resume_ok"      -> Resumed(m)
         [] m.type = "event" /\ m.epoch # tab.epoch -> NewEpoch(m)
         [] m.type = "event" /\ m.epoch = tab.epoch /\ m.seq = tab.last + 1 -> InTurn(m)
         [] m.type = "event" /\ m.epoch = tab.epoch /\ m.seq > tab.last + 1 -> TooEarly(m)
         [] OTHER -> UNCHANGED <<tab, anchor, dispatched, told, hushed, warned>>
    /\ UNCHANGED <<hubVars, up, drops, resume, replay, asked, resumePending, disconnects, restarts>>

\* Mutated form: the hole is skipped without a word.
GapTimerSilent ==
    LET first == MinOf(tab.buffer) IN
    /\ tab.timer
    /\ IF tab.buffer = {} \/ first <= tab.last + 1
         THEN tab' = [tab EXCEPT !.timer = FALSE] /\ UNCHANGED dispatched
         ELSE DispatchFrom(first - 1, tab.buffer)
    /\ UNCHANGED <<hubVars, connVars, resumePending, anchor, told, hushed, warned,
                   disconnects, restarts>>

\* scheduleGapRecovery's timer: give up on the hole, with a warning if none is fresh.
GapTimer ==
    LET first == MinOf(tab.buffer) IN
    /\ tab.timer
    /\ IF tab.buffer = {} \/ first <= tab.last + 1
         THEN /\ tab' = [tab EXCEPT !.timer = FALSE]
              /\ UNCHANGED <<dispatched, told, hushed, warned>>
         ELSE /\ DispatchFrom(first - 1, tab.buffer)
              /\ Warn((tab.last + 1) .. (first - 1))
    /\ UNCHANGED <<hubVars, connVars, resumePending, anchor, disconnects, restarts>>

-----------------------------------------------------------------------------
Next ==
    \/ \E b \in Sender : Stamp(b) \/ Send(b)
    \/ DropAtHub
    \/ Disconnect \/ EvictSlow \/ Restart
    \/ Connect \/ HandleResume \/ ReplayNext \/ Deliver \/ GapTimer

\* Goroutines that can run do run, the tab's event loop and its timers too, and
\* it never stops trying to reconnect.  Nothing has to be broadcast or to break.
Fairness ==
    /\ \A b \in Sender : WF_vars(Send(b))
    /\ WF_vars(EvictSlow) /\ WF_vars(Connect) /\ WF_vars(HandleResume)
    /\ WF_vars(ReplayNext) /\ WF_vars(Deliver) /\ WF_vars(GapTimer)

Spec == Init /\ [][Next]_vars
FairSpec == Spec /\ Fairness

-----------------------------------------------------------------------------
(* What waits in the tab's buffer is ahead of a hole.  A message the tab   *)
(* is past would stop the gap timer for good (useHuginnWS.ts:225).         *)
BufferIsAhead == \A s \in tab.buffer : s > tab.last + 1

(* Every variable stays within its type, the queue within its capacity and *)
(* the tab's buffer ahead of a hole (ws.go:357, useHuginnWS.ts:207).       *)
TypeOK ==
    /\ epoch \in Epoch /\ seq \in Seq0
    /\ ring \in [buf : [Slot -> Seq0], next : Slot, full : BOOLEAN]
    /\ stamped \in [Sender -> Seq0]
    /\ up \in BOOLEAN /\ drops \in Nat
    /\ send \in Seq(Frame) /\ Len(send) <= SendBuf /\ replay \in Seq(Frame)
    /\ resume \in [last : Seq0, epoch : Epoch \cup {NoEpoch}] \cup {Nobody}
    /\ tab \in [epoch : Epoch \cup {NoEpoch}, last : Seq0, buffer : SUBSET (1 .. MaxSeq),
                timer : BOOLEAN]
    /\ BufferIsAhead
    /\ resumePending \in BOOLEAN
    /\ asked \in [last : Seq0, epoch : Epoch \cup {NoEpoch}] \cup {Nobody}
    /\ anchor \in Seq0 /\ dispatched \in Seq(1 .. MaxSeq) /\ told \subseteq 1 .. MaxSeq
    /\ hushed \subseteq 1 .. MaxSeq /\ warned \in BOOLEAN
    /\ disconnects \in 0 .. MaxDisconnects /\ restarts \in 0 .. MaxRestarts

(* Whatever the client saw last, replaySince returns every later message   *)
(* the ring still holds, oldest first and without a hole, and says gap     *)
(* exactly when that is not everything it missed (ws.go:278-297).          *)
ReplayIsExact ==
    \A last \in 0 .. seq :
        LET got == Replayed(ring, seq, last)
            lost == seq - last - Len(got)
        IN  /\ lost >= 0
            /\ \A i \in DOMAIN got : got[i] = last + lost + i
            /\ ReplayGap(ring, seq, last) <=> lost > 0
            /\ lost > 0 => Len(got) = RingSize

Dispatched == {dispatched[i] : i \in DOMAIN dispatched}

(* Behind the first message of an epoch the tab passes nothing without a   *)
(* word, for all the reordering between senders, duplicates of live and     *)
(* replayed messages, drops and skips: what it is past it has dispatched,   *)
(* refetched or warned about, or it skipped it where it warns, within ten   *)
(* seconds of a warning shown before (useHuginnWS.ts:182-192, 224-232).     *)
SkipsAreWarned ==
    /\ \A s \in anchor .. tab.last : s = 0 \/ s \in Dispatched \cup told \cup hushed
    /\ hushed # {} => warned

(* The handlers get each message of an epoch once and in the order of its  *)
(* stamps, although senders overtake each other between stamp and send and *)
(* a replay repeats what also came live.                                   *)
DispatchedInOrder ==
    \A i, j \in DOMAIN dispatched : i < j => dispatched[i] < dispatched[j]

\* The next frame closes a resume and reports no gap.
ResumeCloses ==
    up /\ send # <<>> /\ Head(send).type = "resume_ok" /\ ~Head(send).gap

\* What was stamped and not dispatched when the tab asked.
Missed == (IF asked.epoch = Head(send).epoch THEN asked.last + 1 ELSE 1) .. Head(send).seq

(* "Messages with Seq > last_seq are re-sent in order" (ws.go:1790): a tab *)
(* that knew the epoch and is told of no gap has by then dispatched all     *)
(* that was stamped since it lost the connection, save what it gave up      *)
(* where it warns, in the timer or at a full buffer; a warning there may be *)
(* hushed by one it showed less than ten seconds before.                    *)
ResumeCatchesUp ==
    ResumeCloses /\ asked.epoch # NoEpoch
        => Missed \subseteq Dispatched \cup told \cup hushed

(* A message that reached the tab out of order does not wait in the buffer  *)
(* for ever: it is dispatched, given up for a later one, or covered by a    *)
(* warning or a refetch ("to keep the timeline live", useHuginnWS.ts:227).  *)
GapsHeal ==
    \A s \in 1 .. MaxSeq : s \in tab.buffer ~> s \notin tab.buffer \/ s \in told

=============================================================================
