--------------------------- MODULE DeliveryQueue ---------------------------
(***************************************************************************)
(* The durable retry queue for webhook and email deliveries:               *)
(* internal/scheduler/delivery_queue.go over delivery_queue_store.go.      *)
(* Workflow runs enqueue deliveries that failed, the background worker     *)
(* sweeps the due ones, and the HTTP API dismisses entries or forces a     *)
(* retry, which starts a sweep of its own in another goroutine.            *)
(*                                                                         *)
(* A step is one SQLite statement (or one transaction) with the            *)
(* computation around it, or the call to the deliverer.  Nothing is locked *)
(* between two steps, and a sweep works on the copies it has read.  Time   *)
(* is two facts that elapse: a retry becomes due, and the probe window of  *)
(* an endpoint passes.  ListDue's LIMIT of 50 and its order by             *)
(* next_retry_at are left out: fewer entries than that, in any order.      *)
(***************************************************************************)
EXTENDS Naturals, FiniteSets

CONSTANTS
  Entry,        \* rows of delivery_queue, by id
  Key,          \* (workflow, endpoint) pairs, the rows of endpoint_health
  KeyOf,        \* the pair an entry belongs to
  Ticker,       \* the background worker
  Forced,       \* calls of ForceRetry, each with its own sweep
  MaxAttempts,  \* max_attempts of every entry
  circuitBreakThreshold,
  MaxCrashes    \* bound: how often the process dies and is restarted

Worker == Forced \cup {Ticker}

ASSUME DeliveryQueueAssumption ==
  /\ Entry # {} /\ KeyOf \in [Entry -> Key]
  /\ Ticker \notin Forced
  /\ MaxAttempts \in Nat \ {0} /\ circuitBreakThreshold \in Nat \ {0}
  /\ MaxCrashes \in Nat
  /\ IsFiniteSet(Forced)

VARIABLES
  row,      \* table delivery_queue: status, attempt_count, and whether next_retry_at has come
  health,   \* table endpoint_health; fresh: last_probe_at lies within the retry window
            \* (kept for open circuits only, nothing reads it on a closed one)
  sweep,    \* per worker: where it is and the copies it holds
  inbox,    \* entries whose escalation notification has been stored
  crashes

vars == <<row, health, sweep, inbox, crashes>>

Active    == {"pending", "retrying"}
RowStatus == Active \cup {"delivered", "failed", "superseded"}
Health    == [fails : Nat, circuit : {"closed", "open"}, fresh : BOOLEAN]

(* Mutated form: the zero value, whose circuit_state is the empty string. *)
ZeroHealth == [fails |-> 0, circuit |-> "", fresh |-> FALSE]

(* What GetHealth returns for a pair without a row, and what a success     *)
(* writes.                                                                 *)
Healthy == [fails |-> 0, circuit |-> "closed", fresh |-> FALSE]

\* "unused": the ForceRetry call has not been made yet; "over": it and its sweep ended
SweepPC == {"unused", "reset", "inspect", "close", "list", "next", "deliver", "sent",
            "heal", "unsent", "record", "escalate", "idle", "over"}

Exists(e) == row[e].status \in RowStatus

\* the entry of a worker that has none at hand
AnyEntry == CHOOSE e \in Entry : TRUE

AtRest(pc) == [pc |-> pc, todo |-> {}, entry |-> AnyEntry,
               count |-> 0, copy |-> Healthy, cut |-> FALSE]

Init ==
  /\ row    = [e \in Entry |-> [status |-> "none", count |-> 0, due |-> FALSE]]
  /\ health = [k \in Key |-> Healthy]
  /\ sweep  = [w \in Worker |-> AtRest(IF w = Ticker THEN "list" ELSE "unused")]
  /\ inbox = {} /\ crashes = 0

-----------------------------------------------------------------------------
(* The statements of DeliveryQueueStore. *)

SupersedeAndInsert(e) ==
  [x \in Entry |->
     IF x = e THEN [status |-> "pending", count |-> 0, due |-> TRUE]
     ELSE IF KeyOf[x] = KeyOf[e] /\ row[x].status \in Active
          THEN [row[x] EXCEPT !.status = "superseded"]
     ELSE row[x]]

(* UPDATE ... WHERE id = ?: nothing happens to a row that is gone. *)
UpdateAttempt(e, r) == [row EXCEPT ![e] = IF Exists(e) THEN r ELSE @]

(* Mutated form: next_retry_at alone decides. *)
DueByTime(e) == Exists(e) /\ row[e].due

Due(e) == row[e].status \in Active /\ row[e].due

ListDue == {<<e, row[e].count>> : e \in {x \in Entry : Due(x)}}

UpsertHealth(e, h) == [health EXCEPT ![KeyOf[e]] = h]

-----------------------------------------------------------------------------
(* A workflow run hands over a delivery that failed.  One transaction      *)
(* supersedes what is still waiting for the same pair and inserts the row. *)

Enqueue(e) ==
  /\ row[e].status = "none"
  /\ row' = SupersedeAndInsert(e)
  /\ UNCHANGED <<health, sweep, inbox, crashes>>

(* DELETE, whatever the status; a later UPDATE of the row changes nothing. *)
Dismiss(e) ==
  /\ Exists(e)
  /\ row' = [row EXCEPT ![e] = [status |-> "gone", count |-> 0, due |-> FALSE]]
  /\ UNCHANGED <<health, sweep, inbox, crashes>>

-----------------------------------------------------------------------------
(* ForceRetry, in the goroutine of the HTTP request. *)

ForceGets(w, e) ==
  /\ sweep[w].pc = "unused"
  /\ Exists(e)
  /\ sweep' = [sweep EXCEPT ![w].pc = "reset", ![w].entry = e, ![w].count = row[e].count]
  /\ UNCHANGED <<row, health, inbox, crashes>>

ForceResets(w) ==
  /\ sweep[w].pc = "reset"
  /\ row' = UpdateAttempt(sweep[w].entry,
              [status |-> "pending", count |-> sweep[w].count, due |-> TRUE])
  /\ sweep' = [sweep EXCEPT ![w].pc = "inspect"]
  /\ UNCHANGED <<health, inbox, crashes>>

ForceInspects(w) ==
  LET h == health[KeyOf[sweep[w].entry]] IN
  /\ sweep[w].pc = "inspect"
  /\ sweep' = [sweep EXCEPT ![w] = IF h.circuit = "open"
       THEN [@ EXCEPT !.pc = "close", !.copy = h] ELSE AtRest("list")]
  /\ UNCHANGED <<row, health, inbox, crashes>>

(* Mutated form: the count of consecutive failures survives the reset. *)
ForceClosesKeepsFailures(w) ==
  /\ sweep[w].pc = "close"
  /\ health' = UpsertHealth(sweep[w].entry,
                 [sweep[w].copy EXCEPT !.circuit = "closed", !.fresh = FALSE])
  /\ sweep' = [sweep EXCEPT ![w] = AtRest("list")]
  /\ UNCHANGED <<row, inbox, crashes>>

ForceCloses(w) ==
  /\ sweep[w].pc = "close"
  /\ health' = UpsertHealth(sweep[w].entry, Healthy)
  /\ sweep' = [sweep EXCEPT ![w] = AtRest("list")]
  /\ UNCHANGED <<row, inbox, crashes>>

(* The handler returns and net/http cancels the request's context, which   *)
(* the forced sweep runs under.  The worker's own context never ends.      *)
RequestEnds(w) ==
  /\ w \in Forced
  /\ sweep[w].pc \in SweepPC \ {"unused", "reset", "inspect", "close", "over"}
  /\ ~sweep[w].cut
  /\ sweep' = [sweep EXCEPT ![w].cut = TRUE]
  /\ UNCHANGED <<row, health, inbox, crashes>>

-----------------------------------------------------------------------------
(* RunOnce and attemptDelivery, the same for every sweep. *)

Done(w, pc) == [AtRest(pc) EXCEPT !.todo = sweep[w].todo, !.cut = sweep[w].cut]

ListsDue(w) ==
  /\ sweep[w].pc = "list"
  /\ sweep' = [sweep EXCEPT ![w].pc = "next", ![w].todo = ListDue]
  /\ UNCHANGED <<row, health, inbox, crashes>>

SweepEnds(w) ==
  /\ sweep[w].pc = "next"
  /\ sweep[w].todo = {} \/ sweep[w].cut
  /\ sweep' = [sweep EXCEPT ![w] = AtRest(IF w = Ticker THEN "idle" ELSE "over")]
  /\ UNCHANGED <<row, health, inbox, crashes>>

Ticks ==
  /\ sweep[Ticker].pc = "idle"
  /\ sweep' = [sweep EXCEPT ![Ticker].pc = "list"]
  /\ UNCHANGED <<row, health, inbox, crashes>>

(* Mutated form: an open circuit is never probed. *)
TooSoonAlways(k) == health[k].circuit = "open"

(* An open circuit is left alone until its probe window has passed. *)
TooSoon(k) == health[k].circuit = "open" /\ health[k].fresh

Skips(w, e, c) ==
  /\ sweep[w].pc = "next" /\ ~sweep[w].cut
  /\ <<e, c>> \in sweep[w].todo
  /\ TooSoon(KeyOf[e])
  /\ sweep' = [sweep EXCEPT ![w].todo = @ \ {<<e, c>>}]
  /\ UNCHANGED <<row, health, inbox, crashes>>

Takes(w, e, c) ==
  /\ sweep[w].pc = "next" /\ ~sweep[w].cut
  /\ <<e, c>> \in sweep[w].todo
  /\ ~TooSoon(KeyOf[e])
  /\ sweep' = [sweep EXCEPT ![w].pc = "deliver", ![w].todo = @ \ {<<e, c>>},
                            ![w].entry = e, ![w].count = c, ![w].copy = health[KeyOf[e]]]
  /\ UNCHANGED <<row, health, inbox, crashes>>

(* The endpoint accepts, or it refuses, does not answer in time, or the    *)
(* context is cancelled meanwhile.  After a success the whole health copy  *)
(* is overwritten, so it is dropped here.                                  *)
DeliverySucceeds(w) ==
  /\ sweep[w].pc = "deliver"
  /\ sweep' = [sweep EXCEPT ![w].pc = "sent", ![w].copy = Healthy]
  /\ UNCHANGED <<row, health, inbox, crashes>>

DeliveryFails(w) ==
  /\ sweep[w].pc = "deliver"
  /\ sweep' = [sweep EXCEPT ![w].pc = "unsent"]
  /\ UNCHANGED <<row, health, inbox, crashes>>

MarksDelivered(w) ==
  /\ sweep[w].pc = "sent"
  /\ row' = [row EXCEPT ![sweep[w].entry].status =
                IF Exists(sweep[w].entry) THEN "delivered" ELSE @]
  /\ sweep' = [sweep EXCEPT ![w].pc = "heal"]
  /\ UNCHANGED <<health, inbox, crashes>>

HealsEndpoint(w) ==
  /\ sweep[w].pc = "heal"
  /\ health' = UpsertHealth(sweep[w].entry, Healthy)
  /\ sweep' = [sweep EXCEPT ![w] = Done(w, "next")]
  /\ UNCHANGED <<row, inbox, crashes>>

RecordsFailure(w) ==
  LET n == sweep[w].copy.fails + 1
      open == sweep[w].copy.circuit = "open" \/ n >= circuitBreakThreshold IN
  /\ sweep[w].pc = "unsent"
  /\ health' = UpsertHealth(sweep[w].entry,
       [fails |-> n, fresh |-> open, circuit |-> IF open THEN "open" ELSE "closed"])
  /\ sweep' = [sweep EXCEPT ![w].pc = "record", ![w].count = @ + 1, ![w].copy = Healthy]
  /\ UNCHANGED <<row, inbox, crashes>>

(* Mutated form: the last attempt is rescheduled too. *)
ReschedulesOnceMore(w) ==
  /\ sweep[w].pc = "record"
  /\ sweep[w].count <= MaxAttempts
  /\ row' = UpdateAttempt(sweep[w].entry,
              [status |-> "retrying", count |-> sweep[w].count, due |-> FALSE])
  /\ sweep' = [sweep EXCEPT ![w] = Done(w, "next")]
  /\ UNCHANGED <<health, inbox, crashes>>

Reschedules(w) ==
  /\ sweep[w].pc = "record"
  /\ sweep[w].count < MaxAttempts
  /\ row' = UpdateAttempt(sweep[w].entry,
              [status |-> "retrying", count |-> sweep[w].count, due |-> FALSE])
  /\ sweep' = [sweep EXCEPT ![w] = Done(w, "next")]
  /\ UNCHANGED <<health, inbox, crashes>>

(* Mutated form: no escalation once the user has dismissed or replaced it. *)
ExhaustsQuietly(w) ==
  LET e == sweep[w].entry IN
  /\ sweep[w].pc = "record"
  /\ sweep[w].count >= MaxAttempts
  /\ row' = UpdateAttempt(e, [row[e] EXCEPT !.status = "failed", !.count = sweep[w].count])
  /\ sweep' = [sweep EXCEPT ![w] =
       IF row[e].status \in Active THEN [@ EXCEPT !.pc = "escalate"] ELSE Done(w, "next")]
  /\ UNCHANGED <<health, inbox, crashes>>

Exhausts(w) ==
  LET e == sweep[w].entry IN
  /\ sweep[w].pc = "record"
  /\ sweep[w].count >= MaxAttempts
  /\ row' = UpdateAttempt(e, [row[e] EXCEPT !.status = "failed", !.count = sweep[w].count])
  /\ sweep' = [sweep EXCEPT ![w].pc = "escalate"]
  /\ UNCHANGED <<health, inbox, crashes>>

Escalates(w) ==
  /\ sweep[w].pc = "escalate"
  /\ inbox' = inbox \cup {sweep[w].entry}
  /\ sweep' = [sweep EXCEPT ![w] = Done(w, "next")]
  /\ UNCHANGED <<row, health, crashes>>

-----------------------------------------------------------------------------
(* Time, and the end of the process: the tables survive, the sweeps do not, *)
(* and the worker begins with a sweep.                                      *)

RetryComesDue(e) ==
  /\ row[e].status \in Active /\ ~row[e].due
  /\ row' = [row EXCEPT ![e].due = TRUE]
  /\ UNCHANGED <<health, sweep, inbox, crashes>>

(* Copies of last_probe_at age with the table. *)
ProbeWindowPasses(k) ==
  /\ health[k].fresh \/ \E w \in Worker : KeyOf[sweep[w].entry] = k /\ sweep[w].copy.fresh
  /\ health' = [health EXCEPT ![k].fresh = FALSE]
  /\ sweep' = [w \in Worker |->
       IF KeyOf[sweep[w].entry] = k THEN [sweep[w] EXCEPT !.copy.fresh = FALSE] ELSE sweep[w]]
  /\ UNCHANGED <<row, inbox, crashes>>

Restart ==
  /\ crashes < MaxCrashes
  /\ crashes' = crashes + 1
  /\ sweep' = [w \in Worker |->
       AtRest(IF w = Ticker THEN "list"
              ELSE IF sweep[w].pc = "unused" THEN "unused" ELSE "over")]
  /\ UNCHANGED <<row, health, inbox>>

-----------------------------------------------------------------------------
SweepStep(w) ==
  \/ ForceResets(w) \/ ForceInspects(w) \/ ForceCloses(w)
  \/ ListsDue(w) \/ SweepEnds(w)
  \/ \E e \in Entry : \E item \in sweep[w].todo :
       item[1] = e /\ (Skips(w, e, item[2]) \/ Takes(w, e, item[2]))
  \/ DeliverySucceeds(w) \/ DeliveryFails(w)
  \/ MarksDelivered(w) \/ HealsEndpoint(w)
  \/ RecordsFailure(w) \/ Reschedules(w) \/ Exhausts(w) \/ Escalates(w)

Next ==
  \/ \E e \in Entry : Enqueue(e) \/ Dismiss(e) \/ RetryComesDue(e)
  \/ \E w \in Forced, e \in Entry : ForceGets(w, e)
  \/ \E w \in Forced : RequestEnds(w)
  \/ \E w \in Worker : SweepStep(w)
  \/ Ticks
  \/ \E k \in Key : ProbeWindowPasses(k)
  \/ Restart

Spec == Init /\ [][Next]_vars

(* Goroutines run on, the ticker fires and time passes; nobody has to      *)
(* enqueue, dismiss, force a retry or close a connection.                  *)
FairSpec ==
  /\ Spec
  /\ \A w \in Worker : WF_vars(SweepStep(w))
  /\ WF_vars(Ticks)
  /\ \A e \in Entry : WF_vars(RetryComesDue(e))
  /\ \A k \in Key : WF_vars(ProbeWindowPasses(k))

-----------------------------------------------------------------------------
(* Type invariant: the two tables, the copies the sweeps hold, the inbox. *)
TypeOK ==
  /\ row \in [Entry -> [status : RowStatus \cup {"none", "gone"}, count : Nat, due : BOOLEAN]]
  /\ health \in [Key -> Health]
  /\ sweep \in [Worker -> [pc : SweepPC, todo : SUBSET (Entry \X Nat), entry : Entry,
                           count : Nat, copy : Health, cut : BOOLEAN]]
  /\ inbox \subseteq Entry
  /\ crashes \in 0..MaxCrashes

(* The circuit of an endpoint is open exactly while at least               *)
(* circuitBreakThreshold consecutive failures are on record, however       *)
(* sweeps, forced retries and restarts interleave their read-modify-writes *)
(* of endpoint_health.                                                     *)
CircuitMatchesFailures ==
  \A k \in Key : health[k].circuit = "open" <=> health[k].fails >= circuitBreakThreshold

(* attempt_count passes max_attempts only by forced retries, one for each: *)
(* stale copies of the count never buy an entry more attempts.             *)
AttemptBudget ==
  \A e \in Entry :
    row[e].count <= MaxAttempts + Cardinality({w \in Forced : sweep[w].pc # "unused"})

(* A row that says "failed" has its inbox notification, or the sweep that  *)
(* exhausted it is about to store one, unless the process has died.        *)
FailedIsEscalated ==
  \A e \in Entry : row[e].status = "failed" =>
    \/ e \in inbox
    \/ \E w \in Worker : sweep[w].pc = "escalate" /\ sweep[w].entry = e
    \/ crashes > 0

(* A row that says "delivered" is never sent again, whatever is enqueued,  *)
(* dismissed or restarted meanwhile: the lists of due entries that sweeps  *)
(* work through do not outlive the answers to what is on them.             *)
NoResend ==
  \A w \in Worker : sweep[w].pc = "deliver" => row[sweep[w].entry].status # "delivered"

(* Every entry leaves the queue: an open circuit is probed again, a retry  *)
(* comes due, and attempts run out.                                        *)
Settles ==
  \A e \in Entry : row[e].status \in Active ~> row[e].status \notin Active

=============================================================================
