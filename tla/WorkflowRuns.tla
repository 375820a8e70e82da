---------------------------- MODULE WorkflowRuns ----------------------------
(***************************************************************************)
(* Workflow runs of internal/scheduler: who may start a run (cron, a user, *)
(* another run's chain), the semaphore, cancellation, and the runner that  *)
(* executes the steps, calls sub-workflows on its own stack, records the   *)
(* outcome and chains the next workflow.                                   *)
(*                                                                         *)
(* A step between two lock regions or two awaits is one action.  Steps are *)
(* what is left of a definition after sorting and ApplyRetryDefaults.      *)
(* Prompts, outputs, events and outside deliveries are left out; so are    *)
(* errors of the run and notification stores, which the code only logs.    *)
(***************************************************************************)
EXTENDS Integers, Sequences, FiniteSets

CONSTANTS
  Workflow,     \* workflow IDs
  Steps,        \* the steps of each workflow, in Position order
  Chain,        \* each workflow's chain: block
  Notify,       \* each workflow's notification: on_success, on_failure
  Scheduled,    \* workflows with a cron entry
  Slots,        \* maxConcurrentWorkflows
  MaxRuns,      \* goroutines started in one behaviour
  MaxCrashes,
  Faults        \* what may disturb a run

NoWorkflow == "none"
NoRun      == 0
Run        == 1..MaxRuns
Agent      == "agent"

(* A notify or notification block, without its targets. *)
NotifyConfig == [onSuccess : BOOLEAN, onFailure : BOOLEAN]

Step == [body      : Workflow \cup {Agent},   \* sub_workflow or prompt
         onFailure : {"stop", "continue"},
         retries   : Nat,
         when      : BOOLEAN,                 \* has a when: expression
         limit     : BOOLEAN,                 \* has a timeout of its own
         notify    : NotifyConfig]

(* A chain's Next has already been looked up; no flag set means on success. *)
ChainConfig  == [next : Workflow \cup {NoWorkflow}, onSuccess : BOOLEAN, onFailure : BOOLEAN]

ASSUME WorkflowRunsAssumption ==
  /\ NoWorkflow \notin Workflow /\ Agent \notin Workflow
  /\ Steps \in [Workflow -> Seq(Step)]
  /\ Chain \in [Workflow -> ChainConfig]
  /\ Notify \in [Workflow -> NotifyConfig]
  /\ Scheduled \subseteq Workflow
  /\ Slots \in Nat \ {0} /\ MaxRuns \in Nat /\ MaxCrashes \in Nat
  /\ Faults \subseteq {"cancel", "timeout", "panic", "refuse"}

VARIABLES
  workflowRunning,  \* workflow IDs currently executing
  workflowCancels,  \* workflow ID -> the run its cancel func belongs to
  sem,              \* slots taken
  pc,               \* where each goroutine is
  workflow, kind,   \* the workflow a goroutine was started for, and by whom
  ctx,              \* its context: live, or the cause that ended it
  stack,            \* the runner's invocations: sub-workflows on top
  runStore, inbox,  \* durable: run records, and the notifications about runs
  crashes

admission == <<workflowRunning, workflowCancels, sem>>
durable   == <<runStore, inbox>>
vars == <<workflowRunning, workflowCancels, sem, pc, workflow, kind, ctx, stack,
          runStore, inbox, crashes>>

InRunner == {"loop", "try", "attempt", "end", "persist", "inbox", "chain"}
PC       == {"none", "claimed", "skipped", "admitted", "unwinding", "slotReturned",
             "unmarked", "over", "lost"} \cup InRunner

RunStatus  == {"complete", "partial", "failed", "cancelled"}
StepResult == [status : {"success", "failed", "skipped"}, child : RunStatus \cup {"none"}]
Invocation == [wf      : Workflow,
               tries   : Nat,                      \* calls of the agent in this step
               aborted : BOOLEAN,
               status  : RunStatus \cup {"running"},
               results : Seq(StepResult)]
RunRecord  == [id : Seq(Nat), wf : Workflow, status : RunStatus, results : Seq(StepResult)]

(* What the inbox says of a run (step 0) or of one of its steps.  A step's *)
(* carries the ID of its session, which the record of the run lists.       *)
Notification == [run : Seq(Nat), step : Nat, says : RunStatus \cup {"success"}]

(* What a goroutine holds on to, by where it is. *)
Marks(r)     == pc[r] \in {"claimed", "skipped", "admitted", "unwinding", "slotReturned"} \cup InRunner
HoldsSlot(r) == pc[r] \in {"admitted", "unwinding", "unmarked"} \cup InRunner

(* Type invariant; the semaphore never holds more than Slots. *)
TypeOK ==
  /\ workflowRunning \subseteq Workflow
  /\ workflowCancels \in [Workflow -> Run \cup {NoRun}]
  /\ sem \in 0..Slots
  /\ pc \in [Run -> PC]
  /\ workflow \in [Run -> Workflow \cup {NoWorkflow}]
  /\ kind \in [Run -> {"none", "cron", "trigger"}]
  /\ ctx \in [Run -> {"none", "live", "user", "timeout", "released"}]
  /\ stack \in [Run -> Seq(Invocation)]
  /\ runStore \subseteq RunRecord
  /\ inbox \subseteq Notification
  /\ crashes \in 0..MaxCrashes

Init ==
  /\ workflowRunning = {}
  /\ workflowCancels = [w \in Workflow |-> NoRun]
  /\ sem = 0
  /\ pc = [r \in Run |-> "none"]
  /\ workflow = [r \in Run |-> NoWorkflow]
  /\ kind = [r \in Run |-> "none"]
  /\ ctx = [r \in Run |-> "none"]
  /\ stack = [r \in Run |-> << >>]
  /\ runStore = {} /\ inbox = {}
  /\ crashes = 0

-----------------------------------------------------------------------------
(* Admission. *)

(* The next goroutine to be started. *)
Fresh(r) == pc[r] = "none" /\ \A q \in Run : q < r => pc[q] # "none"

(* The cron closure marks the workflow first and asks for a slot second. *)
CronFires(w, r) ==
  /\ w \in Scheduled /\ Fresh(r)
  /\ w \notin workflowRunning
  /\ workflowRunning' = workflowRunning \cup {w}
  /\ pc' = [pc EXCEPT ![r] = "claimed"]
  /\ workflow' = [workflow EXCEPT ![r] = w]
  /\ kind' = [kind EXCEPT ![r] = "cron"]
  /\ UNCHANGED <<workflowCancels, sem, ctx, stack, durable, crashes>>

(* Mutated form: the full semaphore is not noticed. *)
CronAdmittedAnyway(r) ==
  /\ pc[r] = "claimed"
  /\ sem' = sem + 1
  /\ pc' = [pc EXCEPT ![r] = "admitted"]
  /\ UNCHANGED <<workflowRunning, workflowCancels, workflow, kind, ctx, stack, durable, crashes>>

CronAdmitted(r) ==
  /\ pc[r] = "claimed" /\ sem < Slots
  /\ sem' = sem + 1
  /\ pc' = [pc EXCEPT ![r] = "admitted"]
  /\ UNCHANGED <<workflowRunning, workflowCancels, workflow, kind, ctx, stack, durable, crashes>>

(* Mutated form: the skipped cron run also reads from the semaphore. *)
CronSkipsReleasing(r) ==
  /\ pc[r] = "claimed" /\ sem >= Slots
  /\ pc' = [pc EXCEPT ![r] = "unwinding"]
  /\ UNCHANGED <<admission, workflow, kind, ctx, stack, durable, crashes>>

(* Concurrency limit reached: the scheduled run is dropped. *)
CronSkips(r) ==
  /\ pc[r] = "claimed" /\ sem >= Slots
  /\ pc' = [pc EXCEPT ![r] = "skipped"]
  /\ UNCHANGED <<admission, workflow, kind, ctx, stack, durable, crashes>>

(* Mutated form: TriggerWorkflow without the already-running check. *)
TriggerableUnchecked(w) == sem < Slots

(* TriggerWorkflow checks the mark, takes a slot and marks under one lock. *)
Triggerable(w) == w \notin workflowRunning /\ sem < Slots

TriggerWorkflow(w, r) ==
  /\ Fresh(r) /\ Triggerable(w)
  /\ sem' = sem + 1
  /\ workflowRunning' = workflowRunning \cup {w}
  /\ workflow' = [workflow EXCEPT ![r] = w]
  /\ kind' = [kind EXCEPT ![r] = "trigger"]

(* A user, a webhook or a replay. *)
UserTriggers(w, r) ==
  /\ TriggerWorkflow(w, r)
  /\ pc' = [pc EXCEPT ![r] = "admitted"]
  /\ UNCHANGED <<workflowCancels, ctx, stack, durable, crashes>>

(* The goroutine makes its context, stores the cancel func and enters the  *)
(* runner.                                                                 *)
Invoke(w) == [wf |-> w, tries |-> 0, aborted |-> FALSE, status |-> "running", results |-> << >>]

EntersRunner(r) ==
  /\ pc[r] = "admitted"
  /\ ctx' = [ctx EXCEPT ![r] = "live"]
  /\ workflowCancels' = [workflowCancels EXCEPT ![workflow[r]] = r]
  /\ stack' = [stack EXCEPT ![r] = <<Invoke(workflow[r])>>]
  /\ pc' = [pc EXCEPT ![r] = "loop"]
  /\ UNCHANGED <<workflowRunning, sem, workflow, kind, durable, crashes>>

(* The deferred calls of the goroutine, last deferred first: a cron run    *)
(* gives its slot back before it unmarks, a triggered run unmarks first.   *)
ReleasesSlot(r) ==
  /\ pc[r] = IF kind[r] = "cron" THEN "unwinding" ELSE "unmarked"
  /\ sem' = sem - 1
  /\ pc' = [pc EXCEPT ![r] = IF kind[r] = "cron" THEN "slotReturned" ELSE "over"]
  /\ UNCHANGED <<workflowRunning, workflowCancels, workflow, kind, ctx, stack, durable, crashes>>

(* Mutated form: the cleanup of the cancel func runs last, after the unmarking. *)
UnmarksOnly(r) ==
  /\ \/ pc[r] \in {"skipped", "slotReturned"}
     \/ pc[r] = "unwinding" /\ kind[r] = "trigger"
  /\ workflowRunning' = workflowRunning \ {workflow[r]}
  /\ pc' = [pc EXCEPT ![r] = IF pc[r] = "unwinding" THEN "unmarked" ELSE "over"]
  /\ UNCHANGED <<workflowCancels, sem, workflow, kind, ctx, stack, durable, crashes>>

Unmarks(r) ==
  /\ \/ pc[r] \in {"skipped", "slotReturned"}
     \/ pc[r] = "unwinding" /\ kind[r] = "trigger"
  /\ workflowRunning' = workflowRunning \ {workflow[r]}
  /\ workflowCancels' = [workflowCancels EXCEPT ![workflow[r]] = NoRun]
  /\ pc' = [pc EXCEPT ![r] = IF pc[r] = "unwinding" THEN "unmarked" ELSE "over"]
  /\ UNCHANGED <<sem, workflow, kind, ctx, stack, durable, crashes>>

(* CancelWorkflow fetches the cancel func under the lock and calls it      *)
(* after.  The call does something only while the context is live, and     *)
(* then the func is still stored: one action, taken when the call is made. *)
(* The first cause to reach a context stays.                               *)
CancelWorkflow(w) ==
  LET r == workflowCancels[w] IN
  /\ "cancel" \in Faults
  /\ r # NoRun /\ ctx[r] = "live"
  /\ ctx' = [ctx EXCEPT ![r] = "user"]
  /\ UNCHANGED <<admission, pc, workflow, kind, stack, durable, crashes>>

(* workflowTimeout, always set. *)
TimesOut(r) ==
  /\ "timeout" \in Faults
  /\ ctx[r] = "live"
  /\ ctx' = [ctx EXCEPT ![r] = "timeout"]
  /\ UNCHANGED <<admission, pc, workflow, kind, stack, durable, crashes>>

-----------------------------------------------------------------------------
(* The runner: one invocation per workflow on the stack. *)

Top(r)       == stack[r][Len(stack[r])]
SetTop(r, f) == [stack EXCEPT ![r] = [@ EXCEPT ![Len(stack[r])] = f]]
StepsLeft(r) == Len(Top(r).results) < Len(Steps[Top(r).wf])
Current(r)   == Steps[Top(r).wf][Len(Top(r).results) + 1]

Record(f, status, child) ==
  [f EXCEPT !.results = Append(@, [status |-> status, child |-> child]), !.tries = 0]

StepSucceeds(r) ==
  /\ stack' = SetTop(r, Record(Top(r), "success", "none"))
  /\ pc' = [pc EXCEPT ![r] = "loop"]

(* Mutated form: a failed step with on_failure: stop ends the loop without aborted. *)
StepFailsSilently(r) ==
  LET stop == Current(r).onFailure = "stop" IN
  /\ stack' = SetTop(r, Record(Top(r), "failed", "none"))
  /\ pc' = [pc EXCEPT ![r] = IF stop THEN "end" ELSE "loop"]

(* EffectiveOnFailure: stop ends the loop, continue goes on. *)
StepFails(r) ==
  LET stop == Current(r).onFailure = "stop" IN
  /\ stack' = SetTop(r, [Record(Top(r), "failed", "none") EXCEPT !.aborted = stop])
  /\ pc' = [pc EXCEPT ![r] = IF stop THEN "end" ELSE "loop"]

(* The ID of the run at depth d: its goroutine, and the steps that led there. *)
IDAt(r, d) == <<r>> \o [i \in 1..(d - 1) |-> Len(stack[r][i].results) + 1]
RunID(r)   == IDAt(r, Len(stack[r]))

(* The notify: block of a prompt step puts its outcome into the inbox as   *)
(* soon as the step is over, before the run has a record.                  *)
WantsNotice(r, says) ==
  IF says = "success" THEN Current(r).notify.onSuccess ELSE Current(r).notify.onFailure

Announces(r, says) ==
  /\ inbox' = inbox \cup (IF WantsNotice(r, says)
                          THEN {[run |-> RunID(r), step |-> Len(Top(r).results) + 1, says |-> says]}
                          ELSE {})
  /\ UNCHANGED runStore

RunnerKeeps == UNCHANGED <<workflow, kind, crashes>>

(* The context is checked before each step. *)
AtStep(r)    == pc[r] = "loop" /\ StepsLeft(r) /\ ctx[r] = "live"
LoopEnded(r) == pc[r] = "loop" /\ (~StepsLeft(r) \/ ctx[r] # "live")

(* The when: expression resolves to false. *)
SkipsStep(r) ==
  /\ AtStep(r) /\ Current(r).when
  /\ stack' = SetTop(r, Record(Top(r), "skipped", "none"))
  /\ UNCHANGED <<admission, pc, ctx, durable>> /\ RunnerKeeps

(* A legacy routine, an empty step, an unresolved placeholder or an        *)
(* unknown sub-workflow fail the step before anything is called.           *)
RefusesStep(r) ==
  /\ "refuse" \in Faults
  /\ AtStep(r)
  /\ StepFails(r)
  /\ UNCHANGED <<admission, ctx, durable>> /\ RunnerKeeps

(* The company gate does too, but on the path that notifies. *)
GateRefuses(r) ==
  /\ "refuse" \in Faults
  /\ AtStep(r) /\ Current(r).body = Agent
  /\ StepFails(r) /\ Announces(r, "failed")
  /\ UNCHANGED <<admission, ctx>> /\ RunnerKeeps

BeginsStep(r) ==
  /\ AtStep(r) /\ Current(r).body = Agent
  /\ pc' = [pc EXCEPT ![r] = "try"]
  /\ UNCHANGED <<admission, ctx, stack, durable>> /\ RunnerKeeps

(* Mutated form: an attempt is not counted. *)
CallsAgentUncounted(r) ==
  /\ pc[r] = "try" /\ ctx[r] = "live"
  /\ pc' = [pc EXCEPT ![r] = "attempt"]
  /\ UNCHANGED <<admission, ctx, stack, durable>> /\ RunnerKeeps

(* executeStepWithRetry: the step's context, a child of the run's, is      *)
(* checked before each call and during the delay before the next.          *)
CallsAgent(r) ==
  /\ pc[r] = "try" /\ ctx[r] = "live"
  /\ stack' = SetTop(r, [Top(r) EXCEPT !.tries = @ + 1])
  /\ pc' = [pc EXCEPT ![r] = "attempt"]
  /\ UNCHANGED <<admission, ctx, durable>> /\ RunnerKeeps

TryAbandoned(r) ==
  /\ pc[r] = "try" /\ (ctx[r] # "live" \/ Current(r).limit)
  /\ StepFails(r) /\ Announces(r, "failed")
  /\ UNCHANGED <<admission, ctx>> /\ RunnerKeeps

AgentAnswers(r) ==
  /\ pc[r] = "attempt"
  /\ StepSucceeds(r) /\ Announces(r, "success")
  /\ UNCHANGED <<admission, ctx>> /\ RunnerKeeps

TriesLeft(r) == Top(r).tries < 1 + Current(r).retries

AgentFails(r) ==
  /\ pc[r] = "attempt"
  /\ IF TriesLeft(r)
     THEN /\ pc' = [pc EXCEPT ![r] = "try"]
          /\ UNCHANGED <<stack, durable>>
     ELSE StepFails(r) /\ Announces(r, "failed")
  /\ UNCHANGED <<admission, ctx>> /\ RunnerKeeps

(* A panic unwinds all invocations to the recover of the goroutine; the    *)
(* deferred causeCancel(nil) releases the context.                         *)
Released(r) == [ctx EXCEPT ![r] = IF @ = "live" THEN "released" ELSE @]

AgentPanics(r) ==
  /\ "panic" \in Faults
  /\ pc[r] = "attempt"
  /\ stack' = [stack EXCEPT ![r] = << >>]
  /\ ctx' = Released(r)
  /\ pc' = [pc EXCEPT ![r] = "unwinding"]
  /\ UNCHANGED <<admission, durable>> /\ RunnerKeeps

(* Mutated form: only a direct self-call is seen as a cycle. *)
ParentOnly(r) == {Top(r).wf}

(* A sub-workflow runs on the same goroutine, without slot, mark or cancel *)
(* func of its own, unless it is already in the call chain.                *)
Ancestors(r) == {stack[r][i].wf : i \in 1..Len(stack[r])}

CallsSubWorkflow(r) ==
  /\ AtStep(r) /\ Current(r).body \in Workflow
  /\ Current(r).body \notin Ancestors(r)
  /\ stack' = [stack EXCEPT ![r] = Append(@, Invoke(Current(r).body))]
  /\ UNCHANGED <<admission, pc, ctx, durable>> /\ RunnerKeeps

SubWorkflowCycle(r) ==
  /\ AtStep(r) /\ Current(r).body \in Ancestors(r)
  /\ StepFails(r)
  /\ UNCHANGED <<admission, ctx, durable>> /\ RunnerKeeps

-----------------------------------------------------------------------------
(* The end of an invocation. *)

AnyStepFailed(f) == \E i \in 1..Len(f.results) : f.results[i].status = "failed"

(* A stop failure or the check before a step broke out of the loop. *)
Aborted(r) == Top(r).aborted \/ StepsLeft(r)

(* The cause of the context is checked again: cancellation wins. *)
Outcome(r) ==
  CASE ctx[r] = "user"                                           -> "cancelled"
    [] ctx[r] # "user" /\ Aborted(r)                             -> "failed"
    [] ctx[r] # "user" /\ ~Aborted(r) /\ AnyStepFailed(Top(r))   -> "partial"
    [] ctx[r] # "user" /\ ~Aborted(r) /\ ~AnyStepFailed(Top(r))  -> "complete"

(* Mutated form: the prior ordering, notification first. *)
NotificationFirst(r) ==
  /\ pc[r] = "end" \/ LoopEnded(r)
  /\ stack' = SetTop(r, [Top(r) EXCEPT !.status = Outcome(r)])
  /\ inbox' = inbox \cup {[run |-> RunID(r), step |-> 0, says |-> Outcome(r)]}
  /\ pc' = [pc EXCEPT ![r] = "persist"]
  /\ UNCHANGED <<admission, ctx, runStore>> /\ RunnerKeeps

SettlesStatus(r) ==
  /\ pc[r] = "end" \/ LoopEnded(r)
  /\ stack' = SetTop(r, [Top(r) EXCEPT !.status = Outcome(r)])
  /\ pc' = [pc EXCEPT ![r] = "persist"]
  /\ UNCHANGED <<admission, ctx, durable>> /\ RunnerKeeps

Notifies(f) ==
  IF f.status = "complete" THEN Notify[f.wf].onSuccess ELSE Notify[f.wf].onFailure

(* Deliveries go out before this, synchronously; the record is stored      *)
(* before the notification of the run.                                     *)
PersistsRun(r) ==
  /\ pc[r] = "persist"
  /\ runStore' = runStore \cup {[id |-> RunID(r), wf |-> Top(r).wf,
                                 status |-> Top(r).status, results |-> Top(r).results]}
  /\ pc' = [pc EXCEPT ![r] = IF Notifies(Top(r)) THEN "inbox" ELSE "chain"]
  /\ UNCHANGED <<admission, ctx, stack, inbox>> /\ RunnerKeeps

StoresNotification(r) ==
  /\ pc[r] = "inbox"
  /\ inbox' = inbox \cup {[run |-> RunID(r), step |-> 0, says |-> Top(r).status]}
  /\ pc' = [pc EXCEPT ![r] = "chain"]
  /\ UNCHANGED <<admission, ctx, stack, runStore>> /\ RunnerKeeps

(* The chain hook of main.go; a cancelled run does not call it. *)
WantsChain(f) ==
  LET c == Chain[f.wf] IN
  /\ c.next # NoWorkflow
  /\ \/ f.status = "complete" /\ (c.onSuccess \/ ~c.onFailure)
     \/ f.status \in {"failed", "partial"} /\ c.onFailure

(* The runner returns nil whatever the outcome: an outermost invocation    *)
(* ends the goroutine's work, a sub-workflow is a step that succeeded.     *)
Returns(r) ==
  IF Len(stack[r]) = 1
  THEN /\ stack' = [stack EXCEPT ![r] = << >>]
       /\ ctx' = Released(r)
  ELSE LET n      == Len(stack[r]) - 1
           caller == Record(stack[r][n], "success", Top(r).status)
       IN /\ stack' = [stack EXCEPT ![r] = Append(SubSeq(stack[r], 1, n - 1), caller)]
          /\ UNCHANGED ctx

ReturnsTo(r) == IF Len(stack[r]) = 1 THEN "unwinding" ELSE "loop"

(* The trigger is refused while the next workflow runs or all slots are    *)
(* taken, this run's own included, and the chain ends there.               *)
ChainEnds(r) ==
  /\ pc[r] = "chain"
  /\ ~WantsChain(Top(r)) \/ ~Triggerable(Chain[Top(r).wf].next)
  /\ Returns(r)
  /\ pc' = [pc EXCEPT ![r] = ReturnsTo(r)]
  /\ UNCHANGED <<admission, durable>> /\ RunnerKeeps

Chains(r, q) ==
  /\ pc[r] = "chain" /\ WantsChain(Top(r))
  /\ TriggerWorkflow(Chain[Top(r).wf].next, q)
  /\ Returns(r)
  /\ pc' = [pc EXCEPT ![r] = ReturnsTo(r), ![q] = "admitted"]
  /\ UNCHANGED <<workflowCancels, durable, crashes>>

(* The bound on goroutines: a chain beyond it is not followed. *)
ChainOutOfBound(r) ==
  /\ pc[r] = "chain" /\ WantsChain(Top(r))
  /\ Triggerable(Chain[Top(r).wf].next)
  /\ \A q \in Run : pc[q] # "none"
  /\ Returns(r)
  /\ pc' = [pc EXCEPT ![r] = ReturnsTo(r)]
  /\ UNCHANGED <<admission, durable>> /\ RunnerKeeps

(* The process dies and starts again with what is on disk. *)
Restart ==
  /\ crashes < MaxCrashes
  /\ crashes' = crashes + 1
  /\ pc' = [r \in Run |-> IF pc[r] \in {"none", "over"} THEN pc[r] ELSE "lost"]
  /\ stack' = [r \in Run |-> << >>]
  /\ workflowRunning' = {}
  /\ workflowCancels' = [w \in Workflow |-> NoRun]
  /\ sem' = 0
  /\ UNCHANGED <<workflow, kind, ctx, durable>>

-----------------------------------------------------------------------------
GoStep(r) ==
  \/ CronAdmitted(r) \/ CronSkips(r) \/ EntersRunner(r) \/ ReleasesSlot(r) \/ Unmarks(r)
  \/ SkipsStep(r) \/ RefusesStep(r) \/ GateRefuses(r) \/ BeginsStep(r)
  \/ CallsAgent(r) \/ TryAbandoned(r) \/ AgentAnswers(r) \/ AgentFails(r) \/ AgentPanics(r)
  \/ CallsSubWorkflow(r) \/ SubWorkflowCycle(r)
  \/ SettlesStatus(r) \/ PersistsRun(r) \/ StoresNotification(r)
  \/ ChainEnds(r) \/ ChainOutOfBound(r) \/ \E q \in Run : Chains(r, q)

(* Every goroutine of the bound has ended. *)
Rests ==
  /\ \A r \in Run : pc[r] \in {"over", "lost"}
  /\ UNCHANGED vars

Next ==
  \/ \E w \in Workflow, r \in Run : CronFires(w, r) \/ UserTriggers(w, r)
  \/ \E w \in Workflow : CancelWorkflow(w)
  \/ \E r \in Run : TimesOut(r) \/ GoStep(r)
  \/ Restart
  \/ Rests

Spec == Init /\ [][Next]_vars

(* The Go scheduler runs every goroutine that can run, and an agent call   *)
(* returns because its context has a deadline.  Nobody has to trigger,     *)
(* cancel or crash anything.                                               *)
FairSpec == Spec /\ \A r \in Run : WF_vars(GoStep(r))

-----------------------------------------------------------------------------
(* Overlapping runs "would interleave outputs, corrupt scratch state, and  *)
(* produce ambiguous notifications" (scheduler.go:390): two goroutines     *)
(* never hold the mark of one workflow, whoever started them, and a mark   *)
(* always has its goroutine, so that a workflow is never locked out.       *)
OneRunPerWorkflow ==
  /\ \A r, q \in Run : Marks(r) /\ Marks(q) /\ workflow[r] = workflow[q] => r = q
  /\ workflowRunning = {workflow[r] : r \in {q \in Run : Marks(q)}}

(* Slots are neither leaked nor returned twice on any way out of a run:    *)
(* skipped, panicked, cancelled or finished, in either order of the        *)
(* deferred calls.                                                         *)
SlotsAccounted == sem = Cardinality({r \in Run : HoldsSlot(r)})

(* CancelWorkflow reaches the goroutine that executes the workflow, all    *)
(* the time it executes, and never the cancel func of another run.         *)
Cancellable ==
  /\ \A r \in Run : pc[r] \in InRunner => workflowCancels[workflow[r]] = r
  /\ \A w \in Workflow : workflowCancels[w] # NoRun =>
       Marks(workflowCancels[w]) /\ workflow[workflowCancels[w]] = w

Failed(rec)    == {i \in 1..Len(rec.results) : rec.results[i].status = "failed"}
Attempted(rec) == Len(rec.results) = Len(Steps[rec.wf])
Stops(rec, i)  == Steps[rec.wf][i].onFailure = "stop"

(* The status of a stored run tells what happened to its steps: "partial:  *)
(* all steps attempted but at least one failed with on_failure: continue"  *)
(* (workflow_runner.go:842), failed: a step with on_failure: stop failed   *)
(* or the deadline came between two steps, cancelled: a user did it.       *)
StatusTellsTheSteps ==
  \A rec \in runStore :
    CASE rec.status = "complete"  -> Attempted(rec) /\ Failed(rec) = {}
      [] rec.status = "partial"   -> /\ Attempted(rec) /\ Failed(rec) # {}
                                     /\ \A i \in Failed(rec) : ~Stops(rec, i)
      [] rec.status = "failed"    -> \/ \E i \in Failed(rec) : i = Len(rec.results) /\ Stops(rec, i)
                                     \/ ~Attempted(rec) /\ ctx[rec.id[1]] = "timeout"
      [] rec.status = "cancelled" -> ctx[rec.id[1]] = "user"

(* The run record is stored first, so that a crash leaves no "orphaned     *)
(* inbox entries with no corresponding run" (workflow_runner.go:812).      *)
(* That holds of a run's own notification, which agrees with the record.   *)
(* A step's comes earlier: it agrees with the record of its run or with    *)
(* the run as it goes, and is left without one only where a crash or a     *)
(* panic cut the goroutine short before its outermost run was recorded.    *)
Ended(r) == pc[r] \in {"unwinding", "slotReturned", "unmarked", "over", "lost"}

OfRun(n, rec) == n.run = rec.id /\ n.step = 0 /\ n.says = rec.status
OfStep(n, id, results) ==
  n.run = id /\ n.step \in 1..Len(results) /\ n.says = results[n.step].status
OnRecord(n) == \E rec \in runStore : OfRun(n, rec) \/ OfStep(n, rec.id, rec.results)
OnItsWay(n) == \E r \in Run : \E d \in 1..Len(stack[r]) : OfStep(n, IDAt(r, d), stack[r][d].results)
CutShort(n) == \E r \in Run : /\ n.run[1] = r /\ n.step # 0 /\ Ended(r)
                              /\ \A rec \in runStore : rec.id # <<r>>

NoOrphanNotification == \A n \in inbox : OnRecord(n) \/ OnItsWay(n) \/ CutShort(n)

(* Sub-workflows nest without a cycle (A -> B -> A is refused), whatever   *)
(* the definitions on disk say.                                            *)
NestingIsSimple ==
  \A r \in Run : \A i, j \in 1..Len(stack[r]) : stack[r][i].wf = stack[r][j].wf => i = j

(* Every started goroutine ends and gives back what it took, whatever is   *)
(* cancelled, panics or times out around it.                               *)
RunsEnd == \A r \in Run : pc[r] # "none" ~> pc[r] \in {"over", "lost"}

=============================================================================
