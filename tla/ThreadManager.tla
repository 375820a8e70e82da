--------------------------- MODULE ThreadManager ---------------------------
(***************************************************************************)
(* The delegation threads of one session: internal/threadmgr together with *)
(* the two places that create threads, the delegate_to_agent tool          *)
(* (main.go) and POST /sessions/{id}/threads (internal/server), and the    *)
(* checkpoint ledger that listens to its status hooks.                     *)
(*                                                                         *)
(* A step is one critical section of tm.mu or tm.leaseMu together with the *)
(* local computation around it; what a call does after it has released     *)
(* tm.mu is a later step of its own ("tail" and the program counters), so  *)
(* goroutines interleave between any two critical sections of tm.mu.  The  *)
(* rest of Cancel and of Complete (context, hooks, leases) is one step: no *)
(* code reads two of the three together.                                   *)
(***************************************************************************)
EXTENDS Naturals, FiniteSets

CONSTANTS
  N,            \* number of threads ever created in the session
  Agent,        \* agent names
  AgentOf,      \* the agent each thread is delegated to
  Path,         \* file paths
  Intents,      \* file_intents of the delegation that creates each thread
  HintChoices,  \* depends_on arguments (sets of agent names) a lead may pass
  Creators,     \* which of "delegate", "request" create threads
  Limit,        \* MaxThreadsPerSession
  MaxTurns,     \* turns of one runOnce
  Faults        \* what may disturb the threads, see FaultKinds

Thread == 1..N          \* newID() in creation order
NoThread == 0

FaultKinds == {"cancel", "watchdog", "cleanup", "help", "error", "capture"}

ASSUME ThreadManagerAssumption ==
  /\ N \in Nat /\ Limit \in Nat \ {0} /\ MaxTurns \in Nat \ {0}
  /\ AgentOf \in [Thread -> Agent]
  /\ Intents \in [Thread -> SUBSET Path]
  /\ HintChoices \subseteq SUBSET Agent
  /\ Creators \subseteq {"delegate", "request"}
  /\ Faults \subseteq FaultKinds

Queued    == {"queued"}
Working   == {"thinking", "tooling"}
Active    == Queued \cup Working \cup {"blocked"}
Terminal  == {"done", "cancelled", "error"}
Status    == Active \cup Terminal

VARIABLES
  status,   \* Thread.Status; "none": not created yet, "gone": deleted from tm.threads
  hints,    \* Thread.DependsOnHints
  deps,     \* Thread.DependsOn
  call,     \* where the call that created the thread is
  runner,   \* where the thread's goroutine is
  turn,     \* the turn of runOnce's loop
  todo,     \* copies of queued threads the goroutine's EvaluateDAG has yet to visit
  ctxDone,  \* the thread's context is cancelled
  leases,   \* tm.fileLocks
  tail,     \* calls that have changed a status and still owe their unlocked part
  run       \* the thread's run in the checkpoint ledger

vars == <<status, hints, deps, call, runner, turn, todo, ctxDone, leases, tail, run>>

CallPC   == {"none", "created", "resolved", "conflict", "leased", "spawn", "launch",
             "returned"}
RunnerPC == {"none", "launch", "turn", "llm", "tools", "waiting", "finished", "dag",
             "walk", "dagCascade", "dagCheck", "dagSpawn", "dagLaunch", "exited"}
TailKind == {"cancel", "timeout", "cleanup"}
RunState == {"none", "active", "completed",
             "failed",       \* a snapshot could not be taken, and the ledger says so
             "unrecorded"}   \* BeginRun failed and only the log says so

Present    == {t \in Thread : status[t] \in Status}      \* the keys of tm.threads
ActiveSet  == {t \in Thread : status[t] \in Active}

Init ==
  /\ status  = [t \in Thread |-> "none"]
  /\ hints   = [t \in Thread |-> {}]
  /\ deps    = [t \in Thread |-> {}]
  /\ call    = [t \in Thread |-> "none"]
  /\ runner  = [t \in Thread |-> "none"]
  /\ turn    = [t \in Thread |-> 0]
  /\ todo    = [t \in Thread |-> {}]
  /\ ctxDone = [t \in Thread |-> FALSE]
  /\ leases  = [p \in Path |-> NoThread]
  /\ tail    = {}
  /\ run     = [t \in Thread |-> "none"]

-----------------------------------------------------------------------------
(* Lookups and the effects the calls below share. *)

IsReady(t) == t \in Present /\ \A d \in deps[t] : status[d] = "done"

IsBlockedByFailure(t) ==
  t \in Present /\ \E d \in deps[t] : status[d] \in {"cancelled", "error"}

Conflict(t) == \E p \in Intents[t] : leases[p] \notin {NoThread, t}

ReleaseLeases(t) == [p \in Path |-> IF leases[p] = t THEN NoThread ELSE leases[p]]

(* The checkpoint hook: BeginRun is called when "thinking" is reported for *)
(* a thread tm.Get still finds, EndRun when a terminal status is reported. *)
(* Both are best effort: what fails is logged and the thread goes on.      *)
Begins == {"active"} \cup IF "capture" \in Faults THEN {"failed", "unrecorded"} ELSE {}

HookThinking(t) ==
  \/ t \notin Present /\ UNCHANGED run
  \/ t \in Present /\ \E r \in Begins : run' = [run EXCEPT ![t] = r]

(* EndRun finalizes an active run only; if its update of the ledger fails  *)
(* the entry stays active.                                                 *)
Ends == {"completed"} \cup IF "capture" \in Faults THEN {"failed", "active"} ELSE {}

HookTerminal(t) ==
  \/ run[t] # "active" /\ UNCHANGED run
  \/ run[t] = "active" /\ \E r \in Ends : run' = [run EXCEPT ![t] = r]

(* Cancel's critical section.  An active thread becomes cancelled and the  *)
(* call goes on in FinishCancel; on a terminal one it only releases leases.*)
Cancel(t) ==
  /\ status' = [status EXCEPT ![t] = IF @ \in Active THEN "cancelled" ELSE @]
  /\ tail'   = IF status[t] \in Active THEN tail \cup {<<"cancel", t>>} ELSE tail
  /\ leases' = IF status[t] \in Terminal THEN ReleaseLeases(t) ELSE leases

(* Mutated form: Complete does not look at the status it overwrites. *)
CompleteOverwrites(t, outcome) ==
  /\ status' = [status EXCEPT ![t] = IF @ \in Status THEN outcome ELSE @]
  /\ runner' = [runner EXCEPT ![t] = IF status[t] \in Active THEN "finished" ELSE "dag"]

(* Complete's critical section, called by the thread's own goroutine: a    *)
(* terminal or deleted thread keeps its status and nothing follows but the *)
(* dagFn; otherwise hooks and lease release come next.                     *)
Complete(t, outcome) ==
  /\ status' = [status EXCEPT ![t] = IF @ \in Active THEN outcome ELSE @]
  /\ runner' = [runner EXCEPT ![t] = IF status[t] \in Active THEN "finished" ELSE "dag"]

(* The goroutine sees its context cancelled inside runOnce. *)
ExitCancelled(t) ==
  /\ ctxDone[t]
  /\ status' = [status EXCEPT ![t] =
                 IF @ \in Status \ {"done", "blocked"} THEN "cancelled" ELSE @]
  /\ runner' = [runner EXCEPT ![t] = "exited"]

-----------------------------------------------------------------------------
(* Creating a thread. *)

Create(t) ==
  /\ status[t] = "none"
  /\ \A u \in Thread : u < t => status[u] # "none"
  /\ Cardinality(ActiveSet) < Limit
  /\ status' = [status EXCEPT ![t] = "queued"]
  /\ UNCHANGED <<runner, turn, todo, ctxDone, leases, tail, run>>

(* delegate_to_agent (and spawn_specialist, which passes no hints). *)
Delegate(t) ==
  /\ "delegate" \in Creators
  /\ \E h \in HintChoices : hints' = [hints EXCEPT ![t] = h]
  /\ call' = [call EXCEPT ![t] = "created"]
  /\ Create(t)
  /\ UNCHANGED deps

(* POST /threads: explicit dependencies, and the thread is spawned without *)
(* looking at them.                                                        *)
RequestThread(t) ==
  /\ "request" \in Creators
  /\ \E D \in SUBSET Present : deps' = [deps EXCEPT ![t] = D]
  /\ call' = [call EXCEPT ![t] = "spawn"]
  /\ Create(t)
  /\ UNCHANGED hints

(* ResolveDependencies: each hinted agent that has a thread in the session *)
(* stands for one of its threads, whichever the iteration of the map       *)
(* leaves last.                                                            *)
Candidates(t, a) == {u \in Present \ {t} : AgentOf[u] = a}

ResolveDependencies(t) ==
  /\ call[t] = "created"
  /\ call' = [call EXCEPT ![t] = "resolved"]
  /\ \/ /\ t \in Present
        /\ \E D \in SUBSET {u \in Present : \E a \in hints[t] : u \in Candidates(t, a)} :
             /\ \A a \in hints[t] :
                  Candidates(t, a) # {} => \E u \in Thread : D \cap Candidates(t, a) = {u}
             /\ deps' = [deps EXCEPT ![t] = @ \cup D]
        /\ hints' = [hints EXCEPT ![t] = {}]
     \/ t \notin Present /\ UNCHANGED <<deps, hints>>
  /\ UNCHANGED <<status, runner, turn, todo, ctxDone, leases, tail, run>>

(* AcquireLeases: all of the intents or none.  It does not look the thread *)
(* up: a thread that is terminal or deleted by now gets its leases too.    *)
AcquireLeases(t) ==
  /\ call[t] = "resolved"
  /\ ~Conflict(t)
  /\ leases' = [p \in Path |-> IF p \in Intents[t] THEN t ELSE leases[p]]
  /\ call' = [call EXCEPT ![t] = "leased"]
  /\ UNCHANGED <<status, hints, deps, runner, turn, todo, ctxDone, tail, run>>

(* Mutated form: a conflict is ignored and the delegation goes on. *)
LeaseConflictIgnored(t) ==
  /\ call[t] = "resolved"
  /\ Conflict(t)
  /\ call' = [call EXCEPT ![t] = "leased"]
  /\ UNCHANGED <<status, hints, deps, runner, turn, todo, ctxDone, leases, tail, run>>

LeaseConflict(t) ==
  /\ call[t] = "resolved"
  /\ Conflict(t)
  /\ call' = [call EXCEPT ![t] = "conflict"]
  /\ UNCHANGED <<status, hints, deps, runner, turn, todo, ctxDone, leases, tail, run>>

(* The preview gate answers (or times out), then IsReady decides whether   *)
(* the call spawns the thread or leaves it queued.                         *)
Approved(t) ==
  /\ call[t] = "leased"
  /\ call' = [call EXCEPT ![t] = IF IsReady(t) THEN "spawn" ELSE "returned"]
  /\ UNCHANGED <<status, hints, deps, runner, turn, todo, ctxDone, leases, tail, run>>

(* A lease conflict, a denial and a preview nobody answers in time all     *)
(* cancel the thread.                                                      *)
Rejected(t) ==
  /\ call[t] \in {"leased", "conflict"}
  /\ Cancel(t)
  /\ call' = [call EXCEPT ![t] = "returned"]
  /\ UNCHANGED <<hints, deps, runner, turn, todo, ctxDone, run>>

-----------------------------------------------------------------------------
(* SpawnThread: Start under the lock, then the "thinking" hook, and only   *)
(* then the goroutine.  Both the creating call and an evaluating goroutine *)
(* spawn; the one that finds the thread no longer queued gives up.         *)
(* Mutated form: any thread that has not ended can be started. *)
CanStartActive(t) == status[t] \in Active

CanStart(t) == status[t] = "queued"

Start(t, runnerPC) ==
  /\ CanStart(t)
  /\ status' = [status EXCEPT ![t] = "thinking"]
  /\ runner' = runnerPC
  /\ UNCHANGED <<hints, deps, turn, ctxDone, leases, tail, run>>

CallStarts(t) ==
  /\ call[t] = "spawn"
  /\ Start(t, [runner EXCEPT ![t] = "launch"])
  /\ call' = [call EXCEPT ![t] = "launch"]
  /\ UNCHANGED todo

CallLosesStart(t) ==
  /\ call[t] = "spawn"
  /\ ~CanStart(t)
  /\ call' = [call EXCEPT ![t] = "returned"]
  /\ UNCHANGED <<status, hints, deps, runner, turn, todo, ctxDone, leases, tail, run>>

CallLaunches(t) ==
  /\ call[t] = "launch"
  /\ HookThinking(t)
  /\ runner' = [runner EXCEPT ![t] = "turn"]
  /\ call' = [call EXCEPT ![t] = "returned"]
  /\ UNCHANGED <<status, hints, deps, turn, todo, ctxDone, leases, tail>>

-----------------------------------------------------------------------------
(* runOnce: the tool-calling loop of the thread's goroutine.               *)

(* Top of the loop.  A record that is gone ends the goroutine on entry; a  *)
(* cancelled context ends it on every turn; the last turn completes it.    *)
TurnWithoutRecord(t) ==
  /\ runner[t] = "turn" /\ turn[t] = 0
  /\ t \notin Present
  /\ runner' = [runner EXCEPT ![t] = "exited"]
  /\ UNCHANGED <<status, hints, deps, call, turn, todo, ctxDone, leases, tail, run>>

(* Mutated form: runOnce does not look its thread up on entry. *)
InLoopUnchecked(t) == runner[t] = "turn"

InLoop(t) == runner[t] = "turn" /\ (turn[t] = 0 => t \in Present)

TurnCancelled(t) ==
  /\ InLoop(t) /\ turn[t] < MaxTurns
  /\ ExitCancelled(t)
  /\ UNCHANGED <<hints, deps, call, turn, todo, ctxDone, leases, tail, run>>

(* Mutated form: one turn too many. *)
TurnCallsModelOnceMore(t) ==
  /\ InLoop(t)
  /\ ~ctxDone[t]
  /\ runner' = [runner EXCEPT ![t] = "llm"]
  /\ UNCHANGED <<status, hints, deps, call, turn, todo, ctxDone, leases, tail, run>>

TurnCallsModel(t) ==
  /\ InLoop(t) /\ turn[t] < MaxTurns
  /\ ~ctxDone[t]
  /\ runner' = [runner EXCEPT ![t] = "llm"]
  /\ UNCHANGED <<status, hints, deps, call, turn, todo, ctxDone, leases, tail, run>>

TurnsExhausted(t) ==
  /\ runner[t] = "turn" /\ turn[t] = MaxTurns
  /\ Complete(t, "done")
  /\ UNCHANGED <<hints, deps, call, turn, todo, ctxDone, leases, tail, run>>

(* Outcomes of ChatCompletion.  It may still answer after the context is   *)
(* cancelled; a failure counts as an error only when it is not.            *)
ChatCancelled(t) ==
  /\ runner[t] = "llm"
  /\ ExitCancelled(t)
  /\ UNCHANGED <<hints, deps, call, turn, todo, ctxDone, leases, tail, run>>

(* An LLM error after the retry, an exceeded budget or a panic. *)
Fails(t) ==
  /\ "error" \in Faults
  /\ runner[t] \in {"llm", "tools"}
  /\ runner[t] = "llm" => ~ctxDone[t]
  /\ Complete(t, "error")
  /\ UNCHANGED <<hints, deps, call, turn, todo, ctxDone, leases, tail, run>>

(* No tool calls, the token budget, the context length: all complete it.   *)
ChatAnswers(t) ==
  /\ runner[t] = "llm"
  /\ Complete(t, "done")
  /\ UNCHANGED <<hints, deps, call, turn, todo, ctxDone, leases, tail, run>>

ChatCallsTools(t) ==
  /\ runner[t] = "llm"
  /\ runner' = [runner EXCEPT ![t] = "tools"]
  /\ status' = [status EXCEPT ![t] =
                 IF @ \in Status \ {"cancelled"} THEN "tooling" ELSE @]
  /\ UNCHANGED <<hints, deps, call, turn, todo, ctxDone, leases, tail, run>>

ToolsReturn(t) ==
  /\ runner[t] = "tools"
  /\ status' = [status EXCEPT ![t] = IF @ = "tooling" THEN "thinking" ELSE @]
  /\ turn'   = [turn EXCEPT ![t] = @ + 1]
  /\ runner' = [runner EXCEPT ![t] = "turn"]
  /\ UNCHANGED <<hints, deps, call, todo, ctxDone, leases, tail, run>>

Finish(t) ==
  /\ runner[t] = "tools"
  /\ Complete(t, "done")
  /\ UNCHANGED <<hints, deps, call, turn, todo, ctxDone, leases, tail, run>>

(* request_help: setBlocked writes whatever the status is. *)
RequestHelp(t) ==
  /\ "help" \in Faults
  /\ runner[t] = "tools"
  /\ status' = [status EXCEPT ![t] = IF t \in Present THEN "blocked" ELSE @]
  /\ runner' = [runner EXCEPT ![t] = "waiting"]
  /\ UNCHANGED <<hints, deps, call, turn, todo, ctxDone, leases, tail, run>>

(* waitForInputOnce: an answer arrives, or the context is cancelled (or    *)
(* the record is gone) and the goroutine cancels its own thread.           *)
InputArrives(t) ==
  /\ runner[t] = "waiting"
  /\ status' = [status EXCEPT ![t] = IF @ = "blocked" THEN "thinking" ELSE @]
  /\ turn'   = [turn EXCEPT ![t] = 0]
  /\ runner' = [runner EXCEPT ![t] = "turn"]
  /\ UNCHANGED <<hints, deps, call, todo, ctxDone, leases, tail, run>>

(* Mutated form: the goroutine leaves without cancelling its thread. *)
WaitAbandons(t) ==
  /\ runner[t] = "waiting"
  /\ ctxDone[t] \/ t \notin Present
  /\ runner' = [runner EXCEPT ![t] = "exited"]
  /\ UNCHANGED <<status, hints, deps, call, turn, todo, ctxDone, leases, tail, run>>

(* Mutated form: the wait does not listen to the context. *)
WaitDeafToContext(t) ==
  /\ runner[t] = "waiting"
  /\ t \notin Present
  /\ Cancel(t)
  /\ runner' = [runner EXCEPT ![t] = "exited"]
  /\ UNCHANGED <<hints, deps, call, turn, todo, ctxDone, run>>

WaitCancelled(t) ==
  /\ runner[t] = "waiting"
  /\ ctxDone[t] \/ t \notin Present
  /\ Cancel(t)
  /\ runner' = [runner EXCEPT ![t] = "exited"]
  /\ UNCHANGED <<hints, deps, call, turn, todo, ctxDone, run>>

(* Mutated form: the completing goroutine forgets its dagFn. *)
CompleteFinishesLast(t) ==
  /\ runner[t] = "finished"
  /\ HookTerminal(t)
  /\ leases' = ReleaseLeases(t)
  /\ runner' = [runner EXCEPT ![t] = "exited"]
  /\ UNCHANGED <<status, hints, deps, call, turn, todo, ctxDone, tail>>

(* The rest of Complete: report the status, release the leases. *)
CompleteFinishes(t) ==
  /\ runner[t] = "finished"
  /\ HookTerminal(t)
  /\ leases' = ReleaseLeases(t)
  /\ runner' = [runner EXCEPT ![t] = "dag"]
  /\ UNCHANGED <<status, hints, deps, call, turn, todo, ctxDone, tail>>

-----------------------------------------------------------------------------
(* EvaluateDAG, run by a goroutine whose thread has completed (or found    *)
(* itself completed already): over a copy of the queued threads, oldest    *)
(* first, cancel those behind a failure and spawn those that are ready.    *)
DagLists(t) ==
  /\ runner[t] = "dag"
  /\ todo'   = [todo EXCEPT ![t] = {u \in Thread : status[u] = "queued"}]
  /\ runner' = [runner EXCEPT ![t] = "walk"]
  /\ UNCHANGED <<status, hints, deps, call, turn, ctxDone, leases, tail, run>>

Visits(t, u) == u \in todo[t] /\ \A w \in todo[t] : u <= w

Visited(t, u) == [todo EXCEPT ![t] = @ \ {u}]

DagChecksFailure(t, u) ==
  /\ runner[t] = "walk" /\ Visits(t, u)
  /\ runner' = [runner EXCEPT ![t] = IF IsBlockedByFailure(u) THEN "dagCascade" ELSE "dagCheck"]
  /\ UNCHANGED <<status, hints, deps, call, turn, todo, ctxDone, leases, tail, run>>

DagCascades(t, u) ==
  /\ runner[t] = "dagCascade" /\ Visits(t, u)
  /\ Cancel(u)
  /\ todo'   = Visited(t, u)
  /\ runner' = [runner EXCEPT ![t] = "walk"]
  /\ UNCHANGED <<hints, deps, call, turn, ctxDone, run>>

DagSkips(t, u) ==
  /\ runner[t] = "dagCheck" /\ Visits(t, u)
  /\ ~IsReady(u)
  /\ todo'   = Visited(t, u)
  /\ runner' = [runner EXCEPT ![t] = "walk"]
  /\ UNCHANGED <<status, hints, deps, call, turn, ctxDone, leases, tail, run>>

DagFindsReady(t, u) ==
  /\ runner[t] = "dagCheck" /\ Visits(t, u)
  /\ IsReady(u)
  /\ runner' = [runner EXCEPT ![t] = "dagSpawn"]
  /\ UNCHANGED <<status, hints, deps, call, turn, todo, ctxDone, leases, tail, run>>

DagStarts(t, u) ==
  /\ runner[t] = "dagSpawn" /\ Visits(t, u)
  /\ Start(u, [runner EXCEPT ![u] = "launch", ![t] = "dagLaunch"])
  /\ UNCHANGED <<call, todo>>

DagLosesStart(t, u) ==
  /\ runner[t] = "dagSpawn" /\ Visits(t, u)
  /\ ~CanStart(u)
  /\ todo'   = Visited(t, u)
  /\ runner' = [runner EXCEPT ![t] = "walk"]
  /\ UNCHANGED <<status, hints, deps, call, turn, ctxDone, leases, tail, run>>

DagLaunches(t, u) ==
  /\ runner[t] = "dagLaunch" /\ Visits(t, u)
  /\ HookThinking(u)
  /\ todo'   = Visited(t, u)
  /\ runner' = [runner EXCEPT ![u] = "turn", ![t] = "walk"]
  /\ UNCHANGED <<status, hints, deps, call, turn, ctxDone, leases, tail>>

DagEnds(t) ==
  /\ runner[t] = "walk" /\ todo[t] = {}
  /\ runner' = [runner EXCEPT ![t] = "exited"]
  /\ UNCHANGED <<status, hints, deps, call, turn, todo, ctxDone, leases, tail, run>>

-----------------------------------------------------------------------------
(* The user, the watchdog and the end of the session. *)

(* Cancel called from outside the thread: the cancel button, and the help  *)
(* resolver that gave up.                                                  *)
UserCancels(t) ==
  /\ "cancel" \in Faults
  /\ status[t] \in Active \/ \E p \in Path : leases[p] = t
  /\ t \in Present
  /\ Cancel(t)
  /\ UNCHANGED <<hints, deps, call, runner, turn, todo, ctxDone, run>>

(* The rest of Cancel on a thread that was active: cancel the context      *)
(* Start had stored, report the status, release the leases.                *)
FinishCancel(t) ==
  /\ <<"cancel", t>> \in tail
  /\ tail'    = tail \ {<<"cancel", t>>}
  /\ ctxDone' = [ctxDone EXCEPT ![t] = @ \/ runner[t] # "none"]
  /\ HookTerminal(t)
  /\ leases'  = ReleaseLeases(t)
  /\ UNCHANGED <<status, hints, deps, call, runner, turn, todo>>

(* watchdogScan: the victims are the threads past their age limit (10      *)
(* minutes queued, 30 minutes working), so with a working victim every     *)
(* older thread that is queued or working, with a queued one every older   *)
(* queued one, is a victim too.                                            *)
(* Mutated form: the scan does not skip threads that are over. *)
ExpirableOver == {t \in Thread : status[t] \in Status \ {"blocked", "cancelled"}}

Expirable == {t \in Thread : status[t] \in Queued \cup Working}

WatchdogScan(V) ==
  /\ "watchdog" \in Faults
  /\ V # {}
  /\ \A u \in V, w \in Expirable :
       w < u /\ (status[u] \in Working \/ status[w] \in Queued) => w \in V
  /\ status' = [t \in Thread |-> IF t \in V THEN "error" ELSE status[t]]
  /\ tail'   = tail \cup {<<"timeout", t>> : t \in V}
  /\ UNCHANGED <<hints, deps, call, runner, turn, todo, ctxDone, leases, run>>

(* After the scan the status is reported; the context stays alive and the  *)
(* leases stay where they are.                                             *)
FinishTimeout(t) ==
  /\ <<"timeout", t>> \in tail
  /\ tail' = tail \ {<<"timeout", t>>}
  /\ HookTerminal(t)
  /\ UNCHANGED <<status, hints, deps, call, runner, turn, todo, ctxDone, leases>>

(* CleanupSession: the records are deleted under the lock, contexts and    *)
(* leases follow.  A thread that is tooling is left alone.                 *)
Orphans == {t \in Thread : status[t] \in {"queued", "thinking", "blocked"}}

CleanupSession ==
  /\ "cleanup" \in Faults
  /\ Orphans # {}
  /\ status' = [t \in Thread |-> IF t \in Orphans THEN "gone" ELSE status[t]]
  /\ tail'   = tail \cup {<<"cleanup", t>> : t \in Orphans}
  /\ UNCHANGED <<hints, deps, call, runner, turn, todo, ctxDone, leases, run>>

FinishCleanup(t) ==
  /\ <<"cleanup", t>> \in tail
  /\ tail'    = tail \ {<<"cleanup", t>>}
  /\ ctxDone' = [ctxDone EXCEPT ![t] = @ \/ runner[t] # "none"]
  /\ leases'  = ReleaseLeases(t)
  /\ UNCHANGED <<status, hints, deps, call, runner, turn, todo, run>>

-----------------------------------------------------------------------------
CallStep(t) ==
  \/ ResolveDependencies(t)
  \/ AcquireLeases(t) \/ LeaseConflict(t)
  \/ Approved(t) \/ Rejected(t)
  \/ CallStarts(t) \/ CallLosesStart(t) \/ CallLaunches(t)

LoopStep(t) ==
  \/ TurnWithoutRecord(t) \/ TurnCancelled(t) \/ TurnCallsModel(t) \/ TurnsExhausted(t)
  \/ ChatCancelled(t) \/ ChatAnswers(t) \/ ChatCallsTools(t) \/ Fails(t)
  \/ ToolsReturn(t) \/ Finish(t) \/ RequestHelp(t) \/ WaitCancelled(t)
  \/ CompleteFinishes(t)

DagStep(t) ==
  \/ DagLists(t) \/ DagEnds(t)
  \/ \E u \in Thread :
       \/ DagChecksFailure(t, u) \/ DagCascades(t, u)
       \/ DagSkips(t, u) \/ DagFindsReady(t, u)
       \/ DagStarts(t, u) \/ DagLosesStart(t, u) \/ DagLaunches(t, u)

TailStep(t) == FinishCancel(t) \/ FinishTimeout(t) \/ FinishCleanup(t)

UserStep(t) == Delegate(t) \/ RequestThread(t) \/ InputArrives(t) \/ UserCancels(t)

Next ==
  \/ \E t \in Thread :
       CallStep(t) \/ LoopStep(t) \/ DagStep(t) \/ TailStep(t) \/ UserStep(t)
  \/ \E V \in SUBSET Expirable : WatchdogScan(V)
  \/ CleanupSession

Spec == Init /\ [][Next]_vars

(* The goroutines run: a model call, a tool, the preview gate (its timeout *)
(* is 30 seconds) and every critical section come to an end.  Users, the   *)
(* clock and the end of the session owe nothing.                           *)
Fairness ==
  \A t \in Thread :
    /\ WF_vars(CallStep(t))
    /\ WF_vars(LoopStep(t) \/ DagStep(t))
    /\ WF_vars(TailStep(t))

FairSpec == Spec /\ Fairness

-----------------------------------------------------------------------------
(* Type invariant. *)
TypeOK ==
  /\ status  \in [Thread -> Status \cup {"none", "gone"}]
  /\ hints   \in [Thread -> SUBSET Agent]
  /\ deps    \in [Thread -> SUBSET Thread]
  /\ call    \in [Thread -> CallPC]
  /\ runner  \in [Thread -> RunnerPC]
  /\ turn    \in [Thread -> 0..MaxTurns]
  /\ todo    \in [Thread -> SUBSET Thread]
  /\ ctxDone \in [Thread -> BOOLEAN]
  /\ leases  \in [Path -> Thread \cup {NoThread}]
  /\ tail    \in SUBSET (TailKind \X Thread)
  /\ run     \in [Thread -> RunState]

-----------------------------------------------------------------------------
(* Properties of the code that hold.                                       *)

Running == {"launch", "turn", "llm", "tools", "waiting"}

(* A thread's goroutine is launched once, however many EvaluateDAG walks   *)
(* and creating calls race to spawn it (dag.go: "spawned at most once").   *)
StartedOnce ==
  [][\A t \in Thread : runner'[t] = "launch" => runner[t] \in {"none", "launch"}]_vars

(* A result is never lost: nothing that runs concurrently, not even a      *)
(* watchdog scan, a cancellation or a second Complete, overwrites "done".  *)
DoneIsFinal ==
  [][\A t \in Thread : status[t] = "done" => status'[t] = "done"]_vars

(* Every thread shown as thinking, tooling or blocked has a goroutine that *)
(* is still driving it: a goroutine that ends leaves its thread terminal.  *)
ActiveHasGoroutine ==
  \A t \in Thread :
    status[t] \in Working \cup {"blocked"} => runner[t] \in Running

(* No tool runs before BeginRun was called for its thread, so before every *)
(* first tool there is a pre-run snapshot or a capture that failed, which  *)
(* the code tells the ledger or at least the log (checkpoint/manager.go:   *)
(* 118) and does not stop for.  The hook calls BeginRun only for a thread  *)
(* it still finds, and runOnce goes on only for a thread it still finds.   *)
CaptureBeforeTools ==
  \A t \in Thread : runner[t] = "tools" => run[t] # "none"

(* AcquireLeases is all or nothing, also against concurrent acquisitions   *)
(* and releases: who holds one of its paths holds all of them.             *)
LeasesAllOrNothing ==
  \A t \in Thread :
    (\E p \in Path : leases[p] = t) => \A p \in Intents[t] : leases[p] = t

(* A delegated thread whose delegation has returned runs under all of its  *)
(* leases for as long as nobody has cancelled it.                          *)
RunsUnderItsLeases ==
  \A t \in Thread :
    /\ call[t] \in {"launch", "returned"}
    /\ status[t] \in Working \cup {"blocked"}
    /\ ~ctxDone[t] /\ <<"cancel", t>> \notin tail
    => \A p \in Intents[t] : leases[p] = t

(* No lost wakeup: a thread its delegation left queued does not stay       *)
(* queued once everything it depends on is done, although IsReady, the     *)
(* completion of the dependencies and EvaluateDAG's copy of the queue are  *)
(* not atomic together.                                                    *)
NoLostWakeup ==
  \A t \in Thread :
    (call[t] = "returned" /\ status[t] = "queued" /\ IsReady(t)) ~> (status[t] # "queued")

(* A cancelled context stops the goroutine, wherever it was. *)
CancelStopsGoroutine ==
  \A t \in Thread : ctxDone[t] ~> (runner[t] \in {"none", "exited"})

(* Without help requests and before the watchdog's limits, the manager     *)
(* keeps the promise of ThreadLifecycle.                                   *)
Lifecycle ==
  [t \in Thread |->
    IF status[t] = "none" THEN "absent"
    ELSE IF status[t] \in Working \cup {"blocked"} THEN "running"
    ELSE status[t]]

L == INSTANCE ThreadLifecycle WITH state <- Lifecycle

KeepsLifecycle == L!Spec

-----------------------------------------------------------------------------
(* What the repository says of the threads and the code does not do.       *)

(* main.go: a rejected delegation is cancelled "before it can run".        *)
NotBeforeApproval ==
  \A t \in Thread : call[t] \in {"created", "resolved", "conflict", "leased"} => runner[t] = "none"

=============================================================================
