------------------------ MODULE ThreadManagerProofs ------------------------
(***************************************************************************)
(* Proofs about ThreadManager, for any number of threads, agents, paths    *)
(* and turns and any combination of faults.                                *)
(***************************************************************************)
EXTENDS ThreadManager, TLAPS

-----------------------------------------------------------------------------
(* Type correctness. *)

(* A goroutine that talks to the model or runs tools has a turn to spend.  *)
TurnBound == \A t \in Thread : runner[t] \in {"llm", "tools"} => turn[t] < MaxTurns

TypeInv == TypeOK /\ TurnBound

(* The empty session is well typed.                                        *)
LEMMA InitTypeInv == Init => TypeInv
  BY ThreadManagerAssumption DEF ThreadManagerAssumption, Init, TypeInv, TypeOK,
        TurnBound, CallPC, RunnerPC, TailKind, RunState, Status, Active, Terminal, Queued,
        Working, Thread, NoThread

(* What BeginRun leaves in the ledger has its type.                        *)
LEMMA BeginTyped ==
  ASSUME run \in [Thread -> RunState], NEW t \in Thread, HookThinking(t)
  PROVE  run' \in [Thread -> RunState]
  BY DEF HookThinking, Begins, RunState

(* So has what EndRun leaves there.                                        *)
LEMMA HookTyped ==
  ASSUME run \in [Thread -> RunState], NEW t \in Thread, HookTerminal(t)
  PROVE  run' \in [Thread -> RunState]
  BY DEF HookTerminal, Ends, RunState

(* A release leaves each path with a thread or with none.                  *)
LEMMA ReleaseTyped ==
  ASSUME leases \in [Path -> Thread \cup {NoThread}], NEW t \in Thread
  PROVE  ReleaseLeases(t) \in [Path -> Thread \cup {NoThread}]
  BY DEF ReleaseLeases

(* What Cancel writes, and that it keeps its types.                        *)
CancelledTypes ==
  /\ status \in [Thread -> Status \cup {"none", "gone"}]
  /\ leases \in [Path -> Thread \cup {NoThread}]
  /\ tail \in SUBSET (TailKind \X Thread)

(* Cancel's critical section leaves statuses, leases and tails well typed. *)
LEMMA CancelTyped ==
  ASSUME CancelledTypes, NEW t \in Thread, Cancel(t)
  PROVE  CancelledTypes'
  <1>1. status' \in [Thread -> Status \cup {"none", "gone"}]
    BY DEF CancelledTypes, Cancel, Status, Terminal
  <1>2. leases' \in [Path -> Thread \cup {NoThread}]
    BY ReleaseTyped DEF CancelledTypes, Cancel
  <1>3. tail' \in SUBSET (TailKind \X Thread)
    BY DEF CancelledTypes, Cancel, TailKind
  <1> QED BY <1>1, <1>2, <1>3 DEF CancelledTypes

(* No step of a creating call (ResolveDependencies to SpawnThread in       *)
(* delegateFn and the HTTP handler) leaves the types.                      *)
LEMMA CallTypeInv == ASSUME TypeInv, NEW t \in Thread, CallStep(t) PROVE TypeInv'
  <1> USE ThreadManagerAssumption DEF TypeInv, TypeOK, TurnBound, CallPC, RunnerPC,
        TailKind, RunState, Status, Active, Terminal, Queued, Working, Thread, NoThread
  <1> CancelledTypes BY DEF CancelledTypes
  <1>1. CASE ResolveDependencies(t)
    <2>1. CASE t \notin Present BY <1>1, <2>1 DEF ResolveDependencies
    <2>2. CASE t \in Present
      <3>1. PICK D \in SUBSET {u \in Present : \E a \in hints[t] : u \in Candidates(t,
            a)} :
              deps' = [deps EXCEPT ![t] = @ \cup D]
        BY <1>1, <2>2 DEF ResolveDependencies
      <3>2. D \subseteq Thread BY DEF Present
      <3>3. deps' \in [Thread -> SUBSET Thread] BY <3>1, <3>2
      <3> QED BY <1>1, <2>2, <3>3 DEF ResolveDependencies
    <2> QED BY <2>1, <2>2
  <1>2. CASE AcquireLeases(t) BY <1>2 DEF AcquireLeases, Conflict
  <1>3. CASE LeaseConflict(t) BY <1>3 DEF LeaseConflict
  <1>4. CASE Approved(t) BY <1>4 DEF Approved
  <1>5. CASE Rejected(t)
    <2>1. CancelledTypes' BY <1>5, CancelTyped DEF Rejected
    <2> QED BY <1>5, <2>1 DEF Rejected, CancelledTypes
  <1>6. CASE CallStarts(t) BY <1>6 DEF CallStarts, Start, CanStart
  <1>7. CASE CallLosesStart(t) BY <1>7 DEF CallLosesStart
  <1>8. CASE CallLaunches(t)
    <2>1. run' \in [Thread -> RunState] BY <1>8, BeginTyped DEF CallLaunches
    <2> QED BY <1>8, <2>1 DEF CallLaunches
  <1> QED BY <1>1, <1>2, <1>3, <1>4, <1>5, <1>6, <1>7, <1>8 DEF CallStep

(* No step of a thread's goroutine (runOnce, Complete, the wait for help)  *)
(* leaves the types, and the turn counter stays under MaxTurns.            *)
LEMMA LoopTypeInv == ASSUME TypeInv, NEW t \in Thread, LoopStep(t) PROVE TypeInv'
  <1> USE ThreadManagerAssumption DEF TypeInv, TypeOK, TurnBound, CallPC, RunnerPC,
        TailKind, RunState, Status, Active, Terminal, Queued, Working, Thread, NoThread
  <1> CancelledTypes BY DEF CancelledTypes
  <1>1. CASE TurnWithoutRecord(t) BY <1>1 DEF TurnWithoutRecord
  <1>2. CASE TurnCancelled(t) BY <1>2 DEF TurnCancelled, InLoop, ExitCancelled
  <1>3. CASE TurnCallsModel(t) BY <1>3 DEF TurnCallsModel, InLoop
  <1>4. CASE TurnsExhausted(t) BY <1>4 DEF TurnsExhausted, Complete
  <1>5. CASE ChatCancelled(t) BY <1>5 DEF ChatCancelled, ExitCancelled
  <1>6. CASE ChatAnswers(t) BY <1>6 DEF ChatAnswers, Complete
  <1>7. CASE ChatCallsTools(t) BY <1>7 DEF ChatCallsTools
  <1>8. CASE Fails(t) BY <1>8 DEF Fails, Complete
  <1>9. CASE ToolsReturn(t) BY SMTT(30), <1>9 DEF ToolsReturn
  <1>10. CASE Finish(t) BY <1>10 DEF Finish, Complete
  <1>11. CASE RequestHelp(t) BY <1>11 DEF RequestHelp
  <1>12. CASE WaitCancelled(t)
    <2>1. CancelledTypes' BY <1>12, CancelTyped DEF WaitCancelled
    <2> QED BY <1>12, <2>1 DEF WaitCancelled, CancelledTypes
  <1>13. CASE CompleteFinishes(t)
    <2>1. run' \in [Thread -> RunState] BY <1>13, HookTyped DEF CompleteFinishes
    <2>2. leases' \in [Path -> Thread \cup {NoThread}] BY <1>13, ReleaseTyped DEF CompleteFinishes
    <2> QED BY <1>13, <2>1, <2>2 DEF CompleteFinishes
  <1> QED BY <1>1, <1>2, <1>3, <1>4, <1>5, <1>6, <1>7, <1>8, <1>9, <1>10, <1>11, <1>12,
        <1>13 DEF LoopStep

(* No step of an EvaluateDAG walk leaves the types.                        *)
LEMMA DagTypeInv == ASSUME TypeInv, NEW t \in Thread, DagStep(t) PROVE TypeInv'
  <1> USE ThreadManagerAssumption DEF TypeInv, TypeOK, TurnBound, CallPC, RunnerPC,
        TailKind, RunState, Status, Active, Terminal, Queued, Working, Thread, NoThread
  <1> CancelledTypes BY DEF CancelledTypes
  <1>1. CASE DagLists(t) BY <1>1 DEF DagLists
  <1>2. CASE DagEnds(t) BY <1>2 DEF DagEnds
  <1>3. ASSUME NEW u \in Thread, DagChecksFailure(t, u) PROVE TypeInv'
    BY <1>3 DEF DagChecksFailure
  <1>4. ASSUME NEW u \in Thread, DagCascades(t, u) PROVE TypeInv'
    <2>1. CancelledTypes' BY <1>4, CancelTyped DEF DagCascades
    <2> QED BY <1>4, <2>1 DEF DagCascades, CancelledTypes, Visited
  <1>5. ASSUME NEW u \in Thread, DagSkips(t, u) PROVE TypeInv'
    BY <1>5 DEF DagSkips, Visited
  <1>6. ASSUME NEW u \in Thread, DagFindsReady(t, u) PROVE TypeInv'
    BY <1>6 DEF DagFindsReady
  <1>7. ASSUME NEW u \in Thread, DagStarts(t, u) PROVE TypeInv'
    BY <1>7 DEF DagStarts, Start, CanStart
  <1>8. ASSUME NEW u \in Thread, DagLosesStart(t, u) PROVE TypeInv'
    BY <1>8 DEF DagLosesStart, Visited
  <1>9. ASSUME NEW u \in Thread, DagLaunches(t, u) PROVE TypeInv'
    <2>1. run' \in [Thread -> RunState] BY <1>9, BeginTyped DEF DagLaunches
    <2> QED BY <1>9, <2>1 DEF DagLaunches, Visited
  <1> QED BY <1>1, <1>2, <1>3, <1>4, <1>5, <1>6, <1>7, <1>8, <1>9 DEF DagStep

(* The unlocked ends of Cancel, the watchdog and CleanupSession, and what  *)
(* users do, keep the types.                                               *)
LEMMA OtherTypeInv ==
  ASSUME TypeInv, NEW t \in Thread, TailStep(t) \/ UserStep(t) PROVE TypeInv'
  <1> USE ThreadManagerAssumption DEF TypeInv, TypeOK, TurnBound, CallPC, RunnerPC,
        TailKind, RunState, Status, Active, Terminal, Queued, Working, Thread, NoThread
  <1> CancelledTypes BY DEF CancelledTypes
  <1>1. CASE FinishCancel(t)
    <2>1. run' \in [Thread -> RunState] BY <1>1, HookTyped DEF FinishCancel
    <2>2. leases' \in [Path -> Thread \cup {NoThread}] BY <1>1, ReleaseTyped DEF FinishCancel
    <2>3. ctxDone' \in [Thread -> BOOLEAN] BY <1>1 DEF FinishCancel
    <2>4. tail' \in SUBSET (TailKind \X Thread) BY <1>1 DEF FinishCancel
    <2> QED BY <1>1, <2>1, <2>2, <2>3, <2>4 DEF FinishCancel
  <1>2. CASE FinishTimeout(t)
    <2>1. run' \in [Thread -> RunState] BY <1>2, HookTyped DEF FinishTimeout
    <2> QED BY <1>2, <2>1 DEF FinishTimeout
  <1>3. CASE FinishCleanup(t)
    <2>1. leases' \in [Path -> Thread \cup {NoThread}] BY <1>3, ReleaseTyped DEF FinishCleanup
    <2>2. ctxDone' \in [Thread -> BOOLEAN] BY <1>3 DEF FinishCleanup
    <2>3. tail' \in SUBSET (TailKind \X Thread) BY <1>3 DEF FinishCleanup
    <2> QED BY <1>3, <2>1, <2>2, <2>3 DEF FinishCleanup
  <1>4. CASE Delegate(t) BY <1>4 DEF Delegate, Create
  <1>5. CASE RequestThread(t) BY <1>5 DEF RequestThread, Create, Present
  <1>6. CASE InputArrives(t) BY <1>6 DEF InputArrives
  <1>7. CASE UserCancels(t)
    <2>1. CancelledTypes' BY <1>7, CancelTyped DEF UserCancels
    <2> QED BY <1>7, <2>1 DEF UserCancels, CancelledTypes
  <1> QED BY <1>1, <1>2, <1>3, <1>4, <1>5, <1>6, <1>7 DEF TailStep, UserStep

(* Every reachable state of the manager is well typed: in particular       *)
(* runOnce never takes more than MaxTurns turns, whatever faults occur.    *)
THEOREM TypeCorrect == Spec => []TypeOK
  <1>1. ASSUME TypeInv, [Next]_vars PROVE TypeInv'
    <2>1. ASSUME NEW t \in Thread,
                 CallStep(t) \/ LoopStep(t) \/ DagStep(t) \/ TailStep(t) \/ UserStep(t)
          PROVE  TypeInv'
      BY <1>1, <2>1, CallTypeInv, LoopTypeInv, DagTypeInv, OtherTypeInv
    <2>2. ASSUME NEW V \in SUBSET Expirable, WatchdogScan(V) PROVE TypeInv'
      BY <1>1, <2>2 DEF WatchdogScan, Expirable, TypeInv, TypeOK, TurnBound, CallPC,
            RunnerPC, TailKind, RunState, Status, Active, Terminal, Queued, Working, Thread,
            NoThread
    <2>3. CASE CleanupSession
      BY <1>1, <2>3 DEF CleanupSession, Orphans, TypeInv, TypeOK, TurnBound, CallPC,
            RunnerPC, TailKind, RunState, Status, Active, Terminal, Queued, Working, Thread,
            NoThread
    <2>4. CASE UNCHANGED vars
      BY <1>1, <2>4 DEF vars, TypeInv, TypeOK, TurnBound
    <2> QED BY <1>1, <2>1, <2>2, <2>3, <2>4 DEF Next
  <1>2. TypeInv => TypeOK BY DEF TypeInv
  <1> QED BY InitTypeInv, <1>1, <1>2, PTL DEF Spec

-----------------------------------------------------------------------------
(* Launching.  A thread nobody has started has no goroutine; whoever has   *)
(* started it, and nobody else, launches it.                               *)

NotStarted == \A t \in Thread : status[t] \in {"none", "queued"} => runner[t] = "none"

LaunchesOwn ==
  /\ \A t \in Thread : call[t] = "launch" => runner[t] = "launch"
  /\ \A t, u \in Thread :
       runner[t] = "dagLaunch" /\ Visits(t, u) => runner[u] = "launch" /\ call[u] # "launch"
  /\ \A t, w, u \in Thread :
       /\ runner[t] = "dagLaunch" /\ Visits(t, u)
       /\ runner[w] = "dagLaunch" /\ Visits(w, u)
       => t = w

(* What the status says of the goroutine. *)
Over == {"finished", "dag", "walk", "dagCascade", "dagCheck", "dagSpawn", "dagLaunch", "exited"}

DoneIsOver      == \A t \in Thread : status[t] = "done" => runner[t] \in Over
BlockedIsWaiting == \A t \in Thread : status[t] = "blocked" => runner[t] = "waiting"

(* BeginRun is called before the first tool. *)
FirstTurn == \A t \in Thread : runner[t] \in {"none", "launch"} => turn[t] = 0

CaptureTried ==
  /\ \A t \in Thread : runner[t] \in {"llm", "tools", "waiting"} => run[t] # "none"
  /\ \A t \in Thread : runner[t] = "turn" => run[t] # "none" \/ (status[t] = "gone" /\ turn[t] = 0)

Launching == NotStarted /\ LaunchesOwn

(* A creating call launches only the thread it has itself started: Start   *)
(* in SpawnThread is the only gate.                                        *)
LEMMA CallLaunching ==
  ASSUME TypeOK, Launching, NEW t \in Thread, CallStep(t)
  PROVE  Launching'
  <1> USE DEF TypeOK, CallPC, RunnerPC, Status, Active, Terminal, Queued, Working,
        Present,
              Launching, NotStarted, LaunchesOwn, Visits
  <1>1. CASE ResolveDependencies(t) BY <1>1 DEF ResolveDependencies, Present, Candidates
  <1>2. CASE AcquireLeases(t) BY <1>2 DEF AcquireLeases, Conflict
  <1>3. CASE LeaseConflict(t) BY <1>3 DEF LeaseConflict
  <1>4. CASE Approved(t) BY <1>4 DEF Approved
  <1>5. CASE Rejected(t) BY <1>5 DEF Rejected, Cancel, ReleaseLeases
  <1>6. CASE CallStarts(t) BY ZenonT(60), <1>6 DEF CallStarts, Start, CanStart
  <1>7. CASE CallLosesStart(t) BY <1>7 DEF CallLosesStart
  <1>8. CASE CallLaunches(t) BY <1>8 DEF CallLaunches, HookThinking, Begins, Present
  <1> QED BY <1>1, <1>2, <1>3, <1>4, <1>5, <1>6, <1>7, <1>8 DEF CallStep

(* A running goroutine never makes a thread startable again, so launching  *)
(* rights are untouched.                                                   *)
LEMMA LoopLaunching ==
  ASSUME TypeOK, Launching, NEW t \in Thread, LoopStep(t)
  PROVE  Launching'
  <1> USE DEF TypeOK, CallPC, RunnerPC, Status, Active, Terminal, Queued, Working,
        Present,
              Launching, NotStarted, LaunchesOwn, Visits
  <1>1. CASE TurnWithoutRecord(t) BY <1>1 DEF TurnWithoutRecord
  <1>2. CASE TurnCancelled(t) BY ZenonT(60), <1>2 DEF TurnCancelled, InLoop, ExitCancelled
  <1>3. CASE TurnCallsModel(t) BY <1>3 DEF TurnCallsModel, InLoop
  <1>4. CASE TurnsExhausted(t) BY <1>4 DEF TurnsExhausted, Complete
  <1>5. CASE ChatCancelled(t) BY <1>5 DEF ChatCancelled, ExitCancelled
  <1>6. CASE ChatAnswers(t) BY <1>6 DEF ChatAnswers, Complete
  <1>7. CASE ChatCallsTools(t) BY SMTT(30), <1>7 DEF ChatCallsTools
  <1>8. CASE Fails(t) BY ZenonT(60), <1>8 DEF Fails, Complete
  <1>9. CASE ToolsReturn(t) BY <1>9 DEF ToolsReturn
  <1>10. CASE Finish(t) BY <1>10 DEF Finish, Complete
  <1>11. CASE RequestHelp(t) BY ZenonT(60), <1>11 DEF RequestHelp
  <1>12. CASE WaitCancelled(t) BY <1>12 DEF WaitCancelled, Cancel, ReleaseLeases
  <1>13. CASE CompleteFinishes(t) BY ZenonT(60), <1>13 DEF CompleteFinishes, HookTerminal, Ends,
        ReleaseLeases
  <1> QED BY <1>1, <1>2, <1>3, <1>4, <1>5, <1>6, <1>7, <1>8, <1>9, <1>10, <1>11, <1>12,
        <1>13 DEF LoopStep

(* A walk that wins Start owns the launch of that thread, and no other     *)
(* walk or call does: the interesting steps are DagStarts and DagLaunches. *)
LEMMA DagLaunching ==
  ASSUME TypeOK, Launching, NEW t \in Thread, DagStep(t)
  PROVE  Launching'
  <1> USE DEF TypeOK, CallPC, RunnerPC, Status, Active, Terminal, Queued, Working,
        Present,
              Launching, NotStarted, LaunchesOwn, Visits
  <1>1. CASE DagLists(t) BY SMTT(30), <1>1 DEF DagLists
  <1>2. CASE DagEnds(t) BY <1>2 DEF DagEnds
  <1>3. ASSUME NEW u \in Thread, DagChecksFailure(t, u) PROVE Launching'
    BY ZenonT(60), <1>3 DEF DagChecksFailure
  <1>4. ASSUME NEW u \in Thread, DagCascades(t, u) PROVE Launching'
    BY SMTT(30), <1>4 DEF DagCascades, Cancel, ReleaseLeases, Visited
  <1>5. ASSUME NEW u \in Thread, DagSkips(t, u) PROVE Launching'
    BY <1>5 DEF DagSkips, Visited
  <1>6. ASSUME NEW u \in Thread, DagFindsReady(t, u) PROVE Launching'
    BY <1>6 DEF DagFindsReady
  <1>7. ASSUME NEW u \in Thread, DagStarts(t, u) PROVE Launching'
    <2>1. /\ runner[t] = "dagSpawn" /\ Visits(t, u)
          /\ status[u] = "queued" /\ status' = [status EXCEPT ![u] = "thinking"]
          /\ runner' = [runner EXCEPT ![u] = "launch", ![t] = "dagLaunch"]
          /\ UNCHANGED <<call, todo>>
      BY <1>7 DEF DagStarts, Start, CanStart
    <2>2. u # t /\ runner[u] = "none" /\ call[u] # "launch" BY <2>1
    <2>3. /\ runner'[u] = "launch" /\ runner'[t] = "dagLaunch"
          /\ \A w \in Thread \ {t, u} : runner'[w] = runner[w]
      BY <2>1, <2>2
    <2>4. \A w \in Thread : runner[w] = "dagLaunch" => ~Visits(w, u) BY <2>2
    <2>5. \A w, v \in Thread : Visits(w, v)' <=> Visits(w, v) BY <2>1
    <2>6. \A v \in Thread : Visits(t, v) => v = u
      BY <2>1, ThreadManagerAssumption DEF ThreadManagerAssumption, Thread
    <2>7. NotStarted' BY <2>1, <2>3
    <2>8. LaunchesOwn'
      <3>1. \A w \in Thread : call'[w] = "launch" => runner'[w] = "launch"
        BY <2>1, <2>2, <2>3
      <3>2. \A w, v \in Thread :
              runner'[w] = "dagLaunch" /\ Visits(w, v)' => runner'[v] = "launch" /\ call'[v] # "launch"
        BY SMTT(30), <2>1, <2>2, <2>3, <2>5, <2>6
      <3>3. ASSUME NEW w \in Thread \ {t}, NEW v \in Thread, runner'[w] = "dagLaunch",
            Visits(w, v)'
            PROVE  runner[w] = "dagLaunch" /\ Visits(w, v) /\ v # u
        <4>1. runner[w] = "dagLaunch" BY <2>3, <3>3
        <4>2. Visits(w, v) BY <2>5, <3>3
        <4> QED BY <2>4, <4>1, <4>2
      <3>4. ASSUME NEW x \in Thread, NEW w \in Thread, NEW v \in Thread,
                   runner'[x] = "dagLaunch", Visits(x, v)',
                   runner'[w] = "dagLaunch", Visits(w, v)'
            PROVE  x = w
        <4>1. CASE x # t /\ w # t BY SMTT(30), <3>3, <3>4, <4>1
        <4>2. CASE x = t \/ w = t
          <5>1. v = u BY <2>5, <2>6, <3>4, <4>2
          <5> QED BY <3>3, <3>4, <4>2, <5>1
        <4> QED BY <4>1, <4>2
      <3> QED BY <3>1, <3>2, <3>4
    <2> QED BY <2>7, <2>8
  <1>8. ASSUME NEW u \in Thread, DagLosesStart(t, u) PROVE Launching'
    BY <1>8 DEF DagLosesStart, Visited
  <1>9. ASSUME NEW u \in Thread, DagLaunches(t, u) PROVE Launching'
    <2>1. /\ runner[t] = "dagLaunch" /\ Visits(t, u)
          /\ todo' = [todo EXCEPT ![t] = @ \ {u}]
          /\ runner' = [runner EXCEPT ![u] = "turn", ![t] = "walk"]
          /\ UNCHANGED <<status, call>>
      BY <1>9 DEF DagLaunches, Visited
    <2>2. u # t /\ runner[u] = "launch" /\ call[u] # "launch" BY <2>1
    <2>3. /\ runner'[u] = "turn" /\ runner'[t] = "walk"
          /\ \A w \in Thread \ {t, u} : runner'[w] = runner[w]
      BY <2>1, <2>2
    <2>4. \A w \in Thread \ {t} : runner[w] = "dagLaunch" => ~Visits(w, u) BY <2>1
    <2>5. \A w \in Thread \ {t} : todo'[w] = todo[w] BY <2>1
    <2>6. \A w \in Thread \ {t}, v \in Thread : Visits(w, v)' <=> Visits(w, v) BY <2>5
    <2>7. NotStarted' BY <2>1, <2>2, <2>3
    <2>8. LaunchesOwn'
      <3>1. \A w \in Thread : call'[w] = "launch" => runner'[w] = "launch"
        BY <2>1, <2>2, <2>3
      <3>2. ASSUME NEW w \in Thread, runner'[w] = "dagLaunch"
            PROVE  w \notin {t, u} /\ runner[w] = "dagLaunch"
        BY <2>3, <3>2
      <3>3. \A w, v \in Thread :
              runner'[w] = "dagLaunch" /\ Visits(w, v)' => runner'[v] = "launch" /\ call'[v] # "launch"
        <4>1. SUFFICES ASSUME NEW w \in Thread, NEW v \in Thread,
                              runner'[w] = "dagLaunch", Visits(w, v)'
                       PROVE  runner'[v] = "launch" /\ call'[v] # "launch"
          OBVIOUS
        <4>2. Visits(w, v) /\ runner[w] = "dagLaunch" BY <2>6, <3>2, <4>1
        <4>3. runner[v] = "launch" /\ call[v] # "launch" /\ v # u /\ v # t
          BY <2>1, <2>4, <3>2, <4>1, <4>2
        <4> QED BY <2>1, <2>3, <4>3
      <3>4. \A x, w, v \in Thread :
              /\ runner'[x] = "dagLaunch" /\ Visits(x, v)'
              /\ runner'[w] = "dagLaunch" /\ Visits(w, v)'
              => x = w
        BY <2>6, <3>2
      <3> QED BY <3>1, <3>3, <3>4
    <2> QED BY <2>7, <2>8
  <1> QED BY <1>1, <1>2, <1>3, <1>4, <1>5, <1>6, <1>7, <1>8, <1>9 DEF DagStep

(* Creation, cancellation, input and the unlocked ends of transitions give *)
(* nobody a second right to launch.                                        *)
LEMMA OtherLaunching ==
  ASSUME TypeOK, Launching, NEW t \in Thread, TailStep(t) \/ UserStep(t)
  PROVE  Launching'
  <1> USE DEF TypeOK, CallPC, RunnerPC, Status, Active, Terminal, Queued, Working,
        Present,
              Launching, NotStarted, LaunchesOwn, Visits
  <1>1. CASE FinishCancel(t) BY <1>1 DEF FinishCancel, HookTerminal, Ends, ReleaseLeases
  <1>2. CASE FinishTimeout(t) BY <1>2 DEF FinishTimeout, HookTerminal, Ends
  <1>3. CASE FinishCleanup(t) BY <1>3 DEF FinishCleanup, ReleaseLeases
  <1>4. CASE Delegate(t)
    <2>1. /\ status[t] = "none" /\ status' = [status EXCEPT ![t] = "queued"]
          /\ call' = [call EXCEPT ![t] = "created"]
          /\ UNCHANGED <<runner, todo>>
      BY <1>4 DEF Delegate, Create
    <2> QED BY <2>1
  <1>5. CASE RequestThread(t)
    <2>1. /\ status[t] = "none" /\ status' = [status EXCEPT ![t] = "queued"]
          /\ call' = [call EXCEPT ![t] = "spawn"]
          /\ UNCHANGED <<runner, todo>>
      BY <1>5 DEF RequestThread, Create
    <2> QED BY <2>1
  <1>6. CASE InputArrives(t) BY SMTT(30), <1>6 DEF InputArrives
  <1>7. CASE UserCancels(t) BY <1>7 DEF UserCancels, Cancel, ReleaseLeases
  <1> QED BY <1>1, <1>2, <1>3, <1>4, <1>5, <1>6, <1>7 DEF TailStep, UserStep

StatusTells == DoneIsOver /\ BlockedIsWaiting /\ ActiveHasGoroutine

(* A creating call writes no done and no blocked, and gives an active      *)
(* status a goroutine when it starts a thread.                             *)
LEMMA CallStatusTells ==
  ASSUME TypeOK, Launching, StatusTells, NEW t \in Thread, CallStep(t)
  PROVE  StatusTells'
  <1> USE DEF TypeOK, CallPC, RunnerPC, Status, Active, Terminal, Queued, Working,
        Present,
              Launching, NotStarted, LaunchesOwn, Visits, StatusTells, DoneIsOver, BlockedIsWaiting,
              ActiveHasGoroutine, Running, Over
  <1>1. CASE ResolveDependencies(t) BY <1>1 DEF ResolveDependencies, Present, Candidates
  <1>2. CASE AcquireLeases(t) BY <1>2 DEF AcquireLeases, Conflict
  <1>3. CASE LeaseConflict(t) BY <1>3 DEF LeaseConflict
  <1>4. CASE Approved(t) BY <1>4 DEF Approved
  <1>5. CASE Rejected(t) BY <1>5 DEF Rejected, Cancel, ReleaseLeases
  <1>6. CASE CallStarts(t) BY <1>6 DEF CallStarts, Start, CanStart
  <1>7. CASE CallLosesStart(t) BY <1>7 DEF CallLosesStart
  <1>8. CASE CallLaunches(t) BY <1>8 DEF CallLaunches, HookThinking, Begins, Present
  <1> QED BY <1>1, <1>2, <1>3, <1>4, <1>5, <1>6, <1>7, <1>8 DEF CallStep

(* The goroutine that writes done is past its loop, the one that writes    *)
(* blocked waits, and one that ends leaves no active status behind.        *)
LEMMA LoopStatusTells ==
  ASSUME TypeOK, Launching, StatusTells, NEW t \in Thread, LoopStep(t)
  PROVE  StatusTells'
  <1> USE DEF TypeOK, CallPC, RunnerPC, Status, Active, Terminal, Queued, Working,
        Present,
              Launching, NotStarted, LaunchesOwn, Visits, StatusTells, DoneIsOver, BlockedIsWaiting,
              ActiveHasGoroutine, Running, Over
  <1>1. CASE TurnWithoutRecord(t) BY <1>1 DEF TurnWithoutRecord
  <1>2. CASE TurnCancelled(t) BY <1>2 DEF TurnCancelled, InLoop, ExitCancelled
  <1>3. CASE TurnCallsModel(t) BY <1>3 DEF TurnCallsModel, InLoop
  <1>4. CASE TurnsExhausted(t) BY <1>4 DEF TurnsExhausted, Complete
  <1>5. CASE ChatCancelled(t) BY <1>5 DEF ChatCancelled, ExitCancelled
  <1>6. CASE ChatAnswers(t) BY <1>6 DEF ChatAnswers, Complete
  <1>7. CASE ChatCallsTools(t) BY <1>7 DEF ChatCallsTools
  <1>8. CASE Fails(t) BY <1>8 DEF Fails, Complete
  <1>9. CASE ToolsReturn(t) BY <1>9 DEF ToolsReturn
  <1>10. CASE Finish(t) BY <1>10 DEF Finish, Complete
  <1>11. CASE RequestHelp(t) BY <1>11 DEF RequestHelp
  <1>12. CASE WaitCancelled(t) BY <1>12 DEF WaitCancelled, Cancel, ReleaseLeases
  <1>13. CASE CompleteFinishes(t) BY <1>13 DEF CompleteFinishes, HookTerminal, Ends,
        ReleaseLeases
  <1> QED BY <1>1, <1>2, <1>3, <1>4, <1>5, <1>6, <1>7, <1>8, <1>9, <1>10, <1>11, <1>12,
        <1>13 DEF LoopStep

(* A walk only starts or cancels queued threads, so what the other         *)
(* statuses say of their goroutines stays true.                            *)
LEMMA DagStatusTells ==
  ASSUME TypeOK, Launching, StatusTells, NEW t \in Thread, DagStep(t)
  PROVE  StatusTells'
  <1> USE DEF TypeOK, CallPC, RunnerPC, Status, Active, Terminal, Queued, Working,
        Present,
              Launching, NotStarted, LaunchesOwn, Visits, StatusTells, DoneIsOver, BlockedIsWaiting,
              ActiveHasGoroutine, Running, Over
  <1>1. CASE DagLists(t) BY <1>1 DEF DagLists
  <1>2. CASE DagEnds(t) BY <1>2 DEF DagEnds
  <1>3. ASSUME NEW u \in Thread, DagChecksFailure(t, u) PROVE StatusTells'
    BY <1>3 DEF DagChecksFailure
  <1>4. ASSUME NEW u \in Thread, DagCascades(t, u) PROVE StatusTells'
    BY <1>4 DEF DagCascades, Cancel, ReleaseLeases, Visited
  <1>5. ASSUME NEW u \in Thread, DagSkips(t, u) PROVE StatusTells'
    BY <1>5 DEF DagSkips, Visited
  <1>6. ASSUME NEW u \in Thread, DagFindsReady(t, u) PROVE StatusTells'
    BY <1>6 DEF DagFindsReady
  <1>7. ASSUME NEW u \in Thread, DagStarts(t, u) PROVE StatusTells'
    BY <1>7 DEF DagStarts, Start, CanStart
  <1>8. ASSUME NEW u \in Thread, DagLosesStart(t, u) PROVE StatusTells'
    BY <1>8 DEF DagLosesStart, Visited
  <1>9. ASSUME NEW u \in Thread, DagLaunches(t, u) PROVE StatusTells'
    <2>1. runner[t] = "dagLaunch" /\ runner[u] = "launch" /\ UNCHANGED status
      BY <1>9 DEF DagLaunches
    <2>2. /\ runner'[t] = "walk" /\ runner'[u] = "turn"
          /\ \A w \in Thread : w # t /\ w # u => runner'[w] = runner[w]
      BY <1>9, <2>1 DEF DagLaunches
    <2>3. \A w \in Thread :
            /\ status[w] = "done" => runner[w] \in Over
            /\ status[w] = "blocked" => runner[w] = "waiting"
            /\ status[w] \in Working \cup {"blocked"} => runner[w] \in Running
      OBVIOUS
    <2>4. \A w \in Thread :
            /\ status[w] = "done" => runner'[w] \in Over
            /\ status[w] = "blocked" => runner'[w] = "waiting"
            /\ status[w] \in Working \cup {"blocked"} => runner'[w] \in Running
      BY <2>1, <2>2, <2>3
    <2> QED
      BY <2>1, <2>4
  <1> QED BY <1>1, <1>2, <1>3, <1>4, <1>5, <1>6, <1>7, <1>8, <1>9 DEF DagStep

(* Users and the unlocked ends of transitions end threads or add queued    *)
(* ones; neither breaks what a status says of its goroutine.               *)
LEMMA OtherStatusTells ==
  ASSUME TypeOK, Launching, StatusTells, NEW t \in Thread, TailStep(t) \/ UserStep(t)
  PROVE  StatusTells'
  <1> USE DEF TypeOK, CallPC, RunnerPC, Status, Active, Terminal, Queued, Working,
        Present,
              Launching, NotStarted, LaunchesOwn, Visits, StatusTells, DoneIsOver, BlockedIsWaiting,
              ActiveHasGoroutine, Running, Over
  <1>1. CASE FinishCancel(t) BY <1>1 DEF FinishCancel, HookTerminal, Ends, ReleaseLeases
  <1>2. CASE FinishTimeout(t) BY <1>2 DEF FinishTimeout, HookTerminal, Ends
  <1>3. CASE FinishCleanup(t) BY <1>3 DEF FinishCleanup, ReleaseLeases
  <1>4. CASE Delegate(t) BY <1>4 DEF Delegate, Create
  <1>5. CASE RequestThread(t) BY <1>5 DEF RequestThread, Create, Present
  <1>6. CASE InputArrives(t) BY <1>6 DEF InputArrives
  <1>7. CASE UserCancels(t) BY <1>7 DEF UserCancels, Cancel, ReleaseLeases
  <1> QED BY <1>1, <1>2, <1>3, <1>4, <1>5, <1>6, <1>7 DEF TailStep, UserStep

Snapshots == FirstTurn /\ CaptureTried

(* The creating call runs the thinking hook, which begins the checkpoint   *)
(* run, before it launches the goroutine.                                  *)
LEMMA CallSnapshots ==
  ASSUME TypeOK, Launching, Snapshots, NEW t \in Thread, CallStep(t)
  PROVE  Snapshots'
  <1> USE DEF TypeOK, CallPC, RunnerPC, Status, Active, Terminal, Queued, Working,
        Present,
              Launching, NotStarted, LaunchesOwn, Visits, Snapshots, FirstTurn, CaptureTried
  <1>1. CASE ResolveDependencies(t) BY <1>1 DEF ResolveDependencies, Present, Candidates
  <1>2. CASE AcquireLeases(t) BY <1>2 DEF AcquireLeases, Conflict
  <1>3. CASE LeaseConflict(t) BY <1>3 DEF LeaseConflict
  <1>4. CASE Approved(t) BY <1>4 DEF Approved
  <1>5. CASE Rejected(t) BY <1>5 DEF Rejected, Cancel, ReleaseLeases
  <1>6. CASE CallStarts(t) BY <1>6 DEF CallStarts, Start, CanStart
  <1>7. CASE CallLosesStart(t) BY <1>7 DEF CallLosesStart
  <1>8. CASE CallLaunches(t) BY <1>8 DEF CallLaunches, HookThinking, Begins, Present
  <1> QED BY <1>1, <1>2, <1>3, <1>4, <1>5, <1>6, <1>7, <1>8 DEF CallStep

(* A goroutine reaches the model and the tools only after a turn that      *)
(* found the record, hence after BeginRun.                                 *)
LEMMA LoopSnapshots ==
  ASSUME TypeOK, Launching, Snapshots, NEW t \in Thread, LoopStep(t)
  PROVE  Snapshots'
  <1> USE DEF TypeOK, CallPC, RunnerPC, Status, Active, Terminal, Queued, Working,
        Present,
              Launching, NotStarted, LaunchesOwn, Visits, Snapshots, FirstTurn, CaptureTried
  <1>1. CASE TurnWithoutRecord(t) BY <1>1 DEF TurnWithoutRecord
  <1>2. CASE TurnCancelled(t) BY <1>2 DEF TurnCancelled, InLoop, ExitCancelled
  <1>3. CASE TurnCallsModel(t) BY <1>3 DEF TurnCallsModel, InLoop
  <1>4. CASE TurnsExhausted(t) BY <1>4 DEF TurnsExhausted, Complete
  <1>5. CASE ChatCancelled(t) BY <1>5 DEF ChatCancelled, ExitCancelled
  <1>6. CASE ChatAnswers(t) BY <1>6 DEF ChatAnswers, Complete
  <1>7. CASE ChatCallsTools(t) BY <1>7 DEF ChatCallsTools
  <1>8. CASE Fails(t) BY <1>8 DEF Fails, Complete
  <1>9. CASE ToolsReturn(t) BY <1>9 DEF ToolsReturn
  <1>10. CASE Finish(t) BY <1>10 DEF Finish, Complete
  <1>11. CASE RequestHelp(t) BY <1>11 DEF RequestHelp
  <1>12. CASE WaitCancelled(t) BY <1>12 DEF WaitCancelled, Cancel, ReleaseLeases
  <1>13. CASE CompleteFinishes(t) BY <1>13 DEF CompleteFinishes, HookTerminal, Ends,
        ReleaseLeases
  <1> QED BY <1>1, <1>2, <1>3, <1>4, <1>5, <1>6, <1>7, <1>8, <1>9, <1>10, <1>11, <1>12,
        <1>13 DEF LoopStep

(* A walk runs the thinking hook before it launches the goroutine, exactly *)
(* as a creating call does.                                                *)
LEMMA DagSnapshots ==
  ASSUME TypeOK, Launching, Snapshots, NEW t \in Thread, DagStep(t)
  PROVE  Snapshots'
  <1> USE DEF TypeOK, CallPC, RunnerPC, Status, Active, Terminal, Queued, Working,
        Present,
              Launching, NotStarted, LaunchesOwn, Visits, Snapshots, FirstTurn, CaptureTried
  <1>1. CASE DagLists(t) BY <1>1 DEF DagLists
  <1>2. CASE DagEnds(t) BY <1>2 DEF DagEnds
  <1>3. ASSUME NEW u \in Thread, DagChecksFailure(t, u) PROVE Snapshots'
    BY <1>3 DEF DagChecksFailure
  <1>4. ASSUME NEW u \in Thread, DagCascades(t, u) PROVE Snapshots'
    BY <1>4 DEF DagCascades, Cancel, ReleaseLeases, Visited
  <1>5. ASSUME NEW u \in Thread, DagSkips(t, u) PROVE Snapshots'
    BY <1>5 DEF DagSkips, Visited
  <1>6. ASSUME NEW u \in Thread, DagFindsReady(t, u) PROVE Snapshots'
    BY <1>6 DEF DagFindsReady
  <1>7. ASSUME NEW u \in Thread, DagStarts(t, u) PROVE Snapshots'
    BY <1>7 DEF DagStarts, Start, CanStart
  <1>8. ASSUME NEW u \in Thread, DagLosesStart(t, u) PROVE Snapshots'
    BY <1>8 DEF DagLosesStart, Visited
  <1>9. ASSUME NEW u \in Thread, DagLaunches(t, u) PROVE Snapshots'
    BY <1>9 DEF DagLaunches, HookThinking, Begins, Present, Visited
  <1> QED BY <1>1, <1>2, <1>3, <1>4, <1>5, <1>6, <1>7, <1>8, <1>9 DEF DagStep

(* Reporting a terminal status ends a checkpoint run but never erases it.  *)
LEMMA OtherSnapshots ==
  ASSUME TypeOK, Launching, Snapshots, NEW t \in Thread, TailStep(t) \/ UserStep(t)
  PROVE  Snapshots'
  <1> USE DEF TypeOK, CallPC, RunnerPC, Status, Active, Terminal, Queued, Working,
        Present,
              Launching, NotStarted, LaunchesOwn, Visits, Snapshots, FirstTurn, CaptureTried
  <1>1. CASE FinishCancel(t) BY <1>1 DEF FinishCancel, HookTerminal, Ends, ReleaseLeases
  <1>2. CASE FinishTimeout(t) BY <1>2 DEF FinishTimeout, HookTerminal, Ends
  <1>3. CASE FinishCleanup(t) BY <1>3 DEF FinishCleanup, ReleaseLeases
  <1>4. CASE Delegate(t) BY <1>4 DEF Delegate, Create
  <1>5. CASE RequestThread(t) BY <1>5 DEF RequestThread, Create, Present
  <1>6. CASE InputArrives(t) BY <1>6 DEF InputArrives
  <1>7. CASE UserCancels(t) BY <1>7 DEF UserCancels, Cancel, ReleaseLeases
  <1> QED BY <1>1, <1>2, <1>3, <1>4, <1>5, <1>6, <1>7 DEF TailStep, UserStep

-----------------------------------------------------------------------------
(* Leases are all or nothing.  They change in two ways only: a delegation  *)
(* without conflict takes all of its intents, and a thread loses all it    *)
(* holds.                                                                  *)

(* Every step of a thread, a walk or a user either leaves the lease table  *)
(* alone, frees all leases of some thread, or takes all the paths of one   *)
(* thread at once when all are free.                                       *)
LEMMA LeaseSteps ==
  ASSUME NEW t \in Thread,
         CallStep(t) \/ LoopStep(t) \/ DagStep(t) \/ TailStep(t) \/ UserStep(t)
  PROVE  \/ UNCHANGED leases
         \/ AcquireLeases(t)
         \/ \E u \in Thread : leases' = ReleaseLeases(u)
  <1>1. CASE CallStep(t)
    BY <1>1 DEF CallStep, ResolveDependencies, LeaseConflict, Approved, Rejected,
          Cancel,
                CallStarts, Start, CallLosesStart, CallLaunches
  <1>2. CASE LoopStep(t)
    BY <1>2 DEF LoopStep, TurnWithoutRecord, TurnCancelled, TurnCallsModel,
          TurnsExhausted,
                ChatCancelled, ChatAnswers, ChatCallsTools, Fails, ToolsReturn, Finish,
                RequestHelp, WaitCancelled, Cancel, CompleteFinishes
  <1>3. CASE DagStep(t)
    BY <1>3 DEF DagStep, DagLists, DagEnds, DagChecksFailure, DagCascades, Cancel,
          DagSkips,
                DagFindsReady, DagStarts, Start, DagLosesStart, DagLaunches
  <1>4. CASE TailStep(t)
    BY <1>4 DEF TailStep, FinishCancel, FinishTimeout, FinishCleanup
  <1>5. CASE UserStep(t)
    BY <1>5 DEF UserStep, Delegate, RequestThread, Create, InputArrives, UserCancels,
          Cancel
  <1> QED BY <1>1, <1>2, <1>3, <1>4, <1>5

(* AcquireLeases and ReleaseLeases work under one lock on whole sets of    *)
(* paths, so every step keeps the leases of a thread all or nothing.       *)
LEMMA LeasesStep == ASSUME TypeOK, LeasesAllOrNothing, [Next]_vars PROVE LeasesAllOrNothing'
  <1> USE ThreadManagerAssumption DEF ThreadManagerAssumption, TypeOK,
        LeasesAllOrNothing
  <1>1. CASE UNCHANGED leases BY <1>1
  <1>2. \A u \in Thread : Intents[u] \subseteq Path /\ u # NoThread
    BY DEF Thread, NoThread
  <1>3. ASSUME NEW t \in Thread, AcquireLeases(t) PROVE LeasesAllOrNothing'
    <2>1. leases' = [p \in Path |-> IF p \in Intents[t] THEN t ELSE leases[p]]
      BY <1>3 DEF AcquireLeases
    <2>2. \A p \in Intents[t] : leases[p] \in {NoThread, t}
      BY <1>3 DEF AcquireLeases, Conflict
    <2>3. ASSUME NEW u \in Thread, NEW q \in Path, leases'[q] = u, NEW p \in Intents[u]
          PROVE  leases'[p] = u
      <3>1. p \in Path BY <1>2
      <3>2. CASE u = t BY <2>1, <3>1, <3>2
      <3>3. CASE u # t
        <4>1. leases[q] = u BY <2>1, <2>3, <3>3
        <4>2. leases[p] = u BY <4>1
        <4>3. p \notin Intents[t] BY <1>2, <2>2, <3>3, <4>2
        <4> QED BY <2>1, <3>1, <4>2, <4>3
      <3> QED BY <3>2, <3>3
    <2> QED BY <2>3
  <1>4. ASSUME NEW t \in Thread, leases' = ReleaseLeases(t) PROVE LeasesAllOrNothing'
    <2>1. leases' = [p \in Path |-> IF leases[p] = t THEN NoThread ELSE leases[p]]
      BY <1>4 DEF ReleaseLeases
    <2>2. ASSUME NEW u \in Thread, NEW q \in Path, leases'[q] = u, NEW p \in Intents[u]
          PROVE  leases'[p] = u
      <3>1. p \in Path BY <1>2
      <3>2. leases[q] = u /\ u # t BY <1>2, <2>1, <2>2
      <3>3. leases[p] = u BY <3>2
      <3> QED BY <2>1, <3>1, <3>2, <3>3
    <2> QED BY <2>2
  <1>5. CASE Next
    <2>1. ASSUME NEW V \in SUBSET Expirable, WatchdogScan(V) PROVE UNCHANGED leases
      BY <2>1 DEF WatchdogScan
    <2>2. CleanupSession => UNCHANGED leases BY DEF CleanupSession
    <2> QED BY <1>1, <1>3, <1>4, <1>5, <2>1, <2>2, LeaseSteps DEF Next
  <1> QED BY <1>1, <1>5 DEF vars

-----------------------------------------------------------------------------
(* The inductive invariant: every part holds because of the parts before   *)
(* it, so the lemmas above compose.                                        *)

IInv == TypeInv /\ Launching /\ StatusTells /\ Snapshots /\ LeasesAllOrNothing

(* The empty session satisfies the inductive invariant.                    *)
LEMMA InitIInv == Init => IInv
  <1> SUFFICES ASSUME Init PROVE IInv OBVIOUS
  <1>1. TypeInv BY InitTypeInv
  <1>2. Launching BY DEF Init, Launching, NotStarted, LaunchesOwn
  <1>3. StatusTells
    BY DEF Init, StatusTells, DoneIsOver, BlockedIsWaiting, ActiveHasGoroutine, Working
  <1>4. Snapshots BY DEF Init, Snapshots, FirstTurn, CaptureTried
  <1>5. LeasesAllOrNothing BY DEF Init, LeasesAllOrNothing, Thread, NoThread
  <1> QED BY <1>1, <1>2, <1>3, <1>4, <1>5 DEF IInv

(* Every step of a call, a goroutine, a walk or a user keeps the inductive *)
(* invariant.                                                              *)
LEMMA ThreadStepIInv ==
  ASSUME IInv, NEW t \in Thread,
         CallStep(t) \/ LoopStep(t) \/ DagStep(t) \/ TailStep(t) \/ UserStep(t)
  PROVE  IInv'
  <1> USE DEF IInv, TypeInv
  <1>1. TypeInv' BY CallTypeInv, LoopTypeInv, DagTypeInv, OtherTypeInv
  <1>2. Launching' BY CallLaunching, LoopLaunching, DagLaunching, OtherLaunching
  <1>3. StatusTells' BY CallStatusTells, LoopStatusTells, DagStatusTells,
        OtherStatusTells
  <1>4. Snapshots' BY CallSnapshots, LoopSnapshots, DagSnapshots, OtherSnapshots
  <1>5. LeasesAllOrNothing' BY LeasesStep DEF Next
  <1> QED BY <1>1, <1>2, <1>3, <1>4, <1>5

(* watchdogScan and CleanupSession, which act on many threads at once,     *)
(* keep the inductive invariant.                                           *)
LEMMA SessionStepIInv ==
  ASSUME IInv, (\E V \in SUBSET Expirable : WatchdogScan(V)) \/ CleanupSession
  PROVE  IInv'
  <1> USE DEF IInv, TypeInv, TypeOK, Status, Active, Terminal, Queued, Working
  <1>1. PICK S \in SUBSET Thread :
          /\ \A t \in S : status[t] \in Active
          /\ \E s \in {"error", "gone"} :
               status' = [t \in Thread |-> IF t \in S THEN s ELSE status[t]]
          /\ UNCHANGED <<hints, deps, call, runner, turn, todo, ctxDone, leases, run>>
    BY DEF WatchdogScan, Expirable, CleanupSession, Orphans
  <1>2. tail' \in SUBSET (TailKind \X Thread)
    BY DEF WatchdogScan, Expirable, CleanupSession, Orphans, TailKind
  <1>3. TypeInv' BY <1>1, <1>2 DEF TurnBound
  <1>4. Launching' BY <1>1 DEF Launching, NotStarted, LaunchesOwn, Visits
  <1>5. StatusTells'
    BY <1>1 DEF StatusTells, DoneIsOver, BlockedIsWaiting, ActiveHasGoroutine
  <1>6. Snapshots'
    BY <1>1 DEF Snapshots, FirstTurn, CaptureTried
  <1>7. LeasesAllOrNothing' BY <1>1 DEF LeasesAllOrNothing
  <1> QED BY <1>3, <1>4, <1>5, <1>6, <1>7

(* A stuttering step keeps the inductive invariant.                        *)
LEMMA StutterIInv == ASSUME IInv, UNCHANGED vars PROVE IInv'
  BY DEF vars, IInv, TypeInv, TypeOK, TurnBound, Launching, NotStarted, LaunchesOwn,
        Visits,
         StatusTells, DoneIsOver, BlockedIsWaiting, ActiveHasGoroutine, Snapshots, FirstTurn,
         CaptureTried, LeasesAllOrNothing

(* The inductive invariant holds in every reachable state, with every      *)
(* fault allowed.                                                          *)
THEOREM IInvHolds == Spec => []IInv
  <1>1. IInv /\ [Next]_vars => IInv'
    BY ThreadStepIInv, SessionStepIInv, StutterIInv DEF Next
  <1> QED BY InitIInv, <1>1, PTL DEF Spec

-----------------------------------------------------------------------------
(* The properties. *)

(* A goroutine that ends, whatever ended it, leaves no thread that shows   *)
(* as thinking, tooling or blocked.                                        *)
THEOREM GoroutineDrives == Spec => []ActiveHasGoroutine
  <1>1. IInv => ActiveHasGoroutine BY DEF IInv, StatusTells
  <1> QED BY IInvHolds, <1>1, PTL

(* File leases are all or nothing against every interleaving. *)
THEOREM LeasesAtomic == Spec => []LeasesAllOrNothing
  <1>1. IInv => LeasesAllOrNothing BY DEF IInv
  <1> QED BY IInvHolds, <1>1, PTL

(* No tool runs before BeginRun was called for its thread: what precedes   *)
(* it is a snapshot or a capture whose failure was recorded or logged.     *)
THEOREM CaptureFirst == Spec => []CaptureBeforeTools
  <1>1. IInv => CaptureBeforeTools
    BY DEF IInv, Snapshots, CaptureTried, CaptureBeforeTools
  <1> QED BY IInvHolds, <1>1, PTL

(* Only a queued thread is launched. *)
LEMMA LaunchSteps ==
  ASSUME TypeOK, NEW t \in Thread,
         CallStep(t) \/ LoopStep(t) \/ DagStep(t) \/ TailStep(t) \/ UserStep(t),
         NEW x \in Thread
  PROVE  runner'[x] = "launch" => runner[x] = "launch" \/ status[x] = "queued"
  <1> USE DEF TypeOK
  <1>1. CASE CallStep(t)
    BY <1>1 DEF CallStep, ResolveDependencies, AcquireLeases, LeaseConflict, Approved,
                Rejected, Cancel, CallStarts, Start, CanStart, CallLosesStart,
                CallLaunches
  <1>2. CASE LoopStep(t)
    BY <1>2 DEF LoopStep, TurnWithoutRecord, TurnCancelled, InLoop, ExitCancelled,
                TurnCallsModel, TurnsExhausted, Complete, ChatCancelled, ChatAnswers,
                ChatCallsTools, Fails, ToolsReturn, Finish, RequestHelp,
                WaitCancelled, Cancel, CompleteFinishes
  <1>3. CASE DagStep(t)
    BY <1>3 DEF DagStep, DagLists, DagEnds, DagChecksFailure, DagCascades, Cancel,
                DagSkips, DagFindsReady, DagStarts, Start, CanStart, DagLosesStart,
                DagLaunches
  <1>4. CASE TailStep(t)
    BY <1>4 DEF TailStep, FinishCancel, FinishTimeout, FinishCleanup
  <1>5. CASE UserStep(t)
    BY <1>5 DEF UserStep, Delegate, Create, RequestThread, InputArrives, UserCancels,
                Cancel
  <1> QED BY <1>1, <1>2, <1>3, <1>4, <1>5

(* One goroutine per thread, whoever races to spawn it. *)
THEOREM LaunchedOnce == Spec => StartedOnce
  <1>1. IInv /\ [Next]_vars =>
          [\A t \in Thread : runner'[t] = "launch" => runner[t] \in {"none", "launch"}]_vars
    <2> SUFFICES ASSUME IInv, [Next]_vars, NEW x \in Thread, runner'[x] = "launch"
                 PROVE  runner[x] \in {"none", "launch"}
      OBVIOUS
    <2> USE DEF IInv, TypeInv
    <2>1. CASE UNCHANGED vars BY <2>1 DEF vars
    <2>2. CASE CleanupSession BY <2>2 DEF CleanupSession
    <2>3. CASE \E V \in SUBSET Expirable : WatchdogScan(V) BY <2>3 DEF WatchdogScan
    <2>4. ASSUME NEW t \in Thread,
                 CallStep(t) \/ LoopStep(t) \/ DagStep(t) \/ TailStep(t) \/ UserStep(t)
          PROVE  runner[x] \in {"none", "launch"}
      BY <2>4, LaunchSteps DEF Launching, NotStarted
    <2> QED BY <2>1, <2>2, <2>3, <2>4 DEF Next
  <1> QED BY IInvHolds, <1>1, PTL DEF Spec, StartedOnce

(* Nothing that moves a thread writes over "done". *)
LEMMA DoneSteps ==
  ASSUME TypeOK, DoneIsOver, NEW t \in Thread,
         CallStep(t) \/ LoopStep(t) \/ DagStep(t) \/ TailStep(t) \/ UserStep(t),
         NEW x \in Thread
  PROVE  status[x] = "done" => status'[x] = "done"
  <1> USE DEF TypeOK, DoneIsOver, Over, Active, Queued, Working, Terminal
  <1>1. CASE CallStep(t)
    BY <1>1 DEF CallStep, ResolveDependencies, AcquireLeases, LeaseConflict, Approved,
                Rejected, Cancel, CallStarts, Start, CanStart, CallLosesStart,
                CallLaunches
  <1>2. CASE LoopStep(t)
    BY <1>2 DEF LoopStep, TurnWithoutRecord, TurnCancelled, InLoop, ExitCancelled,
                TurnCallsModel, TurnsExhausted, Complete, ChatCancelled, ChatAnswers,
                ChatCallsTools, Fails, ToolsReturn, Finish, RequestHelp,
                WaitCancelled, Cancel, CompleteFinishes
  <1>3. CASE DagStep(t)
    BY <1>3 DEF DagStep, DagLists, DagEnds, DagChecksFailure, DagCascades, Cancel,
                DagSkips, DagFindsReady, DagStarts, Start, CanStart, DagLosesStart,
                DagLaunches
  <1>4. CASE TailStep(t)
    BY <1>4 DEF TailStep, FinishCancel, FinishTimeout, FinishCleanup
  <1>5. CASE UserStep(t)
    BY <1>5 DEF UserStep, Delegate, Create, RequestThread, InputArrives, UserCancels,
                Cancel
  <1> QED BY <1>1, <1>2, <1>3, <1>4, <1>5

(* A result is never overwritten. *)
THEOREM ResultsAreKept == Spec => DoneIsFinal
  <1>1. IInv /\ [Next]_vars =>
          [\A t \in Thread : status[t] = "done" => status'[t] = "done"]_vars
    <2> SUFFICES ASSUME IInv, [Next]_vars, NEW x \in Thread, status[x] = "done"
                 PROVE  status'[x] = "done"
      OBVIOUS
    <2> USE DEF IInv, TypeInv
    <2>1. CASE UNCHANGED vars BY <2>1 DEF vars
    <2>2. CASE CleanupSession BY <2>2 DEF CleanupSession, Orphans, TypeOK
    <2>3. CASE \E V \in SUBSET Expirable : WatchdogScan(V)
      BY <2>3 DEF WatchdogScan, Expirable, Queued, Working, TypeOK
    <2>4. ASSUME NEW t \in Thread,
                 CallStep(t) \/ LoopStep(t) \/ DagStep(t) \/ TailStep(t) \/ UserStep(t)
          PROVE  status'[x] = "done"
      BY <2>4, DoneSteps DEF StatusTells
    <2> QED BY <2>1, <2>2, <2>3, <2>4 DEF Next
  <1> QED BY IInvHolds, <1>1, PTL DEF Spec, DoneIsFinal

-----------------------------------------------------------------------------
(* Refinement.  When no thread asks for help and none reaches the          *)
(* watchdog's limits, a status never comes back from the dead, and the     *)
(* manager implements ThreadLifecycle.                                     *)

NoHelpNoWatchdog == Faults \cap {"help", "watchdog"} = {}

NeverBlocked == \A t \in Thread : status[t] # "blocked" /\ runner[t] # "waiting"

ErrorIsOver == \A t \in Thread : status[t] = "error" => runner[t] \in Over

RInv == IInv /\ NeverBlocked /\ ErrorIsOver

(* The one way in which a step of a thread changes one status. *)
StatusMove(x) ==
  \/ /\ status[x] = "none" /\ status' = [status EXCEPT ![x] = "queued"]
     /\ Cardinality(ActiveSet) < Limit
  \/ status[x] = "queued" /\ status' = [status EXCEPT ![x] = "thinking"]
  \/ /\ status[x] \in Working
     /\ \E s \in Working \cup {"done", "error"} : status' = [status EXCEPT ![x] = s]
  \/ /\ status[x] \in {"queued"} \cup Working
     /\ status' = [status EXCEPT ![x] = "cancelled"]

(* Without help requests and the watchdog, a step changes at most one      *)
(* status, and along the lifecycle of thread.go.                           *)
LEMMA StatusMoves ==
  ASSUME NoHelpNoWatchdog, TypeOK, Launching, StatusTells, NeverBlocked, ErrorIsOver,
         NEW t \in Thread,
         CallStep(t) \/ LoopStep(t) \/ DagStep(t) \/ TailStep(t) \/ UserStep(t)
  PROVE  UNCHANGED status \/ \E x \in Thread : StatusMove(x)
  <1> USE DEF TypeOK, CallPC, RunnerPC, Status, Active, Terminal, Queued, Working,
        Present, StatusMove,
             NoHelpNoWatchdog, Launching, NotStarted, LaunchesOwn, StatusTells, DoneIsOver,
             NeverBlocked, ErrorIsOver, Over
  <1>1. CASE CallStep(t)
    <2>1. CASE ResolveDependencies(t) BY <2>1 DEF ResolveDependencies, Present
    <2>2. CASE AcquireLeases(t) BY <2>2 DEF AcquireLeases
    <2>3. CASE LeaseConflict(t) BY <2>3 DEF LeaseConflict
    <2>4. CASE Approved(t) BY <2>4 DEF Approved
    <2>5. CASE Rejected(t) BY <2>5 DEF Rejected, Cancel
    <2>6. CASE CallStarts(t) BY <2>6 DEF CallStarts, Start, CanStart
    <2>7. CASE CallLosesStart(t) BY <2>7 DEF CallLosesStart
    <2>8. CASE CallLaunches(t) BY <2>8 DEF CallLaunches
    <2> QED BY <1>1, <2>1, <2>2, <2>3, <2>4, <2>5, <2>6, <2>7, <2>8 DEF CallStep
  <1>2. CASE LoopStep(t)
    <2>1. CASE TurnWithoutRecord(t) BY <2>1 DEF TurnWithoutRecord
    <2>2. CASE TurnCancelled(t) BY <2>2 DEF TurnCancelled, InLoop, ExitCancelled
    <2>3. CASE TurnCallsModel(t) BY <2>3 DEF TurnCallsModel, InLoop
    <2>4. CASE TurnsExhausted(t) BY <2>4 DEF TurnsExhausted, Complete
    <2>5. CASE ChatCancelled(t) BY <2>5 DEF ChatCancelled, ExitCancelled
    <2>6. CASE ChatAnswers(t) BY <2>6 DEF ChatAnswers, Complete
    <2>7. CASE ChatCallsTools(t) BY <2>7 DEF ChatCallsTools
    <2>8. CASE Fails(t) BY <2>8 DEF Fails, Complete
    <2>9. CASE ToolsReturn(t) BY <2>9 DEF ToolsReturn
    <2>10. CASE Finish(t) BY <2>10 DEF Finish, Complete
    <2>11. CASE RequestHelp(t) BY <2>11 DEF RequestHelp
    <2>12. CASE WaitCancelled(t) BY <2>12 DEF WaitCancelled, Cancel
    <2>13. CASE CompleteFinishes(t) BY <2>13 DEF CompleteFinishes
    <2> QED BY <1>2, <2>1, <2>2, <2>3, <2>4, <2>5, <2>6, <2>7, <2>8, <2>9, <2>10, <2>11,
          <2>12, <2>13 DEF LoopStep
  <1>3. CASE DagStep(t)
    <2>1. DagLists(t) \/ DagEnds(t) => UNCHANGED status BY DEF DagLists, DagEnds
    <2>2. ASSUME NEW u \in Thread, DagChecksFailure(t, u)
          PROVE  UNCHANGED status \/ \E x \in Thread : StatusMove(x)
      BY <2>2 DEF DagChecksFailure
    <2>3. ASSUME NEW u \in Thread, DagCascades(t, u)
          PROVE  UNCHANGED status \/ \E x \in Thread : StatusMove(x)
      BY <2>3 DEF DagCascades, Cancel
    <2>4. ASSUME NEW u \in Thread, DagSkips(t, u)
          PROVE  UNCHANGED status \/ \E x \in Thread : StatusMove(x)
      BY <2>4 DEF DagSkips
    <2>5. ASSUME NEW u \in Thread, DagFindsReady(t, u)
          PROVE  UNCHANGED status \/ \E x \in Thread : StatusMove(x)
      BY <2>5 DEF DagFindsReady
    <2>6. ASSUME NEW u \in Thread, DagStarts(t, u)
          PROVE  UNCHANGED status \/ \E x \in Thread : StatusMove(x)
      BY <2>6 DEF DagStarts, Start, CanStart
    <2>7. ASSUME NEW u \in Thread, DagLosesStart(t, u)
          PROVE  UNCHANGED status \/ \E x \in Thread : StatusMove(x)
      BY <2>7 DEF DagLosesStart
    <2>8. ASSUME NEW u \in Thread, DagLaunches(t, u)
          PROVE  UNCHANGED status \/ \E x \in Thread : StatusMove(x)
      BY <2>8 DEF DagLaunches
    <2> QED BY <1>3, <2>1, <2>2, <2>3, <2>4, <2>5, <2>6, <2>7, <2>8 DEF DagStep
  <1>4. CASE TailStep(t)
    <2>1. CASE FinishCancel(t) BY <2>1 DEF FinishCancel
    <2>2. CASE FinishTimeout(t) BY <2>2 DEF FinishTimeout
    <2>3. CASE FinishCleanup(t) BY <2>3 DEF FinishCleanup
    <2> QED BY <1>4, <2>1, <2>2, <2>3 DEF TailStep
  <1>5. CASE UserStep(t)
    <2>1. CASE Delegate(t) BY <2>1 DEF Delegate, Create
    <2>2. CASE RequestThread(t) BY <2>2 DEF RequestThread, Create, Present
    <2>3. CASE InputArrives(t) BY <2>3 DEF InputArrives
    <2>4. CASE UserCancels(t) BY <2>4 DEF UserCancels, Cancel
    <2> QED BY <1>5, <2>1, <2>2, <2>3, <2>4 DEF UserStep
  <1> QED BY <1>1, <1>2, <1>3, <1>4, <1>5

(* A status move is a step of the abstract lifecycle. *)
LEMMA MoveIsLifecycleStep ==
  ASSUME TypeOK, NeverBlocked, NEW x \in Thread, StatusMove(x)
  PROVE  [L!Next]_Lifecycle
  <1> USE DEF TypeOK, NeverBlocked, Lifecycle, Working
  <1>1. CASE /\ status[x] = "none" /\ status' = [status EXCEPT ![x] = "queued"]
             /\ Cardinality(ActiveSet) < Limit
    <2>1. L!LiveSet = ActiveSet
      <3>1. \A t \in Thread : Lifecycle[t] \in {"queued", "running"} <=> status[t] \in
            Active
        BY DEF Status, Active, Queued, Terminal
      <3> HIDE DEF Lifecycle
      <3> QED BY <3>1 DEF L!LiveSet, L!Live, ActiveSet
    <2>2. Lifecycle' = [Lifecycle EXCEPT ![x] = "queued"] BY <1>1
    <2>3. Lifecycle[x] = "absent" BY <1>1
    <2>4. Cardinality(L!LiveSet) < Limit BY <1>1, <2>1
    <2> HIDE DEF Lifecycle
    <2>5. L!Cardinality(L!LiveSet) = Cardinality(L!LiveSet) BY DEF L!Cardinality,
          Cardinality
    <2>6. L!Submit(x) BY <2>2, <2>3, <2>4, <2>5 DEF L!Submit
    <2> QED BY <2>6 DEF L!Next
  <1>2. CASE status[x] = "queued" /\ status' = [status EXCEPT ![x] = "thinking"]
    <2>1. Lifecycle' = [Lifecycle EXCEPT ![x] = "running"] BY <1>2
    <2>2. L!Begin(x) BY <1>2, <2>1 DEF L!Begin
    <2> QED BY <2>2 DEF L!Next
  <1>3. CASE /\ status[x] \in Working
             /\ \E s \in Working \cup {"done", "error"} : status' = [status EXCEPT ![x] = s]
    <2>1. PICK s \in Working \cup {"done", "error"} : status' = [status EXCEPT ![x] = s]
      BY <1>3
    <2>2. CASE s \in Working
      <3>1. Lifecycle' = Lifecycle BY <1>3, <2>1, <2>2
      <3> QED BY <3>1
    <2>3. CASE s \in {"done", "error"}
      <3>1. Lifecycle' = [Lifecycle EXCEPT ![x] = s] BY <1>3, <2>1, <2>3
      <3>2. L!End(x) BY <1>3, <2>3, <3>1 DEF L!End
      <3> QED BY <3>2 DEF L!Next
    <2> QED BY <2>1, <2>2, <2>3
  <1>4. CASE /\ status[x] \in {"queued"} \cup Working
             /\ status' = [status EXCEPT ![x] = "cancelled"]
    <2>1. Lifecycle' = [Lifecycle EXCEPT ![x] = "cancelled"] BY <1>4
    <2>2. L!CancelLive(x) BY <1>4, <2>1 DEF L!CancelLive, L!Live
    <2> QED BY <2>2 DEF L!Next
  <1> QED BY <1>1, <1>2, <1>3, <1>4 DEF StatusMove

(* CleanupSession deletes live records only, which the abstract lifecycle  *)
(* calls Forget.                                                           *)
LEMMA CleanupIsForget ==
  ASSUME TypeOK, NeverBlocked, CleanupSession PROVE [L!Next]_Lifecycle
  <1> USE DEF TypeOK, NeverBlocked, Lifecycle, Working
  <1>1. Lifecycle' = [t \in Thread |-> IF t \in Orphans THEN "gone" ELSE Lifecycle[t]]
    BY DEF CleanupSession, Orphans
  <1>2. Orphans \subseteq L!LiveSet BY DEF Orphans, L!LiveSet, L!Live
  <1>3. L!Forget(Orphans) BY <1>1, <1>2 DEF L!Forget
  <1>4. Orphans \in SUBSET Thread BY DEF Orphans
  <1> HIDE DEF Lifecycle
  <1>5. \E S \in SUBSET Thread : L!Forget(S) BY <1>3, <1>4
  <1> QED BY <1>5 DEF L!Next

(* Without help requests and the watchdog no thread is ever blocked, and   *)
(* an error is written only by a goroutine that is past its loop.          *)
LEMMA StepKeepsRInv ==
  ASSUME NoHelpNoWatchdog, TypeOK, Launching, StatusTells, NeverBlocked, ErrorIsOver,
         NEW t \in Thread,
         CallStep(t) \/ LoopStep(t) \/ DagStep(t) \/ TailStep(t) \/ UserStep(t)
  PROVE  NeverBlocked' /\ ErrorIsOver'
  <1> USE DEF TypeOK, CallPC, RunnerPC, Status, Active, Terminal, Queued, Working,
        Present,
             NoHelpNoWatchdog, Launching, NotStarted, LaunchesOwn, StatusTells, DoneIsOver,
             NeverBlocked, ErrorIsOver, Over
  <1>1. CASE CallStep(t)
    <2>1. CASE ResolveDependencies(t) BY <2>1 DEF ResolveDependencies, Present
    <2>2. CASE AcquireLeases(t) BY <2>2 DEF AcquireLeases
    <2>3. CASE LeaseConflict(t) BY <2>3 DEF LeaseConflict
    <2>4. CASE Approved(t) BY <2>4 DEF Approved
    <2>5. CASE Rejected(t) BY <2>5 DEF Rejected, Cancel
    <2>6. CASE CallStarts(t) BY <2>6 DEF CallStarts, Start, CanStart
    <2>7. CASE CallLosesStart(t) BY <2>7 DEF CallLosesStart
    <2>8. CASE CallLaunches(t) BY <2>8 DEF CallLaunches
    <2> QED BY <1>1, <2>1, <2>2, <2>3, <2>4, <2>5, <2>6, <2>7, <2>8 DEF CallStep
  <1>2. CASE LoopStep(t)
    <2>1. CASE TurnWithoutRecord(t) BY <2>1 DEF TurnWithoutRecord
    <2>2. CASE TurnCancelled(t) BY <2>2 DEF TurnCancelled, InLoop, ExitCancelled
    <2>3. CASE TurnCallsModel(t) BY <2>3 DEF TurnCallsModel, InLoop
    <2>4. CASE TurnsExhausted(t) BY <2>4 DEF TurnsExhausted, Complete
    <2>5. CASE ChatCancelled(t) BY <2>5 DEF ChatCancelled, ExitCancelled
    <2>6. CASE ChatAnswers(t) BY <2>6 DEF ChatAnswers, Complete
    <2>7. CASE ChatCallsTools(t) BY <2>7 DEF ChatCallsTools
    <2>8. CASE Fails(t) BY <2>8 DEF Fails, Complete
    <2>9. CASE ToolsReturn(t) BY <2>9 DEF ToolsReturn
    <2>10. CASE Finish(t) BY <2>10 DEF Finish, Complete
    <2>11. CASE RequestHelp(t) BY <2>11 DEF RequestHelp
    <2>12. CASE WaitCancelled(t) BY <2>12 DEF WaitCancelled, Cancel
    <2>13. CASE CompleteFinishes(t) BY <2>13 DEF CompleteFinishes
    <2> QED BY <1>2, <2>1, <2>2, <2>3, <2>4, <2>5, <2>6, <2>7, <2>8, <2>9, <2>10, <2>11,
          <2>12, <2>13 DEF LoopStep
  <1>3. CASE DagStep(t)
    <2> USE DEF Visits
    <2>1. ASSUME DagLists(t) \/ DagEnds(t)
          PROVE  NeverBlocked' /\ ErrorIsOver'
      <3>1. /\ UNCHANGED status /\ runner[t] \in Over
            /\ \E pc \in {"walk", "exited"} : runner' = [runner EXCEPT ![t] = pc]
        BY <2>1 DEF DagLists, DagEnds
      <3> QED BY <3>1
    <2>2. ASSUME NEW u \in Thread, DagChecksFailure(t, u) PROVE NeverBlocked' /\
          ErrorIsOver'
      BY <2>2 DEF DagChecksFailure
    <2>3. ASSUME NEW u \in Thread, DagCascades(t, u) PROVE NeverBlocked' /\ ErrorIsOver'
      BY <2>3 DEF DagCascades, Cancel
    <2>4. ASSUME NEW u \in Thread, DagSkips(t, u) PROVE NeverBlocked' /\ ErrorIsOver'
      BY <2>4 DEF DagSkips
    <2>5. ASSUME NEW u \in Thread, DagFindsReady(t, u) PROVE NeverBlocked' /\
          ErrorIsOver'
      BY <2>5 DEF DagFindsReady
    <2>6. ASSUME NEW u \in Thread, DagStarts(t, u) PROVE NeverBlocked' /\ ErrorIsOver'
      BY <2>6 DEF DagStarts, Start, CanStart
    <2>7. ASSUME NEW u \in Thread, DagLosesStart(t, u) PROVE NeverBlocked' /\
          ErrorIsOver'
      BY <2>7 DEF DagLosesStart
    <2>8. ASSUME NEW u \in Thread, DagLaunches(t, u) PROVE NeverBlocked' /\ ErrorIsOver'
      BY <2>8 DEF DagLaunches
    <2> QED BY <1>3, <2>1, <2>2, <2>3, <2>4, <2>5, <2>6, <2>7, <2>8 DEF DagStep
  <1>4. CASE TailStep(t)
    <2>1. CASE FinishCancel(t) BY <2>1 DEF FinishCancel
    <2>2. CASE FinishTimeout(t) BY <2>2 DEF FinishTimeout
    <2>3. CASE FinishCleanup(t) BY <2>3 DEF FinishCleanup
    <2> QED BY <1>4, <2>1, <2>2, <2>3 DEF TailStep
  <1>5. CASE UserStep(t)
    <2>1. CASE Delegate(t) BY <2>1 DEF Delegate, Create
    <2>2. CASE RequestThread(t) BY <2>2 DEF RequestThread, Create, Present
    <2>3. CASE InputArrives(t) BY <2>3 DEF InputArrives
    <2>4. CASE UserCancels(t) BY <2>4 DEF UserCancels, Cancel
    <2> QED BY <1>5, <2>1, <2>2, <2>3, <2>4 DEF UserStep
  <1> QED BY <1>1, <1>2, <1>3, <1>4, <1>5

(* What thread.go, Start, Cancel and Complete promise of a thread's life   *)
(* holds of every session without help requests and time-outs.             *)
THEOREM KeepsLifecycleThm ==
  ASSUME NoHelpNoWatchdog PROVE Spec => KeepsLifecycle
  <1>1. Init => L!Init BY DEF Init, L!Init, Lifecycle
  <1>2. Init => RInv
    BY InitIInv DEF RInv, Init, NeverBlocked, ErrorIsOver
  <1>3. ASSUME RInv, [Next]_vars PROVE RInv' /\ [L!Next]_Lifecycle
    <2> USE DEF RInv, IInv, TypeInv
    <2>1. ASSUME NEW t \in Thread,
                 CallStep(t) \/ LoopStep(t) \/ DagStep(t) \/ TailStep(t) \/ UserStep(t)
          PROVE  RInv' /\ [L!Next]_Lifecycle
      <3>1. IInv' BY <1>3, <2>1, ThreadStepIInv
      <3>2. NeverBlocked' /\ ErrorIsOver' BY <1>3, <2>1, StepKeepsRInv, NoHelpNoWatchdog
      <3>3. UNCHANGED status => UNCHANGED Lifecycle BY DEF Lifecycle
      <3>4. [L!Next]_Lifecycle
        BY <1>3, <2>1, <3>3, StatusMoves, MoveIsLifecycleStep, NoHelpNoWatchdog
      <3> QED BY <3>1, <3>2, <3>4
    <2>2. CASE CleanupSession
      <3>1. IInv' BY <1>3, <2>2, SessionStepIInv
      <3>2. NeverBlocked' /\ ErrorIsOver'
        BY <1>3, <2>2 DEF CleanupSession, Orphans, NeverBlocked, ErrorIsOver, TypeOK
      <3> QED BY <1>3, <2>2, <3>1, <3>2, CleanupIsForget
    <2>3. CASE UNCHANGED vars
      <3>1. IInv' BY <1>3, <2>3, StutterIInv
      <3> QED BY <1>3, <2>3, <3>1 DEF vars, NeverBlocked, ErrorIsOver, Lifecycle
    <2>4. ASSUME NEW V \in SUBSET Expirable, WatchdogScan(V) PROVE FALSE
      BY <2>4, NoHelpNoWatchdog DEF WatchdogScan, NoHelpNoWatchdog
    <2> QED BY <1>3, <2>1, <2>2, <2>3, <2>4 DEF Next
  <1> QED BY <1>1, <1>2, <1>3, PTL DEF Spec, KeepsLifecycle, L!Spec

-----------------------------------------------------------------------------
(* Leases while a thread runs.  A request over HTTP takes no leases; a     *)
(* cancel of a thread that the watchdog has failed frees them and stops    *)
(* nothing, and its goroutine works on.  The result is about delegations   *)
(* before the watchdog's limits, with help requests, cancellations and the *)
(* cleanup of the session.                                                 *)

LeasedOnly == "request" \notin Creators /\ "watchdog" \notin Faults

(* The thread has been told to stop, or is about to be. *)
Ended(t) == ctxDone[t] \/ <<"cancel", t>> \in tail

(* Whoever still has to end a thread found it in the session. *)
TailIsOfStarted ==
  \A t \in Thread, k \in TailKind : <<k, t>> \in tail => status[t] \notin {"none", "queued"}

(* The goroutine of a cancelled thread gets to know, so that a status that *)
(* it writes back does not outlive it.                                     *)
CancelReaches == \A t \in Thread : status[t] = "cancelled" /\ runner[t] \in Running => Ended(t)

(* From AcquireLeases on, whoever starts the thread: its delegation or the *)
(* walk of a goroutine it depended on.                                     *)
Leased     == {"leased", "spawn", "launch", "returned"}
Covered(t) == call[t] \in Leased /\ status[t] \in Active /\ ~Ended(t)
HoldsItsLeases == \A t \in Thread : Covered(t) => \A p \in Intents[t] : leases[p] = t

Stopping == ErrorIsOver /\ TailIsOfStarted /\ CancelReaches
LeaseInv == Stopping /\ HoldsItsLeases

(* The steps of a creating call. *)
LEMMA CallStopping ==
  ASSUME IInv, Stopping, NEW t \in Thread, CallStep(t)
  PROVE  Stopping'
  <1> USE DEF IInv, TypeInv, TypeOK, CallPC, RunnerPC, Status, Active, Terminal, Queued, Working,
        Present, Running, Over, Launching, NotStarted, LaunchesOwn, Stopping, ErrorIsOver,
        TailIsOfStarted, CancelReaches, Ended, TailKind
  <1>1. CASE ResolveDependencies(t) BY <1>1 DEF ResolveDependencies
  <1>2. CASE AcquireLeases(t) BY <1>2 DEF AcquireLeases
  <1>3. CASE LeaseConflict(t) BY <1>3 DEF LeaseConflict
  <1>4. CASE Approved(t) BY <1>4 DEF Approved
  <1>5. CASE Rejected(t) BY <1>5 DEF Rejected, Cancel
  <1>6. CASE CallStarts(t) BY <1>6 DEF CallStarts, Start, CanStart
  <1>7. CASE CallLosesStart(t) BY <1>7 DEF CallLosesStart
  <1>8. CASE CallLaunches(t) BY <1>8 DEF CallLaunches
  <1> QED BY <1>1, <1>2, <1>3, <1>4, <1>5, <1>6, <1>7, <1>8 DEF CallStep

(* The steps of the loop: a failure ends the goroutine with its thread. *)
LEMMA LoopStopping ==
  ASSUME IInv, Stopping, NEW t \in Thread, LoopStep(t)
  PROVE  Stopping'
  <1> USE DEF IInv, TypeInv, TypeOK, CallPC, RunnerPC, Status, Active, Terminal, Queued, Working,
        Present, Running, Over, Launching, NotStarted, Stopping, ErrorIsOver,
        TailIsOfStarted, CancelReaches, Ended, TailKind
  <1>1. CASE TurnWithoutRecord(t) BY <1>1 DEF TurnWithoutRecord
  <1>2. CASE TurnCancelled(t) BY <1>2 DEF TurnCancelled, InLoop, ExitCancelled
  <1>3. CASE TurnCallsModel(t) BY <1>3 DEF TurnCallsModel, InLoop
  <1>4. CASE TurnsExhausted(t) BY <1>4 DEF TurnsExhausted, Complete
  <1>5. CASE ChatCancelled(t) BY <1>5 DEF ChatCancelled, ExitCancelled
  <1>6. CASE ChatAnswers(t) BY <1>6 DEF ChatAnswers, Complete
  <1>7. CASE ChatCallsTools(t) BY <1>7 DEF ChatCallsTools
  <1>8. CASE Fails(t) BY <1>8 DEF Fails, Complete
  <1>9. CASE ToolsReturn(t) BY <1>9 DEF ToolsReturn
  <1>10. CASE Finish(t) BY <1>10 DEF Finish, Complete
  <1>11. CASE RequestHelp(t) BY <1>11 DEF RequestHelp
  <1>12. CASE WaitCancelled(t) BY <1>12 DEF WaitCancelled, Cancel
  <1>13. CASE CompleteFinishes(t) BY <1>13 DEF CompleteFinishes
  <1> QED BY <1>1, <1>2, <1>3, <1>4, <1>5, <1>6, <1>7, <1>8, <1>9, <1>10, <1>11, <1>12,
        <1>13 DEF LoopStep

(* The walk over the queue cancels and starts queued threads. *)
LEMMA DagStopping ==
  ASSUME IInv, Stopping, NEW t \in Thread, DagStep(t)
  PROVE  Stopping'
  <1> USE DEF IInv, TypeInv, TypeOK, CallPC, RunnerPC, Status, Active, Terminal, Queued, Working,
        Present, Running, Over, Launching, NotStarted, LaunchesOwn, Stopping, ErrorIsOver,
        TailIsOfStarted, CancelReaches, Ended, TailKind
  <1>1. CASE DagLists(t) BY <1>1 DEF DagLists
  <1>2. CASE DagEnds(t) BY <1>2 DEF DagEnds
  <1>3. ASSUME NEW u \in Thread, DagChecksFailure(t, u) PROVE Stopping'
    BY <1>3 DEF DagChecksFailure
  <1>4. ASSUME NEW u \in Thread, DagCascades(t, u) PROVE Stopping'
    BY <1>4 DEF DagCascades, Cancel
  <1>5. ASSUME NEW u \in Thread, DagSkips(t, u) PROVE Stopping'
    BY <1>5 DEF DagSkips
  <1>6. ASSUME NEW u \in Thread, DagFindsReady(t, u) PROVE Stopping'
    BY <1>6 DEF DagFindsReady
  <1>7. ASSUME NEW u \in Thread, DagStarts(t, u) PROVE Stopping'
    BY <1>7 DEF DagStarts, Start, CanStart
  <1>8. ASSUME NEW u \in Thread, DagLosesStart(t, u) PROVE Stopping'
    BY <1>8 DEF DagLosesStart
  <1>9. ASSUME NEW u \in Thread, DagLaunches(t, u) PROVE Stopping'
    BY <1>9 DEF DagLaunches
  <1> QED BY <1>1, <1>2, <1>3, <1>4, <1>5, <1>6, <1>7, <1>8, <1>9 DEF DagStep

(* What is left of a cancellation reaches the context of a goroutine that  *)
(* runs.                                                                   *)
LEMMA OtherStopping ==
  ASSUME LeasedOnly, IInv, Stopping, NEW t \in Thread, TailStep(t) \/ UserStep(t)
  PROVE  Stopping'
  <1> USE DEF IInv, TypeInv, TypeOK, CallPC, RunnerPC, Status, Active, Terminal, Queued, Working,
        Present, Running, Over, Launching, NotStarted, Stopping, ErrorIsOver,
        TailIsOfStarted, CancelReaches, Ended, TailKind
  <1>1. CASE FinishCancel(t) BY <1>1 DEF FinishCancel
  <1>2. CASE FinishTimeout(t) BY <1>2 DEF FinishTimeout
  <1>3. CASE FinishCleanup(t) BY <1>3 DEF FinishCleanup
  <1>4. CASE Delegate(t)
    <2>1. /\ status[t] = "none" /\ status' = [status EXCEPT ![t] = "queued"]
          /\ UNCHANGED <<runner, ctxDone, tail>>
      BY <1>4 DEF Delegate, Create
    <2> QED BY <2>1
  <1>5. CASE RequestThread(t) BY <1>5 DEF RequestThread, LeasedOnly
  <1>6. CASE InputArrives(t) BY <1>6 DEF InputArrives
  <1>7. CASE UserCancels(t) BY <1>7 DEF UserCancels, Cancel
  <1> QED BY <1>1, <1>2, <1>3, <1>4, <1>5, <1>6, <1>7 DEF TailStep, UserStep

(* A thread that is covered after a step was covered before it, or has     *)
(* just taken its leases: no status comes back to an uncovered thread.     *)
LEMMA CallCovers ==
  ASSUME IInv, Stopping, NEW t \in Thread, CallStep(t), NEW x \in Thread, Covered(x)'
  PROVE  Covered(x) \/ (x = t /\ AcquireLeases(t))
  <1> USE DEF IInv, TypeInv, TypeOK, CallPC, Status, Active, Terminal, Queued, Working,
        Covered, Leased, Ended
  <1>1. CASE ResolveDependencies(t) BY <1>1 DEF ResolveDependencies
  <1>2. CASE AcquireLeases(t) BY <1>2 DEF AcquireLeases
  <1>3. CASE LeaseConflict(t) BY <1>3 DEF LeaseConflict
  <1>4. CASE Approved(t) BY <1>4 DEF Approved
  <1>5. CASE Rejected(t) BY <1>5 DEF Rejected, Cancel
  <1>6. CASE CallStarts(t) BY <1>6 DEF CallStarts, Start, CanStart
  <1>7. CASE CallLosesStart(t) BY <1>7 DEF CallLosesStart
  <1>8. CASE CallLaunches(t) BY <1>8 DEF CallLaunches
  <1> QED BY <1>1, <1>2, <1>3, <1>4, <1>5, <1>6, <1>7, <1>8 DEF CallStep

(* The loop writes a status back only to a thread that has not ended, or   *)
(* that is told to stop.                                                   *)
LEMMA LoopCovers ==
  ASSUME IInv, Stopping, NEW t \in Thread, LoopStep(t), NEW x \in Thread, Covered(x)'
  PROVE  Covered(x)
  <1> USE DEF IInv, TypeInv, TypeOK, Status, Active, Terminal, Queued, Working, Present,
        Running, Over, Launching, NotStarted, StatusTells, DoneIsOver, Stopping, ErrorIsOver,
        CancelReaches, Covered, Leased, Ended
  <1>1. CASE TurnWithoutRecord(t) BY <1>1 DEF TurnWithoutRecord
  <1>2. CASE TurnCancelled(t) BY <1>2 DEF TurnCancelled, InLoop, ExitCancelled
  <1>3. CASE TurnCallsModel(t) BY <1>3 DEF TurnCallsModel, InLoop
  <1>4. CASE TurnsExhausted(t) BY <1>4 DEF TurnsExhausted, Complete
  <1>5. CASE ChatCancelled(t) BY <1>5 DEF ChatCancelled, ExitCancelled
  <1>6. CASE ChatAnswers(t) BY <1>6 DEF ChatAnswers, Complete
  <1>7. CASE ChatCallsTools(t) BY <1>7 DEF ChatCallsTools
  <1>8. CASE Fails(t) BY <1>8 DEF Fails, Complete
  <1>9. CASE ToolsReturn(t) BY <1>9 DEF ToolsReturn
  <1>10. CASE Finish(t) BY <1>10 DEF Finish, Complete
  <1>11. CASE RequestHelp(t) BY <1>11 DEF RequestHelp
  <1>12. CASE WaitCancelled(t) BY <1>12 DEF WaitCancelled, Cancel
  <1>13. CASE CompleteFinishes(t) BY <1>13 DEF CompleteFinishes
  <1> QED BY <1>1, <1>2, <1>3, <1>4, <1>5, <1>6, <1>7, <1>8, <1>9, <1>10, <1>11, <1>12,
        <1>13 DEF LoopStep

(* A walk starts threads whose delegation has left them queued. *)
LEMMA DagCovers ==
  ASSUME IInv, Stopping, NEW t \in Thread, DagStep(t), NEW x \in Thread, Covered(x)'
  PROVE  Covered(x)
  <1> USE DEF IInv, TypeInv, TypeOK, Status, Active, Terminal, Queued, Working,
        Covered, Leased, Ended
  <1>1. CASE DagLists(t) BY <1>1 DEF DagLists
  <1>2. CASE DagEnds(t) BY <1>2 DEF DagEnds
  <1>3. ASSUME NEW u \in Thread, DagChecksFailure(t, u) PROVE Covered(x)
    BY <1>3 DEF DagChecksFailure
  <1>4. ASSUME NEW u \in Thread, DagCascades(t, u) PROVE Covered(x)
    BY <1>4 DEF DagCascades, Cancel
  <1>5. ASSUME NEW u \in Thread, DagSkips(t, u) PROVE Covered(x)
    BY <1>5 DEF DagSkips
  <1>6. ASSUME NEW u \in Thread, DagFindsReady(t, u) PROVE Covered(x)
    BY <1>6 DEF DagFindsReady
  <1>7. ASSUME NEW u \in Thread, DagStarts(t, u) PROVE Covered(x)
    BY <1>7 DEF DagStarts, Start, CanStart
  <1>8. ASSUME NEW u \in Thread, DagLosesStart(t, u) PROVE Covered(x)
    BY <1>8 DEF DagLosesStart
  <1>9. ASSUME NEW u \in Thread, DagLaunches(t, u) PROVE Covered(x)
    BY <1>9 DEF DagLaunches
  <1> QED BY <1>1, <1>2, <1>3, <1>4, <1>5, <1>6, <1>7, <1>8, <1>9 DEF DagStep

(* What owes its unlocked part covers nobody, and a new thread has yet to  *)
(* ask for its leases.                                                     *)
LEMMA OtherCovers ==
  ASSUME LeasedOnly, IInv, Stopping, NEW t \in Thread, TailStep(t) \/ UserStep(t),
         NEW x \in Thread, Covered(x)'
  PROVE  Covered(x)
  <1> USE DEF IInv, TypeInv, TypeOK, Status, Active, Terminal, Queued, Working, Running,
        StatusTells, ActiveHasGoroutine, Stopping, TailIsOfStarted, TailKind,
        Covered, Leased, Ended
  <1>1. CASE FinishCancel(t) BY <1>1 DEF FinishCancel
  <1>2. CASE FinishTimeout(t) BY <1>2 DEF FinishTimeout
  <1>3. CASE FinishCleanup(t) BY <1>3 DEF FinishCleanup
  <1>4. CASE Delegate(t)
    <2>1. /\ status' = [status EXCEPT ![t] = "queued"]
          /\ call' = [call EXCEPT ![t] = "created"]
          /\ UNCHANGED <<ctxDone, tail>>
      BY <1>4 DEF Delegate, Create
    <2> QED BY <2>1
  <1>5. CASE RequestThread(t) BY <1>5 DEF RequestThread, LeasedOnly
  <1>6. CASE InputArrives(t) BY <1>6 DEF InputArrives
  <1>7. CASE UserCancels(t) BY <1>7 DEF UserCancels, Cancel
  <1> QED BY <1>1, <1>2, <1>3, <1>4, <1>5, <1>6, <1>7 DEF TailStep, UserStep

(* Leases are released for threads that have ended only. *)
LEMMA ReleasedAreUncovered ==
  ASSUME IInv, Stopping, NEW t \in Thread,
         CallStep(t) \/ LoopStep(t) \/ DagStep(t) \/ TailStep(t) \/ UserStep(t)
  PROVE  \/ UNCHANGED leases
         \/ AcquireLeases(t)
         \/ \E u \in Thread : leases' = ReleaseLeases(u) /\ ~Covered(u)'
  <1> USE DEF IInv, TypeInv, TypeOK, Status, Active, Terminal, Queued, Working, Covered
  <1>0. ASSUME NEW u \in Thread, Cancel(u)
        PROVE  UNCHANGED leases \/ (leases' = ReleaseLeases(u) /\ ~Covered(u)')
    BY <1>0 DEF Cancel
  <1>1. CASE CallStep(t)
    <2>1. CASE Rejected(t) BY <1>0, <2>1 DEF Rejected
    <2>2. CASE ~Rejected(t)
      BY <1>1, <2>2 DEF CallStep, ResolveDependencies, LeaseConflict, Approved,
            CallStarts, Start, CallLosesStart, CallLaunches
    <2> QED BY <2>1, <2>2
  <1>2. CASE LoopStep(t)
    <2>1. CASE WaitCancelled(t) BY <1>0, <2>1 DEF WaitCancelled
    <2>2. CASE CompleteFinishes(t)
      <3>1. /\ runner[t] = "finished" /\ status' = status /\ leases' = ReleaseLeases(t)
        BY <2>2 DEF CompleteFinishes
      <3>2. status[t] \notin Active
        BY <3>1 DEF StatusTells, ActiveHasGoroutine, Launching, NotStarted, Running
      <3> QED BY <3>1, <3>2
    <2>3. CASE ~WaitCancelled(t) /\ ~CompleteFinishes(t)
      BY <1>2, <2>3 DEF LoopStep, TurnWithoutRecord, TurnCancelled, TurnCallsModel,
            TurnsExhausted, ChatCancelled, ChatAnswers, ChatCallsTools, Fails, ToolsReturn,
            Finish, RequestHelp
    <2> QED BY <2>1, <2>2, <2>3
  <1>3. CASE DagStep(t)
    <2>1. ASSUME NEW u \in Thread, DagCascades(t, u)
          PROVE  UNCHANGED leases \/ (leases' = ReleaseLeases(u) /\ ~Covered(u)')
      BY <1>0, <2>1 DEF DagCascades
    <2>2. CASE \A u \in Thread : ~DagCascades(t, u)
      BY <1>3, <2>2 DEF DagStep, DagLists, DagEnds, DagChecksFailure, DagSkips,
            DagFindsReady, DagStarts, Start, DagLosesStart, DagLaunches
    <2> QED BY <2>1, <2>2
  <1>4. CASE TailStep(t)
    <2>1. CASE FinishCancel(t) \/ FinishCleanup(t)
      <3>1. PICK k \in {"cancel", "cleanup"} :
              /\ <<k, t>> \in tail /\ status' = status /\ leases' = ReleaseLeases(t)
              /\ ctxDone' = [ctxDone EXCEPT ![t] = @ \/ runner[t] # "none"]
        BY <2>1 DEF FinishCancel, FinishCleanup
      <3>2. status[t] \notin {"none", "queued"}
        BY <3>1 DEF Stopping, TailIsOfStarted, TailKind
      <3>3. status[t] \in Active => runner[t] # "none"
        BY <3>2 DEF StatusTells, ActiveHasGoroutine, Running
      <3>4. status'[t] \in Active => ctxDone'[t]
        BY <3>1, <3>3
      <3> QED BY <3>1, <3>4 DEF Ended
    <2>2. CASE FinishTimeout(t) BY <2>2 DEF FinishTimeout
    <2> QED BY <1>4, <2>1, <2>2 DEF TailStep
  <1>5. CASE UserStep(t)
    <2>1. CASE UserCancels(t) BY <1>0, <2>1 DEF UserCancels
    <2>2. CASE ~UserCancels(t)
      BY <1>5, <2>2 DEF UserStep, Delegate, RequestThread, Create, InputArrives
    <2> QED BY <2>1, <2>2
  <1> QED BY <1>1, <1>2, <1>3, <1>4, <1>5

(* A covered thread keeps what it holds, against every other delegation.   *)
LEMMA LeasesHeld ==
  ASSUME LeasedOnly, IInv, LeaseInv, NEW t \in Thread,
         CallStep(t) \/ LoopStep(t) \/ DagStep(t) \/ TailStep(t) \/ UserStep(t)
  PROVE  HoldsItsLeases'
  <1> SUFFICES ASSUME NEW x \in Thread, Covered(x)', NEW p \in Intents[x]
               PROVE  leases'[p] = x
    BY DEF HoldsItsLeases
  <1>1. p \in Path /\ leases \in [Path -> Thread \cup {NoThread}] /\ x # NoThread
    BY ThreadManagerAssumption
      DEF ThreadManagerAssumption, IInv, TypeInv, TypeOK, Thread, NoThread
  <1>2. Covered(x) \/ (x = t /\ AcquireLeases(t))
    BY CallCovers, LoopCovers, DagCovers, OtherCovers DEF LeaseInv
  <1>3. CASE x = t /\ AcquireLeases(t)
    BY <1>1, <1>3 DEF AcquireLeases
  <1>4. CASE Covered(x) /\ ~(x = t /\ AcquireLeases(t))
    <2>1. leases[p] = x
      BY <1>4 DEF LeaseInv, HoldsItsLeases
    <2>2. CASE UNCHANGED leases BY <2>1, <2>2
    <2>3. CASE AcquireLeases(t)
      <3>1. x # t BY <1>4, <2>3
      <3>2. p \notin Intents[t] BY <1>1, <2>1, <2>3, <3>1 DEF AcquireLeases, Conflict
      <3> QED BY <1>1, <2>1, <2>3, <3>2 DEF AcquireLeases
    <2>4. ASSUME NEW u \in Thread, leases' = ReleaseLeases(u), ~Covered(u)' PROVE leases'[p] = x
      <3>1. u # x BY <2>4
      <3> QED BY <1>1, <2>1, <2>4, <3>1 DEF ReleaseLeases
    <2> QED BY <2>2, <2>3, <2>4, ReleasedAreUncovered DEF LeaseInv
  <1> QED BY <1>2, <1>3, <1>4

(* The cleanup of the session deletes what it does not cover any more.     *)
LEMMA CleanupKeepsLeases ==
  ASSUME IInv, LeaseInv, CleanupSession
  PROVE  LeaseInv'
  <1> USE DEF IInv, TypeInv, TypeOK, Status, Active, Terminal, Queued, Working, LeaseInv, Stopping
  <1>1. /\ status' = [t \in Thread |-> IF t \in Orphans THEN "gone" ELSE status[t]]
        /\ tail' = tail \cup {<<"cleanup", t>> : t \in Orphans}
        /\ UNCHANGED <<call, runner, ctxDone, leases>>
    BY DEF CleanupSession
  <1>2. \A t \in Thread : Ended(t)' <=> Ended(t)
    BY <1>1 DEF Ended
  <1>3. ErrorIsOver' BY <1>1 DEF ErrorIsOver
  <1>4. TailIsOfStarted' BY <1>1 DEF TailIsOfStarted
  <1>5. CancelReaches' BY <1>1, <1>2 DEF CancelReaches
  <1>6. HoldsItsLeases' BY <1>1, <1>2 DEF HoldsItsLeases, Covered
  <1> QED BY <1>3, <1>4, <1>5, <1>6

(* A delegated thread works under all its leases until it is told to stop. *)
THEOREM WorksUnderLeases == ASSUME LeasedOnly PROVE Spec => []RunsUnderItsLeases
  <1>1. Init => LeaseInv
    BY DEF Init, LeaseInv, Stopping, ErrorIsOver, TailIsOfStarted, CancelReaches, HoldsItsLeases,
           Covered, Leased
  <1>2. IInv /\ LeaseInv /\ [Next]_vars => LeaseInv'
    <2> SUFFICES ASSUME IInv, LeaseInv, [Next]_vars PROVE LeaseInv'
      OBVIOUS
    <2>1. ASSUME NEW t \in Thread,
                 CallStep(t) \/ LoopStep(t) \/ DagStep(t) \/ TailStep(t) \/ UserStep(t)
          PROVE  LeaseInv'
      <3>1. Stopping'
        BY <2>1, CallStopping, LoopStopping, DagStopping, OtherStopping DEF LeaseInv
      <3>2. HoldsItsLeases'
        BY <2>1, LeasesHeld
      <3> QED BY <3>1, <3>2 DEF LeaseInv
    <2>2. CASE \E V \in SUBSET Expirable : WatchdogScan(V)
      BY <2>2 DEF WatchdogScan, LeasedOnly
    <2>3. CASE CleanupSession BY <2>3, CleanupKeepsLeases
    <2>4. CASE UNCHANGED vars
      BY <2>4 DEF vars, LeaseInv, Stopping, ErrorIsOver, TailIsOfStarted, CancelReaches,
                  HoldsItsLeases, Covered, Ended
    <2> QED BY <2>1, <2>2, <2>3, <2>4 DEF Next
  <1>3. LeaseInv => RunsUnderItsLeases
    BY DEF LeaseInv, HoldsItsLeases, Covered, Leased, Ended, RunsUnderItsLeases, Active
  <1> QED BY <1>1, <1>2, <1>3, IInvHolds, PTL DEF Spec

================================================================================
