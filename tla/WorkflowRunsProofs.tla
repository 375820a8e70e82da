------------------------ MODULE WorkflowRunsProofs -------------------------
(* What TLAPS proves of WorkflowRuns, for any workflows and any bounds. *)
EXTENDS WorkflowRuns, FiniteSetTheorems, SequenceTheorems, TLAPS

(* What an invocation and a goroutine have when they get to their ends. *)
Finishing == {"persist", "inbox", "chain"}
Placed ==
  \A r \in Run :
    /\ Marks(r) => workflow[r] \in Workflow
    /\ pc[r] \in InRunner => stack[r] # << >>
    /\ pc[r] \in Finishing => Top(r).status \in RunStatus

(* None of the three is inductive alone: the cancel func of a run is safe  *)
(* from other runs because no other run has its mark, a mark is removed    *)
(* once because one goroutine holds it, and a chain marks a workflow       *)
(* because the invocation it belongs to is well formed.                    *)
IInv == TypeOK /\ Placed /\ OneRunPerWorkflow /\ SlotsAccounted /\ Cancellable

-----------------------------------------------------------------------------
(* The semaphore. *)

(* The goroutines of the bound are finitely many. *)
LEMMA HoldersFinite == IsFiniteSet({r \in Run : HoldsSlot(r)})
  <1>1. IsFiniteSet(Run)
    BY WorkflowRunsAssumption, FS_Interval DEF Run, WorkflowRunsAssumption
  <1> QED
    BY <1>1, FS_Subset

(* A step that moves nobody in or out of a slot keeps the account. *)
LEMMA SlotsKept ==
  ASSUME SlotsAccounted, sem' = sem, \A q \in Run : HoldsSlot(q)' <=> HoldsSlot(q)
  PROVE  SlotsAccounted'
  <1>1. {q \in Run : HoldsSlot(q)}' = {q \in Run : HoldsSlot(q)}
    OBVIOUS
  <1> QED
    BY <1>1 DEF SlotsAccounted

(* Taking a slot counts one more holder. *)
LEMMA SlotTaken ==
  ASSUME SlotsAccounted, NEW r \in Run, sem' = sem + 1, ~HoldsSlot(r), HoldsSlot(r)',
         \A q \in Run \ {r} : HoldsSlot(q)' <=> HoldsSlot(q)
  PROVE  SlotsAccounted'
  <1>1. {q \in Run : HoldsSlot(q)}' = {q \in Run : HoldsSlot(q)} \cup {r}
    OBVIOUS
  <1> QED
    BY <1>1, HoldersFinite, FS_AddElement DEF SlotsAccounted

(* Returning a slot counts one less, and there was one to return. *)
LEMMA SlotReturned ==
  ASSUME SlotsAccounted, NEW r \in Run, sem' = sem - 1, HoldsSlot(r), ~HoldsSlot(r)',
         \A q \in Run \ {r} : HoldsSlot(q)' <=> HoldsSlot(q)
  PROVE  SlotsAccounted' /\ sem > 0
  <1>1. {q \in Run : HoldsSlot(q)}' = {q \in Run : HoldsSlot(q)} \ {r}
    OBVIOUS
  <1>2. SlotsAccounted'
    BY <1>1, HoldersFinite, FS_RemoveElement DEF SlotsAccounted
  <1>3. Cardinality({q \in Run : HoldsSlot(q)}) \in Nat
    BY HoldersFinite, FS_CardinalityType
  <1>4. {q \in Run : HoldsSlot(q)} # {}
    OBVIOUS
  <1> QED
    BY <1>2, <1>3, <1>4, HoldersFinite, FS_EmptySet DEF SlotsAccounted

-----------------------------------------------------------------------------
(* Invocations. *)

(* A goroutine in the runner has an invocation on top of its stack. *)
LEMMA TopTyped ==
  ASSUME stack \in [Run -> Seq(Invocation)], NEW r \in Run, stack[r] # << >>
  PROVE  Len(stack[r]) \in 1..Len(stack[r]) /\ Top(r) \in Invocation
  <1>1. stack[r] \in Seq(Invocation)
    OBVIOUS
  <1>2. Len(stack[r]) \in Nat \ {0}
    BY <1>1, EmptySeq
  <1> QED
    BY <1>1, <1>2, LenProperties DEF Top

(* Replacing the top leaves everything below and every other stack alone. *)
LEMMA SetTopTyped ==
  ASSUME stack \in [Run -> Seq(Invocation)], NEW r \in Run, stack[r] # << >>,
         NEW f \in Invocation, stack' = SetTop(r, f)
  PROVE  /\ stack' \in [Run -> Seq(Invocation)]
         /\ stack'[r] # << >>
         /\ Top(r)' = f
         /\ \A q \in Run \ {r} : stack'[q] = stack[q]
  <1> DEFINE s == stack[r]
             t == [s EXCEPT ![Len(s)] = f]
  <1>1. s \in Seq(Invocation) /\ Len(s) \in 1..Len(s)
    BY TopTyped
  <1>2. t \in Seq(Invocation) /\ Len(t) = Len(s) /\ t[Len(s)] = f
    BY <1>1, ExceptSeq
  <1>3. stack' = [stack EXCEPT ![r] = t]
    BY DEF SetTop
  <1>4. stack'[r] = t /\ \A q \in Run \ {r} : stack'[q] = stack[q]
    BY <1>3
  <1>5. t # << >>
    BY <1>1, <1>2, EmptySeq
  <1> HIDE DEF t
  <1> QED
    BY <1>1, <1>2, <1>3, <1>4, <1>5 DEF Top

(* An invocation stays well formed when its fields change within range. *)
LEMMA FieldsTyped ==
  ASSUME NEW f \in Invocation
  PROVE  /\ \A n \in Nat, rs \in Seq(StepResult) : [f EXCEPT !.results = rs, !.tries = n] \in Invocation
         /\ \A n \in Nat : [f EXCEPT !.tries = n] \in Invocation
         /\ \A b \in BOOLEAN : [f EXCEPT !.aborted = b] \in Invocation
         /\ \A s \in RunStatus \cup {"running"} :
              [f EXCEPT !.status = s] \in Invocation /\ [f EXCEPT !.status = s].status = s
  <1> DEFINE R == RunStatus \cup {"running"}
             Q == Seq(StepResult)
             I == [wf : Workflow, tries : Nat, aborted : BOOLEAN, status : R, results : Q]
  <1> HIDE DEF R, Q
  <1>1. f \in I
    BY DEF Invocation, R, Q
  <1>2. \A n \in Nat, rs \in Q : [f EXCEPT !.results = rs, !.tries = n] \in I
    BY <1>1
  <1>3. /\ \A n \in Nat : [f EXCEPT !.tries = n] \in I
        /\ \A b \in BOOLEAN : [f EXCEPT !.aborted = b] \in I
        /\ \A s \in R : [f EXCEPT !.status = s] \in I /\ [f EXCEPT !.status = s].status = s
    BY <1>1
  <1> QED
    BY <1>2, <1>3 DEF Invocation, R, Q

(* A recorded step is one more result of a well-formed invocation. *)
LEMMA RecordTyped ==
  ASSUME NEW f \in Invocation, NEW s \in {"success", "failed", "skipped"},
         NEW c \in RunStatus \cup {"none"}
  PROVE  Record(f, s, c) \in Invocation
  <1> DEFINE e == [status |-> s, child |-> c]
  <1>1. e \in StepResult
    BY DEF StepResult
  <1>2. f.results \in Seq(StepResult)
    BY DEF Invocation
  <1>3. Append(f.results, e) \in Seq(StepResult)
    BY <1>1, <1>2
  <1> HIDE DEF e
  <1>4. Record(f, s, c) = [f EXCEPT !.results = Append(f.results, e), !.tries = 0]
    BY DEF Record, e
  <1>5. \A rs \in Seq(StepResult) : [f EXCEPT !.results = rs, !.tries = 0] \in Invocation
    BY FieldsTyped
  <1> DEFINE x == Append(f.results, e)
  <1>6. x \in Seq(StepResult) /\ Record(f, s, c) = [f EXCEPT !.results = x, !.tries = 0]
    BY <1>3, <1>4
  <1> HIDE DEF x
  <1> QED
    BY <1>5, <1>6

(* A fresh invocation of a workflow is well formed. *)
LEMMA InvokeTyped ==
  ASSUME NEW w \in Workflow
  PROVE  Invoke(w) \in Invocation
  <1>1. << >> \in Seq(StepResult)
    BY EmptySeq
  <1> QED
    BY <1>1 DEF Invoke, Invocation

-----------------------------------------------------------------------------
(* Steps. *)

(* Nothing of the account, the marks or the cancel funcs depends on where  *)
(* inside the runner a goroutine is.                                       *)
LEMMA RunnerStep ==
  ASSUME IInv, NEW r \in Run, NEW p \in InRunner,
         pc[r] \in InRunner, pc' = [pc EXCEPT ![r] = p],
         UNCHANGED <<admission, workflow, kind, ctx, crashes>>,
         stack' \in [Run -> Seq(Invocation)], stack'[r] # << >>,
         \A q \in Run \ {r} : stack'[q] = stack[q],
         p \in Finishing => Top(r)'.status \in RunStatus,
         runStore' \subseteq RunRecord, inbox' \subseteq Notification
  PROVE  IInv'
  <1>1. pc \in [Run -> PC] /\ InRunner \subseteq PC
    BY DEF IInv, TypeOK, PC
  <1>2. pc'[r] = p /\ \A q \in Run \ {r} : pc'[q] = pc[q]
    BY <1>1
  <1>3. \A q \in Run : (Marks(q)' <=> Marks(q)) /\ (HoldsSlot(q)' <=> HoldsSlot(q))
    BY <1>2 DEF Marks, HoldsSlot
  <1>4. \A q \in Run : pc'[q] \in InRunner <=> pc[q] \in InRunner
    BY <1>2
  <1>5. TypeOK'
    BY <1>1 DEF IInv, TypeOK, admission
  <1>6. Placed'
    BY <1>2, <1>3, <1>4 DEF IInv, Placed, Top
  <1>7. OneRunPerWorkflow'
    BY <1>3 DEF IInv, OneRunPerWorkflow, admission
  <1>8. SlotsAccounted'
    BY <1>3, SlotsKept DEF IInv, admission
  <1>9. Cancellable'
    BY <1>3, <1>4 DEF IInv, Cancellable, admission, TypeOK, NoRun
  <1> QED
    BY <1>5, <1>6, <1>7, <1>8, <1>9 DEF IInv

(* The steps of the runner that replace the top invocation. *)
LEMMA TopStep ==
  ASSUME IInv, NEW r \in Run, NEW p \in InRunner, NEW f \in Invocation,
         pc[r] \in InRunner, pc' = [pc EXCEPT ![r] = p], stack' = SetTop(r, f),
         UNCHANGED <<admission, workflow, kind, ctx, crashes, runStore>>,
         inbox' \subseteq Notification, p \in Finishing => f.status \in RunStatus
  PROVE  IInv'
  <1>1. stack[r] # << >> /\ stack \in [Run -> Seq(Invocation)]
    BY DEF IInv, Placed, TypeOK
  <1>2. /\ stack' \in [Run -> Seq(Invocation)] /\ stack'[r] # << >> /\ Top(r)' = f
        /\ \A q \in Run \ {r} : stack'[q] = stack[q]
    BY <1>1, SetTopTyped
  <1>3. runStore' \subseteq RunRecord
    BY DEF IInv, TypeOK
  <1> QED
    BY <1>2, <1>3, RunnerStep

(* An ID has as many numbers as its run is deep, the goroutine first. *)
LEMMA IDTyped ==
  ASSUME NEW r \in Run, stack[r] \in Seq(Invocation), NEW d \in 1..Len(stack[r])
  PROVE  IDAt(r, d) \in Seq(Nat) /\ IDAt(r, d)[1] = r /\ Len(IDAt(r, d)) = d
  <1> DEFINE n == d - 1
             g == [i \in 1..n |-> Len(stack[r][i].results) + 1]
             h == <<r>>
  <1>1. Len(stack[r]) \in Nat
    BY LenProperties
  <1>2. n \in Nat /\ \A i \in 1..n : stack[r][i] \in Invocation
    BY <1>1, ElementOfSeq
  <1>3. \A i \in 1..n : Len(stack[r][i].results) + 1 \in Nat
    <2> TAKE i \in 1..n
    <2>1. stack[r][i].results \in Seq(StepResult)
      BY <1>2 DEF Invocation
    <2>2. Len(stack[r][i].results) \in Nat
      BY <2>1, LenProperties
    <2> QED
      BY <2>2
  <1>4. n + 1 = d
    BY <1>1
  <1>5. h \in Seq(Nat) /\ Len(h) = 1 /\ h[1] = r
    BY DEF Run
  <1> HIDE DEF n
  <1>6. g \in Seq(Nat) /\ Len(g) = n
    BY <1>2, <1>3
  <1> HIDE DEF g, h
  <1>7. /\ h \o g \in Seq(Nat) /\ Len(h \o g) = Len(h) + Len(g)
        /\ \A i \in 1..Len(h) + Len(g) : (h \o g)[i] = IF i <= Len(h) THEN h[i] ELSE g[i - Len(h)]
    BY <1>5, <1>6, ConcatProperties
  <1>8. IDAt(r, d) = h \o g
    BY DEF IDAt, g, h, n
  <1>9. Len(h \o g) = d /\ (h \o g)[1] = r
    BY <1>2, <1>4, <1>5, <1>6, <1>7
  <1> QED
    BY <1>7, <1>8, <1>9

(* The ID of a run in the runner. *)
LEMMA RunIDTyped ==
  ASSUME IInv, NEW r \in Run, pc[r] \in InRunner
  PROVE  RunID(r) \in Seq(Nat) /\ RunID(r)[1] = r /\ Len(RunID(r)) = Len(stack[r])
  <1>1. stack[r] \in Seq(Invocation) /\ Len(stack[r]) \in 1..Len(stack[r])
    BY TopTyped DEF IInv, Placed, TypeOK
  <1> QED
    BY <1>1, IDTyped DEF RunID

(* What a step puts into the inbox is a notification, and the records stay. *)
LEMMA AnnouncesTyped ==
  ASSUME IInv, NEW r \in Run, pc[r] \in InRunner, NEW says \in {"success", "failed"},
         Announces(r, says)
  PROVE  inbox' \subseteq Notification /\ runStore' = runStore
  <1> DEFINE k == Len(Top(r).results) + 1
  <1>1. Top(r) \in Invocation
    BY TopTyped DEF IInv, Placed, TypeOK
  <1>2. Top(r).results \in Seq(StepResult)
    BY <1>1 DEF Invocation
  <1>3. k \in Nat
    BY <1>2, LenProperties
  <1>4. inbox' \subseteq inbox \cup {[run |-> RunID(r), step |-> k, says |-> says]} /\ runStore' = runStore
    BY DEF Announces
  <1> HIDE DEF k
  <1>5. inbox \subseteq Notification
    BY DEF IInv, TypeOK
  <1>6. [run |-> RunID(r), step |-> k, says |-> says] \in Notification
    BY <1>3, RunIDTyped DEF Notification, RunStatus
  <1> QED
    BY <1>4, <1>5, <1>6

(* A step that succeeds, fails or is skipped. *)
LEMMA OneStepRecorded ==
  ASSUME IInv, NEW r \in Run, pc[r] \in InRunner,
         UNCHANGED <<admission, ctx, runStore>>, inbox' \subseteq Notification, RunnerKeeps
  PROVE  (StepSucceeds(r) \/ StepFails(r)) => IInv'
  <1>1. Top(r) \in Invocation
    BY TopTyped DEF IInv, Placed, TypeOK
  <1>2. /\ Record(Top(r), "success", "none") \in Invocation
        /\ Record(Top(r), "failed", "none") \in Invocation
    BY <1>1, RecordTyped
  <1>3. CASE StepSucceeds(r)
    <2>1. "loop" \in InRunner /\ "loop" \notin Finishing
      BY DEF InRunner, Finishing
    <2> QED
      BY <1>2, <1>3, <2>1, TopStep DEF StepSucceeds, RunnerKeeps
  <1>4. CASE StepFails(r)
    <2> DEFINE stop == Current(r).onFailure = "stop"
               f == [Record(Top(r), "failed", "none") EXCEPT !.aborted = stop]
               p == IF stop THEN "end" ELSE "loop"
    <2>1. f \in Invocation
      BY <1>2, FieldsTyped
    <2>2. p \in InRunner /\ p \notin Finishing
      BY DEF InRunner, Finishing
    <2>3. stack' = SetTop(r, f) /\ pc' = [pc EXCEPT ![r] = p]
      BY <1>4 DEF StepFails
    <2> HIDE DEF f, p
    <2> QED
      BY <2>1, <2>2, <2>3, TopStep DEF RunnerKeeps
  <1> QED
    BY <1>3, <1>4

(* The steps of a workflow, sub-workflow calls included. *)
LEMMA ExecutingSteps ==
  ASSUME IInv, NEW r \in Run,
         \/ SkipsStep(r) \/ RefusesStep(r) \/ GateRefuses(r) \/ BeginsStep(r) \/ CallsAgent(r)
         \/ TryAbandoned(r) \/ AgentAnswers(r) \/ AgentFails(r) \/ CallsSubWorkflow(r)
         \/ SubWorkflowCycle(r)
  PROVE  IInv'
  <1>1. pc[r] \in InRunner
    BY DEF SkipsStep, RefusesStep, GateRefuses, BeginsStep, CallsAgent, TryAbandoned, AgentAnswers, AgentFails,
           CallsSubWorkflow, SubWorkflowCycle, AtStep, InRunner
  <1>2. /\ stack[r] # << >> /\ Top(r) \in Invocation /\ stack[r] \in Seq(Invocation)
        /\ stack \in [Run -> Seq(Invocation)] /\ pc \in [Run -> PC]
        /\ runStore \subseteq RunRecord /\ inbox \subseteq Notification
    BY <1>1, TopTyped DEF IInv, Placed, TypeOK
  <1>3. CASE RefusesStep(r) \/ SubWorkflowCycle(r)
    BY <1>1, <1>2, <1>3, OneStepRecorded DEF RefusesStep, SubWorkflowCycle, durable
  <1>4. CASE GateRefuses(r) \/ TryAbandoned(r) \/ AgentAnswers(r)
    <2>1. inbox' \subseteq Notification /\ runStore' = runStore
      BY <1>1, <1>4, AnnouncesTyped DEF GateRefuses, TryAbandoned, AgentAnswers
    <2> QED
      BY <1>1, <1>4, <2>1, OneStepRecorded DEF GateRefuses, TryAbandoned, AgentAnswers
  <1>5. CASE SkipsStep(r)
    <2>1. pc' = [pc EXCEPT ![r] = "loop"] /\ "loop" \in InRunner /\ "loop" \notin Finishing
      BY <1>2, <1>5 DEF SkipsStep, AtStep, InRunner, Finishing
    <2>2. Record(Top(r), "skipped", "none") \in Invocation
      BY <1>2, RecordTyped
    <2> QED
      BY <1>1, <1>2, <1>5, <2>1, <2>2, TopStep DEF SkipsStep, RunnerKeeps, durable
  <1>6. CASE BeginsStep(r)
    <2>1. "try" \in InRunner /\ "try" \notin Finishing
      BY DEF InRunner, Finishing
    <2> QED
      BY <1>1, <1>2, <1>6, <2>1, RunnerStep DEF BeginsStep, RunnerKeeps, durable
  <1>7. CASE CallsAgent(r)
    <2>1. "attempt" \in InRunner /\ "attempt" \notin Finishing
      BY DEF InRunner, Finishing
    <2> DEFINE n == Top(r).tries + 1
    <2>2. n \in Nat
      BY <1>2 DEF Invocation
    <2>3. stack' = SetTop(r, [Top(r) EXCEPT !.tries = n])
      BY <1>7 DEF CallsAgent
    <2> HIDE DEF n
    <2>4. [Top(r) EXCEPT !.tries = n] \in Invocation
      BY <1>2, <2>2, FieldsTyped
    <2> QED
      BY <1>1, <1>2, <1>7, <2>1, <2>3, <2>4, TopStep DEF CallsAgent, RunnerKeeps, durable
  <1>8. CASE AgentFails(r)
    <2>1. "try" \in InRunner /\ "try" \notin Finishing
      BY DEF InRunner, Finishing
    <2>2. CASE TriesLeft(r)
      BY <1>1, <1>2, <1>8, <2>1, <2>2, RunnerStep DEF AgentFails, RunnerKeeps, durable
    <2>3. CASE ~TriesLeft(r)
      <3>1. Announces(r, "failed")
        BY <1>8, <2>3 DEF AgentFails
      <3>2. inbox' \subseteq Notification /\ runStore' = runStore
        BY <1>1, <3>1, AnnouncesTyped
      <3> QED
        BY <1>1, <1>8, <2>3, <3>2, OneStepRecorded DEF AgentFails
    <2> QED
      BY <2>2, <2>3
  <1>9. CASE CallsSubWorkflow(r)
    <2>1. pc' = [pc EXCEPT ![r] = "loop"] /\ "loop" \in InRunner /\ "loop" \notin Finishing
      BY <1>2, <1>9 DEF CallsSubWorkflow, AtStep, InRunner, Finishing
    <2> DEFINE f == Invoke(Current(r).body)
    <2>2. f \in Invocation
      BY <1>9, InvokeTyped DEF CallsSubWorkflow
    <2>3. stack' = [stack EXCEPT ![r] = Append(stack[r], f)]
      BY <1>9 DEF CallsSubWorkflow
    <2> HIDE DEF f
    <2>4. Append(stack[r], f) \in Seq(Invocation) /\ Append(stack[r], f) # << >>
      BY <1>2, <2>2, AppendProperties
    <2>5. /\ stack' \in [Run -> Seq(Invocation)] /\ stack'[r] # << >>
          /\ \A q \in Run \ {r} : stack'[q] = stack[q]
      BY <1>2, <2>3, <2>4
    <2> QED
      BY <1>1, <1>2, <1>9, <2>1, <2>5, RunnerStep DEF CallsSubWorkflow, RunnerKeeps, durable
  <1> QED
    BY <1>3, <1>5, <1>6, <1>7, <1>8, <1>9, <1>4

(* The end of an invocation, up to the chain. *)
LEMMA EndingSteps ==
  ASSUME IInv, NEW r \in Run, SettlesStatus(r) \/ PersistsRun(r) \/ StoresNotification(r)
  PROVE  IInv'
  <1>1. pc[r] \in InRunner
    BY DEF SettlesStatus, PersistsRun, StoresNotification, LoopEnded, InRunner
  <1>2. /\ stack[r] # << >> /\ Top(r) \in Invocation /\ stack[r] \in Seq(Invocation)
        /\ stack \in [Run -> Seq(Invocation)]
        /\ runStore \subseteq RunRecord /\ inbox \subseteq Notification
    BY <1>1, TopTyped DEF IInv, Placed, TypeOK
  <1>3. RunID(r) \in Seq(Nat)
    BY <1>1, RunIDTyped
  <1>4. CASE SettlesStatus(r)
    <2> DEFINE o == Outcome(r)
    <2>1. o \in RunStatus
      BY DEF Outcome, RunStatus
    <2>2. stack' = SetTop(r, [Top(r) EXCEPT !.status = o])
      BY <1>4 DEF SettlesStatus
    <2>3. "persist" \in InRunner
      BY DEF InRunner
    <2> HIDE DEF o
    <2>4. [Top(r) EXCEPT !.status = o] \in Invocation /\ [Top(r) EXCEPT !.status = o].status = o
      BY <1>2, <2>1, FieldsTyped
    <2> QED
      BY <1>1, <1>2, <1>4, <2>1, <2>2, <2>3, <2>4, TopStep DEF SettlesStatus, RunnerKeeps, durable
  <1>5. CASE PersistsRun(r)
    <2> DEFINE p == IF Notifies(Top(r)) THEN "inbox" ELSE "chain"
    <2>1. Top(r).status \in RunStatus
      BY <1>5 DEF PersistsRun, IInv, Placed, Finishing
    <2>2. [id |-> RunID(r), wf |-> Top(r).wf, status |-> Top(r).status, results |-> Top(r).results]
            \in RunRecord
      BY <1>2, <1>3, <2>1 DEF RunRecord, Invocation
    <2>3. p \in InRunner /\ pc' = [pc EXCEPT ![r] = p]
      BY <1>5 DEF PersistsRun, InRunner
    <2>4. stack' = stack /\ inbox' = inbox /\ runStore' \subseteq RunRecord
      BY <1>2, <1>5, <2>2 DEF PersistsRun
    <2>5. Top(r)'.status \in RunStatus
      BY <2>1, <2>4 DEF Top
    <2> HIDE DEF p
    <2> QED
      BY <1>1, <1>2, <1>5, <2>3, <2>4, <2>5, RunnerStep DEF PersistsRun, RunnerKeeps
  <1>6. CASE StoresNotification(r)
    <2>1. Top(r).status \in RunStatus
      BY <1>6 DEF StoresNotification, IInv, Placed, Finishing
    <2>2. [run |-> RunID(r), step |-> 0, says |-> Top(r).status] \in Notification
      BY <1>3, <2>1 DEF Notification
    <2>3. stack' = stack /\ runStore' = runStore /\ inbox' \subseteq Notification
      BY <1>2, <1>6, <2>2 DEF StoresNotification
    <2>4. "chain" \in InRunner
      BY DEF InRunner
    <2>5. Top(r)'.status \in RunStatus
      BY <2>1, <2>3 DEF Top
    <2> QED
      BY <1>1, <1>2, <1>6, <2>3, <2>4, <2>5, RunnerStep DEF StoresNotification, RunnerKeeps
  <1> QED
    BY <1>4, <1>5, <1>6

(* What a change of pc and workflow must bring along for the marks.  MarksAre *)
(* says OneRunPerWorkflow's equation pointwise.                               *)
MarksAre ==
  \A w \in Workflow : w \in workflowRunning <=> \E r \in Run : Marks(r) /\ workflow[r] = w

(* The equation of OneRunPerWorkflow and its pointwise form agree. *)
LEMMA MarksPointwise ==
  ASSUME workflowRunning \subseteq Workflow, \A r \in Run : Marks(r) => workflow[r] \in Workflow
  PROVE  MarksAre <=> workflowRunning = {workflow[r] : r \in {q \in Run : Marks(q)}}
  BY DEF MarksAre

(* A goroutine outside the runner moves on, keeping its workflow's mark. *)
LEMMA MarkKept ==
  ASSUME IInv, NEW r \in Run, NEW p \in PC, pc' = [pc EXCEPT ![r] = p],
         p \notin InRunner, Marks(r)' <=> Marks(r),
         UNCHANGED <<workflowRunning, workflowCancels, workflow>>
  PROVE  OneRunPerWorkflow' /\ Cancellable'
  <1>1. pc \in [Run -> PC]
    BY DEF IInv, TypeOK
  <1>2. \A q \in Run : Marks(q)' <=> Marks(q)
    BY <1>1 DEF Marks
  <1>3. \A q \in Run : pc'[q] \in InRunner => pc[q] \in InRunner
    BY <1>1
  <1>4. OneRunPerWorkflow'
    BY <1>2 DEF IInv, OneRunPerWorkflow
  <1>5. Cancellable'
    BY <1>2, <1>3 DEF IInv, Cancellable, TypeOK, NoRun
  <1> QED
    BY <1>4, <1>5

(* A goroutine starts for a workflow nobody has marked. *)
LEMMA MarkTaken ==
  ASSUME IInv, NEW q \in Run, NEW w \in Workflow, NEW p \in {"claimed", "admitted"},
         pc[q] = "none", w \notin workflowRunning,
         workflowRunning' = workflowRunning \cup {w},
         workflow' = [workflow EXCEPT ![q] = w], workflowCancels' = workflowCancels,
         pc'[q] = p,
         \A u \in Run \ {q} : (Marks(u)' <=> Marks(u)) /\ (pc'[u] \in InRunner => pc[u] \in InRunner)
  PROVE  OneRunPerWorkflow' /\ Cancellable'
  <1>1. /\ workflow \in [Run -> Workflow \cup {NoWorkflow}]
        /\ workflowRunning \subseteq Workflow
        /\ workflowCancels \in [Workflow -> Run \cup {NoRun}]
        /\ \A r \in Run : Marks(r) => workflow[r] \in Workflow
    BY DEF IInv, TypeOK, Placed
  <1>2. ~Marks(q) /\ Marks(q)' /\ pc'[q] \notin InRunner
    BY DEF Marks, InRunner
  <1>3. workflow'[q] = w /\ \A u \in Run \ {q} : workflow'[u] = workflow[u]
    BY <1>1
  <1>4. MarksAre
    BY <1>1, MarksPointwise DEF IInv, OneRunPerWorkflow
  <1>5. \A u \in Run : Marks(u) => workflow[u] # w
    BY <1>4 DEF MarksAre
  <1>6. \A u, v \in Run : Marks(u)' /\ Marks(v)' /\ workflow'[u] = workflow'[v] => u = v
    BY <1>2, <1>3, <1>5 DEF IInv, OneRunPerWorkflow
  <1>7. MarksAre'
    BY <1>2, <1>3, <1>4 DEF MarksAre
  <1>8. OneRunPerWorkflow'
    <2>1. workflowRunning' \subseteq Workflow /\ \A u \in Run : Marks(u)' => workflow'[u] \in Workflow
      BY <1>1, <1>2, <1>3
    <2>2. (workflowRunning = {workflow[r] : r \in {u \in Run : Marks(u)}})'
      BY <1>7, <2>1 DEF MarksAre
    <2> QED
      BY <1>6, <2>2 DEF OneRunPerWorkflow
  <1>9. Cancellable'
    <2>1. \A u \in Run : pc'[u] \in InRunner => workflowCancels'[workflow'[u]] = u
      BY <1>2, <1>3 DEF IInv, Cancellable
    <2>2. ASSUME NEW v \in Workflow, workflowCancels[v] # NoRun
          PROVE  (Marks(workflowCancels[v]) /\ workflow[workflowCancels[v]] = v)'
      <3> DEFINE c == workflowCancels[v]
      <3>1. c \in Run /\ Marks(c) /\ workflow[c] = v /\ c # q
        BY <1>1, <1>2, <2>2 DEF IInv, Cancellable
      <3> QED
        BY <1>3, <3>1
    <2> QED
      BY <2>1, <2>2 DEF Cancellable
  <1> QED
    BY <1>8, <1>9

(* Starting a goroutine, by cron or by a trigger. *)
LEMMA StartingSteps ==
  ASSUME IInv, NEW w \in Workflow, NEW r \in Run, CronFires(w, r) \/ UserTriggers(w, r)
  PROVE  IInv'
  <1>1. /\ pc \in [Run -> PC] /\ workflow \in [Run -> Workflow \cup {NoWorkflow}]
        /\ kind \in [Run -> {"none", "cron", "trigger"}] /\ pc[r] = "none" /\ sem \in 0..Slots
    BY DEF IInv, TypeOK, CronFires, UserTriggers, TriggerWorkflow, Fresh
  <1>2. \E p \in {"claimed", "admitted"} :
          /\ pc' = [pc EXCEPT ![r] = p]
          /\ p = "claimed" => sem' = sem
          /\ p = "admitted" => sem' = sem + 1 /\ sem < Slots
    BY DEF CronFires, UserTriggers, TriggerWorkflow, Triggerable
  <1>3. PICK p1 \in {"claimed", "admitted"} :
          /\ pc' = [pc EXCEPT ![r] = p1]
          /\ p1 = "claimed" => sem' = sem
          /\ p1 = "admitted" => sem' = sem + 1 /\ sem < Slots
    BY <1>2
  <1>4. /\ w \notin workflowRunning /\ workflowRunning' = workflowRunning \cup {w}
        /\ workflow' = [workflow EXCEPT ![r] = w]
        /\ \E k \in {"cron", "trigger"} : kind' = [kind EXCEPT ![r] = k]
        /\ UNCHANGED <<workflowCancels, ctx, stack, runStore, inbox, crashes>>
    BY DEF CronFires, UserTriggers, TriggerWorkflow, Triggerable, durable
  <1>5. pc'[r] = p1 /\ \A q \in Run \ {r} : pc'[q] = pc[q]
    BY <1>1, <1>3
  <1>6. \A q \in Run \ {r} : (Marks(q)' <=> Marks(q)) /\ (HoldsSlot(q)' <=> HoldsSlot(q))
    BY <1>5 DEF Marks, HoldsSlot
  <1>7. OneRunPerWorkflow' /\ Cancellable'
    BY <1>1, <1>4, <1>5, <1>6, MarkTaken
  <1>8. SlotsAccounted'
    <2>1. ~HoldsSlot(r) /\ (HoldsSlot(r)' <=> p1 = "admitted")
      BY <1>1, <1>5 DEF HoldsSlot, InRunner
    <2>2. CASE p1 = "claimed"
      BY <1>3, <1>6, <2>1, <2>2, SlotsKept DEF IInv
    <2>3. CASE p1 = "admitted"
      BY <1>3, <1>6, <2>1, <2>3, SlotTaken DEF IInv
    <2> QED
      BY <2>2, <2>3
  <1>9. TypeOK'
    <2>1. pc' \in [Run -> PC] /\ sem' \in 0..Slots
      BY <1>1, <1>3, WorkflowRunsAssumption DEF PC, WorkflowRunsAssumption
    <2> QED
      BY <1>4, <2>1 DEF IInv, TypeOK
  <1>10. Placed'
    <2>1. workflow'[r] = w /\ \A q \in Run \ {r} : workflow'[q] = workflow[q]
      BY <1>1, <1>4
    <2>2. pc'[r] \notin InRunner /\ pc'[r] \notin Finishing
      BY <1>5 DEF InRunner, Finishing
    <2> QED
      BY <1>4, <1>5, <1>6, <2>1, <2>2 DEF IInv, Placed, Top
  <1> QED
    BY <1>7, <1>8, <1>9, <1>10 DEF IInv

(* Waiting for a slot, being refused one and returning it. *)
LEMMA SlotSteps ==
  ASSUME IInv, NEW r \in Run, CronAdmitted(r) \/ CronSkips(r) \/ ReleasesSlot(r)
  PROVE  IInv'
  <1>1. pc \in [Run -> PC] /\ sem \in 0..Slots /\ Slots \in Nat
    BY WorkflowRunsAssumption DEF IInv, TypeOK, WorkflowRunsAssumption
  <1>2. UNCHANGED <<workflowRunning, workflowCancels, workflow, kind, ctx, stack, runStore, inbox, crashes>>
    BY DEF CronAdmitted, CronSkips, ReleasesSlot, admission, durable
  <1>3. ASSUME NEW p \in PC, pc' = [pc EXCEPT ![r] = p], p \notin InRunner,
               Marks(r)' <=> Marks(r), SlotsAccounted', sem' \in 0..Slots
        PROVE  IInv'
    <2>1. pc'[r] = p /\ \A q \in Run \ {r} : pc'[q] = pc[q]
      BY <1>1, <1>3
    <2>2. OneRunPerWorkflow' /\ Cancellable'
      BY <1>2, <1>3, MarkKept
    <2>3. TypeOK'
      BY <1>1, <1>2, <1>3 DEF IInv, TypeOK
    <2>4. p \notin Finishing
      BY <1>3 DEF Finishing, InRunner
    <2>5. Placed'
      BY <1>2, <1>3, <2>1, <2>4 DEF IInv, Placed, Top, Marks
    <2> QED
      BY <1>3, <2>2, <2>3, <2>5 DEF IInv
  <1>4. CASE CronAdmitted(r)
    <2>1. pc[r] = "claimed" /\ pc' = [pc EXCEPT ![r] = "admitted"] /\ sem' = sem + 1 /\ sem < Slots
      BY <1>4 DEF CronAdmitted
    <2>2. pc'[r] = "admitted" /\ \A q \in Run \ {r} : pc'[q] = pc[q]
      BY <1>1, <2>1
    <2>3. /\ (Marks(r)' <=> Marks(r)) /\ ~HoldsSlot(r) /\ HoldsSlot(r)'
          /\ \A q \in Run \ {r} : HoldsSlot(q)' <=> HoldsSlot(q)
          /\ "admitted" \in PC /\ "admitted" \notin InRunner
      BY <2>1, <2>2 DEF Marks, HoldsSlot, InRunner, PC
    <2>4. SlotsAccounted'
      BY <2>1, <2>3, SlotTaken DEF IInv
    <2>5. sem' \in 0..Slots
      BY <1>1, <2>1, <2>4
    <2> QED
      BY <1>3, <2>1, <2>3, <2>4, <2>5
  <1>5. CASE CronSkips(r)
    <2>1. pc[r] = "claimed" /\ pc' = [pc EXCEPT ![r] = "skipped"] /\ sem' = sem
      BY <1>5 DEF CronSkips, admission
    <2>2. pc'[r] = "skipped" /\ \A q \in Run \ {r} : pc'[q] = pc[q]
      BY <1>1, <2>1
    <2>3. /\ (Marks(r)' <=> Marks(r)) /\ \A q \in Run : HoldsSlot(q)' <=> HoldsSlot(q)
          /\ "skipped" \in PC /\ "skipped" \notin InRunner
      BY <2>1, <2>2 DEF Marks, HoldsSlot, InRunner, PC
    <2>4. SlotsAccounted'
      BY <2>1, <2>3, SlotsKept DEF IInv
    <2> QED
      BY <1>1, <1>3, <2>1, <2>3, <2>4
  <1>6. CASE ReleasesSlot(r)
    <2>1. PICK p \in {"slotReturned", "over"} :
            /\ pc' = [pc EXCEPT ![r] = p] /\ sem' = sem - 1
            /\ pc[r] = IF p = "slotReturned" THEN "unwinding" ELSE "unmarked"
      BY <1>6 DEF ReleasesSlot
    <2>2. pc'[r] = p /\ \A q \in Run \ {r} : pc'[q] = pc[q]
      BY <1>1, <2>1
    <2>3. /\ (Marks(r)' <=> Marks(r)) /\ HoldsSlot(r) /\ ~HoldsSlot(r)'
          /\ \A q \in Run \ {r} : HoldsSlot(q)' <=> HoldsSlot(q)
          /\ p \in PC /\ p \notin InRunner
      BY <2>1, <2>2 DEF Marks, HoldsSlot, InRunner, PC
    <2>4. SlotsAccounted' /\ sem > 0
      BY <2>1, <2>3, SlotReturned DEF IInv
    <2>5. sem' \in 0..Slots
      BY <1>1, <2>1, <2>4
    <2> QED
      BY <1>3, <2>1, <2>3, <2>4, <2>5
  <1> QED
    BY <1>4, <1>5, <1>6

(* Into the runner, and out of the mark. *)
LEMMA EntersStep ==
  ASSUME IInv, NEW r \in Run, EntersRunner(r)
  PROVE  IInv'
  <1>1. /\ pc \in [Run -> PC] /\ workflowCancels \in [Workflow -> Run \cup {NoRun}]
        /\ ctx \in [Run -> {"none", "live", "user", "timeout", "released"}]
        /\ stack \in [Run -> Seq(Invocation)]
    BY DEF IInv, TypeOK
  <1>2. /\ pc[r] = "admitted" /\ pc' = [pc EXCEPT ![r] = "loop"]
        /\ workflowCancels' = [workflowCancels EXCEPT ![workflow[r]] = r]
        /\ stack' = [stack EXCEPT ![r] = <<Invoke(workflow[r])>>]
        /\ ctx' = [ctx EXCEPT ![r] = "live"]
        /\ UNCHANGED <<workflowRunning, sem, workflow, kind, runStore, inbox, crashes>>
    BY DEF EntersRunner, durable
  <1>3. pc'[r] = "loop" /\ \A q \in Run \ {r} : pc'[q] = pc[q]
    BY <1>1, <1>2
  <1>4. /\ \A q \in Run : (Marks(q)' <=> Marks(q)) /\ (HoldsSlot(q)' <=> HoldsSlot(q))
        /\ Marks(r) /\ "loop" \in PC /\ "loop" \notin Finishing
    BY <1>2, <1>3 DEF Marks, HoldsSlot, InRunner, PC, Finishing
  <1>5. workflow[r] \in Workflow
    BY <1>4 DEF IInv, Placed
  <1>6. <<Invoke(workflow[r])>> \in Seq(Invocation) /\ <<Invoke(workflow[r])>> # << >>
    <2> DEFINE f == Invoke(workflow[r])
    <2>1. f \in Invocation
      BY <1>5, InvokeTyped
    <2> HIDE DEF f
    <2>2. <<f>> \in Seq(Invocation) /\ <<f>> # << >>
      BY <2>1
    <2> QED
      BY <2>2 DEF f
  <1>7. TypeOK'
    BY <1>1, <1>2, <1>4, <1>5, <1>6 DEF IInv, TypeOK
  <1>8. Placed'
    <2>1. stack'[r] # << >> /\ \A q \in Run \ {r} : stack'[q] = stack[q]
      BY <1>1, <1>2, <1>6
    <2> QED
      BY <1>2, <1>3, <1>4, <2>1 DEF IInv, Placed, Top
  <1>9. OneRunPerWorkflow'
    BY <1>2, <1>4 DEF IInv, OneRunPerWorkflow
  <1>10. SlotsAccounted'
    BY <1>2, <1>4, SlotsKept DEF IInv
  <1>11. Cancellable'
    <2>1. /\ workflowCancels'[workflow[r]] = r
          /\ \A w \in Workflow \ {workflow[r]} : workflowCancels'[w] = workflowCancels[w]
      BY <1>1, <1>2, <1>5
    <2>2. \A q \in Run \ {r} : Marks(q) => workflow[q] \in Workflow \ {workflow[r]}
      BY <1>4 DEF IInv, OneRunPerWorkflow, Placed
    <2>3. \A q \in Run : pc'[q] \in InRunner => workflowCancels'[workflow'[q]] = q
      <3> SUFFICES ASSUME NEW q \in Run \ {r}, pc[q] \in InRunner
                   PROVE  workflowCancels'[workflow[q]] = q
        BY <1>2, <1>3, <2>1
      <3>1. Marks(q) /\ workflowCancels[workflow[q]] = q
        BY DEF Marks, IInv, Cancellable
      <3> QED
        BY <2>1, <2>2, <3>1
    <2>4. ASSUME NEW w \in Workflow, workflowCancels'[w] # NoRun
          PROVE  (Marks(workflowCancels[w]) /\ workflow[workflowCancels[w]] = w)'
      <3>1. CASE w = workflow[r]
        BY <1>2, <1>4, <2>1, <3>1
      <3>2. CASE w # workflow[r]
        <4>1. workflowCancels'[w] = workflowCancels[w] /\ workflowCancels[w] \in Run
          BY <1>1, <2>1, <2>4, <3>2
        <4>2. Marks(workflowCancels[w]) /\ workflow[workflowCancels[w]] = w
          BY <2>4, <4>1 DEF IInv, Cancellable
        <4> QED
          BY <1>2, <1>4, <4>1, <4>2 DEF Marks
      <3> QED
        BY <3>1, <3>2
    <2> QED
      BY <2>3, <2>4 DEF Cancellable
  <1> QED
    BY <1>7, <1>8, <1>9, <1>10, <1>11 DEF IInv

(* The mark and the cancel func go together, and nobody else's do. *)
LEMMA UnmarkStep ==
  ASSUME IInv, NEW r \in Run, Unmarks(r)
  PROVE  IInv'
  <1>1. /\ pc \in [Run -> PC] /\ workflowCancels \in [Workflow -> Run \cup {NoRun}]
        /\ workflowRunning \subseteq Workflow
        /\ \A q \in Run : Marks(q) => workflow[q] \in Workflow
    BY DEF IInv, TypeOK, Placed
  <1>2. PICK p \in {"unmarked", "over"} :
          /\ pc' = [pc EXCEPT ![r] = p]
          /\ p = "unmarked" => pc[r] = "unwinding"
          /\ p = "over" => pc[r] \in {"skipped", "slotReturned"}
    BY DEF Unmarks
  <1>3. /\ workflowRunning' = workflowRunning \ {workflow[r]}
        /\ workflowCancels' = [workflowCancels EXCEPT ![workflow[r]] = NoRun]
        /\ UNCHANGED <<sem, workflow, kind, ctx, stack, runStore, inbox, crashes>>
    BY DEF Unmarks, durable
  <1>4. pc'[r] = p /\ \A q \in Run \ {r} : pc'[q] = pc[q]
    BY <1>1, <1>2
  <1>5. /\ \A q \in Run : HoldsSlot(q)' <=> HoldsSlot(q)
        /\ \A q \in Run \ {r} : Marks(q)' <=> Marks(q)
        /\ Marks(r) /\ ~Marks(r)' /\ p \in PC /\ p \notin InRunner /\ p \notin Finishing
    BY <1>2, <1>4 DEF Marks, HoldsSlot, InRunner, PC, Finishing
  <1>6. TypeOK'
    BY <1>1, <1>2, <1>3, <1>5 DEF IInv, TypeOK
  <1>7. Placed'
    BY <1>3, <1>4, <1>5 DEF IInv, Placed, Top
  <1>8. SlotsAccounted'
    BY <1>3, <1>5, SlotsKept DEF IInv
  <1>9. \A q \in Run \ {r} : Marks(q) => workflow[q] # workflow[r]
    BY <1>5 DEF IInv, OneRunPerWorkflow
  <1>10. OneRunPerWorkflow'
    <2>1. MarksAre
      BY <1>1, MarksPointwise DEF IInv, OneRunPerWorkflow
    <2>2. MarksAre'
      BY <1>3, <1>5, <1>9, <2>1 DEF MarksAre
    <2>3. workflowRunning' \subseteq Workflow /\ \A q \in Run : Marks(q)' => workflow'[q] \in Workflow
      BY <1>1, <1>3, <1>5
    <2>4. (workflowRunning = {workflow[q] : q \in {u \in Run : Marks(u)}})'
      BY <2>2, <2>3 DEF MarksAre
    <2>5. \A q, u \in Run : Marks(q)' /\ Marks(u)' /\ workflow'[q] = workflow'[u] => q = u
      BY <1>3, <1>5 DEF IInv, OneRunPerWorkflow
    <2> QED
      BY <2>4, <2>5 DEF OneRunPerWorkflow
  <1>11. Cancellable'
    <2>1. /\ workflow[r] \in Workflow /\ workflowCancels'[workflow[r]] = NoRun
          /\ \A w \in Workflow \ {workflow[r]} : workflowCancels'[w] = workflowCancels[w]
      BY <1>1, <1>3, <1>5
    <2>2. \A q \in Run : pc'[q] \in InRunner => workflowCancels'[workflow'[q]] = q
      <3> SUFFICES ASSUME NEW q \in Run \ {r}, pc[q] \in InRunner
                   PROVE  workflowCancels'[workflow[q]] = q
        BY <1>3, <1>4, <1>5
      <3>1. Marks(q) /\ workflowCancels[workflow[q]] = q
        BY DEF Marks, IInv, Cancellable
      <3> QED
        BY <1>1, <1>9, <2>1, <3>1
    <2>3. ASSUME NEW w \in Workflow, workflowCancels'[w] # NoRun
          PROVE  (Marks(workflowCancels[w]) /\ workflow[workflowCancels[w]] = w)'
      <3> DEFINE c == workflowCancels[w]
      <3>1. w # workflow[r] /\ workflowCancels'[w] = c /\ c \in Run
        BY <1>1, <2>1, <2>3
      <3>2. Marks(c) /\ workflow[c] = w /\ c # r
        BY <2>3, <3>1 DEF IInv, Cancellable
      <3> QED
        BY <1>3, <1>5, <3>1, <3>2 DEF Marks
    <2> QED
      BY <2>2, <2>3 DEF Cancellable
  <1> QED
    BY <1>6, <1>7, <1>8, <1>10, <1>11 DEF IInv

Ctx == {"none", "live", "user", "timeout", "released"}

(* Back in the caller, or out of the runner with an empty stack. *)
LEMMA ReturnsTyped ==
  ASSUME IInv, NEW r \in Run, pc[r] = "chain", Returns(r)
  PROVE  /\ stack' \in [Run -> Seq(Invocation)] /\ ctx' \in [Run -> Ctx]
         /\ \A q \in Run \ {r} : stack'[q] = stack[q]
         /\ ReturnsTo(r) \in {"unwinding", "loop"}
         /\ ReturnsTo(r) = "loop" => stack'[r] # << >>
  <1>1. /\ stack \in [Run -> Seq(Invocation)] /\ ctx \in [Run -> Ctx]
        /\ stack[r] # << >> /\ Top(r).status \in RunStatus
    BY DEF IInv, TypeOK, Placed, InRunner, Finishing, Ctx
  <1>2. stack[r] \in Seq(Invocation) /\ Len(stack[r]) \in 1..Len(stack[r])
    BY <1>1, TopTyped
  <1>3. CASE Len(stack[r]) = 1
    <2>1. stack' = [stack EXCEPT ![r] = << >>] /\ ctx' = Released(r) /\ ReturnsTo(r) = "unwinding"
      BY <1>3 DEF Returns, ReturnsTo
    <2>2. << >> \in Seq(Invocation)
      BY EmptySeq
    <2> QED
      BY <1>1, <2>1, <2>2 DEF Released, Ctx
  <1>4. CASE Len(stack[r]) # 1
    <2> DEFINE n == Len(stack[r]) - 1
               b == SubSeq(stack[r], 1, n - 1)
               f == Record(stack[r][n], "success", Top(r).status)
    <2>1. n \in Nat \ {0} /\ \A i \in 1..n : stack[r][i] \in Invocation
      BY <1>2, <1>4, LenProperties
    <2>2. b \in Seq(Invocation)
      <3> DEFINE m == n - 1
      <3>1. m \in Int /\ \A i \in 1..m : stack[r][i] \in Invocation
        BY <2>1
      <3> HIDE DEF n, m
      <3>2. SubSeq(stack[r], 1, m) \in Seq(Invocation)
        BY <3>1, SubSeqProperties
      <3> QED
        BY <3>2 DEF m
    <2>3. stack' = [stack EXCEPT ![r] = Append(b, f)] /\ ctx' = ctx /\ ReturnsTo(r) = "loop"
      BY <1>4 DEF Returns, ReturnsTo
    <2>4. f \in Invocation
      <3> DEFINE x == stack[r][n]
                 c == Top(r).status
      <3> HIDE DEF n
      <3>1. x \in Invocation
        BY <2>1
      <3>2. c \in RunStatus \cup {"none"}
        BY <1>1
      <3> HIDE DEF x, c
      <3>3. Record(x, "success", c) \in Invocation
        BY <3>1, <3>2, RecordTyped
      <3> QED
        BY <3>3 DEF x, c
    <2> HIDE DEF n, b, f
    <2>5. Append(b, f) \in Seq(Invocation) /\ Append(b, f) # << >>
      BY <2>2, <2>4, AppendProperties
    <2> QED
      BY <1>1, <2>3, <2>5
  <1> QED
    BY <1>3, <1>4

(* A goroutine leaves an invocation without starting another run, or all   *)
(* of them by a panic.                                                     *)
LEMMA LeavingSteps ==
  ASSUME IInv, NEW r \in Run, ChainEnds(r) \/ ChainOutOfBound(r) \/ AgentPanics(r)
  PROVE  IInv'
  <1>1. pc \in [Run -> PC] /\ ctx \in [Run -> Ctx] /\ stack \in [Run -> Seq(Invocation)]
    BY DEF IInv, TypeOK, Ctx
  <1>2. \E p \in {"unwinding", "loop"} :
          /\ pc[r] \in InRunner /\ pc' = [pc EXCEPT ![r] = p]
          /\ stack' \in [Run -> Seq(Invocation)] /\ ctx' \in [Run -> Ctx]
          /\ \A q \in Run \ {r} : stack'[q] = stack[q]
          /\ p = "loop" => stack'[r] # << >>
    <2>1. CASE ChainEnds(r) \/ ChainOutOfBound(r)
      BY <2>1, ReturnsTyped DEF ChainEnds, ChainOutOfBound, InRunner
    <2>2. CASE AgentPanics(r)
      <3>1. << >> \in Seq(Invocation)
        BY EmptySeq
      <3>2. ctx' \in [Run -> Ctx]
        BY <1>1, <2>2 DEF AgentPanics, Released, Ctx
      <3> QED
        BY <1>1, <2>2, <3>1, <3>2 DEF AgentPanics, InRunner
    <2> QED
      BY <2>1, <2>2
  <1>3. PICK p \in {"unwinding", "loop"} :
          /\ pc[r] \in InRunner /\ pc' = [pc EXCEPT ![r] = p]
          /\ stack' \in [Run -> Seq(Invocation)] /\ ctx' \in [Run -> Ctx]
          /\ \A q \in Run \ {r} : stack'[q] = stack[q]
          /\ p = "loop" => stack'[r] # << >>
    BY <1>2
  <1>4. UNCHANGED <<workflowRunning, workflowCancels, sem, workflow, kind, runStore, inbox, crashes>>
    BY DEF ChainEnds, ChainOutOfBound, AgentPanics, admission, durable, RunnerKeeps
  <1>5. pc'[r] = p /\ \A q \in Run \ {r} : pc'[q] = pc[q]
    BY <1>1, <1>3
  <1>6. /\ \A q \in Run : (Marks(q)' <=> Marks(q)) /\ (HoldsSlot(q)' <=> HoldsSlot(q))
        /\ \A q \in Run : pc'[q] \in InRunner => pc[q] \in InRunner
        /\ p \in PC /\ p \notin Finishing /\ (p \in InRunner => p = "loop")
    BY <1>3, <1>5 DEF Marks, HoldsSlot, InRunner, PC, Finishing
  <1>7. TypeOK'
    BY <1>1, <1>3, <1>4, <1>6 DEF IInv, TypeOK, Ctx
  <1>8. Placed'
    BY <1>3, <1>4, <1>5, <1>6 DEF IInv, Placed, Top
  <1>9. OneRunPerWorkflow'
    BY <1>4, <1>6 DEF IInv, OneRunPerWorkflow
  <1>10. SlotsAccounted'
    BY <1>4, <1>6, SlotsKept DEF IInv
  <1>11. Cancellable'
    BY <1>4, <1>6 DEF IInv, Cancellable, TypeOK, NoRun
  <1> QED
    BY <1>7, <1>8, <1>9, <1>10, <1>11 DEF IInv

(* A chain: the run returns and another one starts, in a slot of its own. *)
LEMMA ChainStep ==
  ASSUME IInv, NEW r \in Run, NEW q \in Run, Chains(r, q)
  PROVE  IInv'
  <1> DEFINE w == Chain[Top(r).wf].next
             p == ReturnsTo(r)
  <1>1. /\ pc \in [Run -> PC] /\ workflow \in [Run -> Workflow \cup {NoWorkflow}]
        /\ kind \in [Run -> {"none", "cron", "trigger"}] /\ sem \in 0..Slots /\ Slots \in Nat
    BY WorkflowRunsAssumption DEF IInv, TypeOK, WorkflowRunsAssumption
  <1>2. /\ pc[r] = "chain" /\ pc[q] = "none" /\ q # r
        /\ pc' = [pc EXCEPT ![r] = p, ![q] = "admitted"]
        /\ w \notin workflowRunning /\ sem < Slots /\ sem' = sem + 1
        /\ workflowRunning' = workflowRunning \cup {w}
        /\ workflow' = [workflow EXCEPT ![q] = w] /\ kind' = [kind EXCEPT ![q] = "trigger"]
        /\ UNCHANGED <<workflowCancels, runStore, inbox, crashes>>
    BY DEF Chains, TriggerWorkflow, Triggerable, Fresh, durable
  <1>3. w \in Workflow
    <2>1. Top(r).wf \in Workflow
      BY <1>2, TopTyped DEF IInv, TypeOK, Placed, InRunner, Invocation
    <2>2. Chain[Top(r).wf] \in ChainConfig /\ w # NoWorkflow
      BY <2>1, WorkflowRunsAssumption DEF WorkflowRunsAssumption, Chains, WantsChain
    <2> QED
      BY <2>2 DEF ChainConfig
  <1>4. /\ stack' \in [Run -> Seq(Invocation)] /\ ctx' \in [Run -> Ctx]
        /\ \A u \in Run \ {r} : stack'[u] = stack[u]
        /\ p \in {"unwinding", "loop"} /\ (p = "loop" => stack'[r] # << >>)
    BY <1>2, ReturnsTyped DEF Chains
  <1> HIDE DEF w, p
  <1>5. pc'[r] = p /\ pc'[q] = "admitted" /\ \A u \in Run \ {r, q} : pc'[u] = pc[u]
    BY <1>1, <1>2
  <1>6. /\ \A u \in Run \ {q} : (Marks(u)' <=> Marks(u)) /\ (HoldsSlot(u)' <=> HoldsSlot(u))
        /\ \A u \in Run \ {q} : pc'[u] \in InRunner => pc[u] \in InRunner
        /\ ~HoldsSlot(q) /\ HoldsSlot(q)' /\ Marks(q)' /\ p \in PC /\ "admitted" \in PC
    BY <1>2, <1>4, <1>5 DEF Marks, HoldsSlot, InRunner, PC
  <1>7. OneRunPerWorkflow' /\ Cancellable'
    BY <1>2, <1>3, <1>5, <1>6, MarkTaken
  <1>8. SlotsAccounted'
    BY <1>2, <1>6, SlotTaken DEF IInv
  <1>9. TypeOK'
    <2>1. pc' \in [Run -> PC] /\ sem' \in 0..Slots
      BY <1>1, <1>2, <1>6
    <2>2. workflow' \in [Run -> Workflow \cup {NoWorkflow}] /\ workflowRunning' \subseteq Workflow
      BY <1>1, <1>2, <1>3 DEF IInv, TypeOK
    <2> QED
      BY <1>1, <1>2, <1>4, <2>1, <2>2 DEF IInv, TypeOK, Ctx
  <1>10. Placed'
    <2>1. workflow'[q] = w /\ \A u \in Run \ {q} : workflow'[u] = workflow[u]
      BY <1>1, <1>2
    <2>2. /\ pc'[q] \notin InRunner /\ pc'[q] \notin Finishing
          /\ pc'[r] \notin Finishing /\ (pc'[r] \in InRunner => p = "loop")
      BY <1>4, <1>5 DEF InRunner, Finishing
    <2>3. \A u \in Run \ {r, q} : stack'[u] = stack[u]
      BY <1>4
    <2> QED
      BY <1>3, <1>4, <1>5, <1>6, <2>1, <2>2, <2>3 DEF IInv, Placed, Top
  <1> QED
    BY <1>7, <1>8, <1>9, <1>10 DEF IInv

(* A cancel or the deadline touches the context only. *)
LEMMA ContextSteps ==
  ASSUME IInv, UNCHANGED <<admission, pc, workflow, kind, stack, durable, crashes>>,
         ctx' \in [Run -> Ctx]
  PROVE  IInv'
  <1>1. TypeOK'
    BY DEF IInv, TypeOK, Ctx, admission, durable
  <1>2. \A q \in Run : (Marks(q)' <=> Marks(q)) /\ (HoldsSlot(q)' <=> HoldsSlot(q))
    BY DEF Marks, HoldsSlot
  <1>3. SlotsAccounted'
    BY <1>2, SlotsKept DEF IInv, admission
  <1>4. OneRunPerWorkflow'
    BY <1>2 DEF IInv, OneRunPerWorkflow, admission
  <1>5. Cancellable'
    BY <1>2 DEF IInv, Cancellable, admission, TypeOK, NoRun
  <1>6. Placed'
    BY <1>2 DEF IInv, Placed, Top
  <1> QED
    BY <1>1, <1>3, <1>4, <1>5, <1>6 DEF IInv

(* After a restart nobody runs, holds or marks anything. *)
LEMMA RestartStep ==
  ASSUME IInv, Restart
  PROVE  IInv'
  <1>1. /\ pc \in [Run -> PC] /\ crashes \in 0..MaxCrashes /\ MaxCrashes \in Nat /\ Slots \in Nat
    BY WorkflowRunsAssumption DEF IInv, TypeOK, WorkflowRunsAssumption
  <1>2. \A q \in Run : pc'[q] \in {"none", "over", "lost"}
    BY DEF Restart
  <1>3. \A q \in Run : ~Marks(q)' /\ ~HoldsSlot(q)' /\ pc'[q] \notin InRunner /\ pc'[q] \notin Finishing
    BY <1>2 DEF Marks, HoldsSlot, InRunner, Finishing
  <1>4. TypeOK'
    <2>1. << >> \in Seq(Invocation)
      BY EmptySeq
    <2>2. pc' \in [Run -> PC]
      BY <1>1 DEF Restart, PC
    <2>3. crashes' \in 0..MaxCrashes /\ sem' \in 0..Slots
      BY <1>1 DEF Restart
    <2> QED
      BY <2>1, <2>2, <2>3 DEF IInv, TypeOK, Restart, durable
  <1>5. SlotsAccounted'
    <2>1. {q \in Run : HoldsSlot(q)}' = {}
      BY <1>3
    <2> QED
      BY <2>1, FS_EmptySet DEF SlotsAccounted, Restart
  <1>6. OneRunPerWorkflow'
    BY <1>3 DEF OneRunPerWorkflow, Restart
  <1>7. Cancellable'
    BY <1>3 DEF Cancellable, Restart
  <1>8. Placed'
    BY <1>3 DEF Placed
  <1> QED
    BY <1>4, <1>5, <1>6, <1>7, <1>8 DEF IInv

-----------------------------------------------------------------------------
(* Nothing runs before the first trigger. *)
LEMMA RunsInit == Init => IInv
  <1> SUFFICES ASSUME Init PROVE IInv
    OBVIOUS
  <1>1. \A q \in Run : ~Marks(q) /\ ~HoldsSlot(q) /\ pc[q] \notin InRunner /\ pc[q] \notin Finishing
    BY DEF Init, Marks, HoldsSlot, InRunner, Finishing
  <1>2. TypeOK
    <2>1. << >> \in Seq(Invocation)
      BY EmptySeq
    <2> QED
      BY <2>1, WorkflowRunsAssumption DEF Init, TypeOK, PC, WorkflowRunsAssumption
  <1>3. SlotsAccounted
    <2>1. {q \in Run : HoldsSlot(q)} = {}
      BY <1>1
    <2> QED
      BY <2>1, FS_EmptySet DEF SlotsAccounted, Init
  <1>4. OneRunPerWorkflow /\ Cancellable /\ Placed
    BY <1>1 DEF OneRunPerWorkflow, Cancellable, Placed, Init
  <1> QED
    BY <1>2, <1>3, <1>4 DEF IInv

(* Every step of the scheduler and of the runner keeps the invariant. *)
LEMMA RunsStep == IInv /\ [Next]_vars => IInv'
  <1> SUFFICES ASSUME IInv, [Next]_vars PROVE IInv'
    OBVIOUS
  <1>1. ctx \in [Run -> Ctx] /\ workflowCancels \in [Workflow -> Run \cup {NoRun}]
    BY DEF IInv, TypeOK, Ctx
  <1>2. CASE UNCHANGED vars
    BY <1>1, <1>2, ContextSteps DEF vars, admission, durable
  <1>3. CASE Rests
    BY <1>1, <1>3, ContextSteps DEF Rests, vars, admission, durable
  <1>4. CASE Restart
    BY <1>4, RestartStep
  <1>5. CASE \E w \in Workflow, r \in Run : CronFires(w, r) \/ UserTriggers(w, r)
    BY <1>5, StartingSteps
  <1>6. CASE \E w \in Workflow : CancelWorkflow(w)
    BY <1>1, <1>6, ContextSteps DEF CancelWorkflow, Ctx
  <1>7. CASE \E r \in Run : TimesOut(r)
    BY <1>1, <1>7, ContextSteps DEF TimesOut, Ctx
  <1>8. CASE \E r \in Run : GoStep(r)
    <2> PICK r \in Run : GoStep(r)
      BY <1>8
    <2>1. CASE CronAdmitted(r) \/ CronSkips(r) \/ ReleasesSlot(r)
      BY <2>1, SlotSteps
    <2>2. CASE EntersRunner(r)
      BY <2>2, EntersStep
    <2>3. CASE Unmarks(r)
      BY <2>3, UnmarkStep
    <2>4. CASE \/ SkipsStep(r) \/ RefusesStep(r) \/ GateRefuses(r) \/ BeginsStep(r) \/ CallsAgent(r)
               \/ TryAbandoned(r) \/ AgentAnswers(r) \/ AgentFails(r) \/ CallsSubWorkflow(r)
               \/ SubWorkflowCycle(r)
      BY <2>4, ExecutingSteps
    <2>5. CASE SettlesStatus(r) \/ PersistsRun(r) \/ StoresNotification(r)
      BY <2>5, EndingSteps
    <2>6. CASE ChainEnds(r) \/ ChainOutOfBound(r) \/ AgentPanics(r)
      BY <2>6, LeavingSteps
    <2>7. CASE \E q \in Run : Chains(r, q)
      BY <2>7, ChainStep
    <2> QED
      BY <2>1, <2>2, <2>3, <2>4, <2>5, <2>6, <2>7 DEF GoStep
  <1> QED
    BY <1>2, <1>3, <1>4, <1>5, <1>6, <1>7, <1>8 DEF Next

(* The inductive invariant holds in every behaviour of the scheduler. *)
THEOREM RunsInvariant == Spec => []IInv
  BY RunsInit, RunsStep, PTL DEF Spec

(* Every variable of the scheduler and its runs keeps its type; that the   *)
(* semaphore stays between empty and full is part of it.                   *)
THEOREM RunsTypeCorrect == Spec => []TypeOK
  <1>1. IInv => TypeOK
    BY DEF IInv
  <1> QED
    BY RunsInvariant, <1>1, PTL

(* No workflow runs twice at a time, whether cron, a user or a chain asks, *)
(* and no workflow stays marked after its run.                             *)
THEOREM NoOverlap == Spec => []OneRunPerWorkflow
  <1>1. IInv => OneRunPerWorkflow
    BY DEF IInv
  <1> QED
    BY RunsInvariant, <1>1, PTL

(* Every slot taken is held by exactly one goroutine, until it gives it    *)
(* back.                                                                   *)
THEOREM NoSlotLeaks == Spec => []SlotsAccounted
  <1>1. IInv => SlotsAccounted
    BY DEF IInv
  <1> QED
    BY RunsInvariant, <1>1, PTL

(* CancelWorkflow always finds the run that executes the workflow.         *)
THEOREM CancelFindsItsRun == Spec => []Cancellable
  <1>1. IInv => Cancellable
    BY DEF IInv
  <1> QED
    BY RunsInvariant, <1>1, PTL

-----------------------------------------------------------------------------
(* What the status of a run says about its steps. *)

(* An invocation in which no step has failed that stops it. *)
Unbroken(f) == ~f.aborted /\ \A i \in Failed(f) : ~Stops(f, i)

(* An invocation with a step still to be settled: a step that is tried, or *)
(* the call of the sub-workflow above it.                                  *)
Under(f) == Unbroken(f) /\ Len(f.results) < Len(Steps[f.wf])

(* The last step failed, and it is one that stops the run. *)
StoppedByLast(f) == \E i \in Failed(f) : i = Len(f.results) /\ Stops(f, i)

(* What a status tells of the steps and of the context of the run. *)
Tells(f, c) ==
  /\ f.status = "complete"  => Attempted(f) /\ Failed(f) = {}
  /\ f.status = "partial"   => Attempted(f) /\ Failed(f) # {} /\ \A i \in Failed(f) : ~Stops(f, i)
  /\ f.status = "failed"    => StoppedByLast(f) \/ (~Attempted(f) /\ c = "timeout")
  /\ f.status = "cancelled" => c = "user"

(* The invocation on top of a stack, by where its goroutine is. *)
TopFits(f, p, c) ==
  /\ Len(f.results) <= Len(Steps[f.wf])
  /\ p \in {"loop", "try", "attempt"} => Unbroken(f)
  /\ p \in {"try", "attempt"} => Under(f)
  /\ p = "end" => f.aborted /\ StoppedByLast(f)
  /\ p \in Finishing => Tells(f, c)

(* A stack: callers below, each workflow at most once. *)
Distinct(s) == \A i, j \in 1..Len(s) : s[i].wf = s[j].wf => i = j
Fits(s, p, c) ==
  /\ \A i \in 1..(Len(s) - 1) : Under(s[i])
  /\ p \in InRunner => TopFits(s[Len(s)], p, c)
  /\ Distinct(s)

(* A context has a cause only once its goroutine has entered the runner. *)
Caused(p, c) ==
  /\ p \in {"none", "claimed", "admitted"} => c = "none"
  /\ p \in InRunner => c \in {"live", "user", "timeout"}

(* What was recorded stays true because a cause, once set, stays set. *)
StepsInv ==
  /\ \A r \in Run : Fits(stack[r], pc[r], ctx[r]) /\ Caused(pc[r], ctx[r])
  /\ \A rec \in runStore : rec.id[1] \in Run /\ Tells(rec, ctx[rec.id[1]])

(* A cause that is set stays. *)
CauseStays(c, d) == c \in {"user", "timeout"} => d = c

(* What a status tells survives any legal change of the context. *)
LEMMA TellsStays ==
  ASSUME NEW f, NEW c, NEW d, Tells(f, c), CauseStays(c, d)
  PROVE  Tells(f, d)
  BY DEF Tells, CauseStays

(* So does the shape of a stack. *)
LEMMA FitsStays ==
  ASSUME NEW s, NEW p, NEW c, NEW d, Fits(s, p, c), CauseStays(c, d)
  PROVE  Fits(s, p, d)
  BY TellsStays DEF Fits, TopFits

(* Recording a step adds one result, at the end, and keeps the others. *)
LEMMA Recording ==
  ASSUME NEW f \in Invocation, NEW st \in {"success", "failed", "skipped"},
         NEW ch \in RunStatus \cup {"none"}, NEW g, g = Record(f, st, ch)
  PROVE  /\ g.wf = f.wf /\ g.aborted = f.aborted
         /\ Len(f.results) \in Nat /\ Len(g.results) = Len(f.results) + 1
         /\ Failed(g) = IF st = "failed" THEN Failed(f) \cup {Len(g.results)} ELSE Failed(f)
  <1> DEFINE e == [status |-> st, child |-> ch]
             t == Append(f.results, e)
  <1>1. f.results \in Seq(StepResult) /\ e \in StepResult
    BY DEF Invocation, StepResult
  <1>2. /\ Len(f.results) \in Nat /\ Len(t) = Len(f.results) + 1
        /\ \A i \in 1..Len(f.results) : t[i] = f.results[i]
        /\ t[Len(f.results) + 1] = e
    BY <1>1, AppendProperties, LenProperties
  <1>3. e.status = st
    OBVIOUS
  <1> HIDE DEF e
  <1>4. g = [f EXCEPT !.results = t, !.tries = 0]
    BY DEF Record, e
  <1> HIDE DEF t
  <1>5. g.results = t /\ g.wf = f.wf /\ g.aborted = f.aborted
    BY <1>4 DEF Invocation
  <1>6. 1..Len(t) = (1..Len(f.results)) \cup {Len(f.results) + 1}
    BY <1>2
  <1>7. Failed(g) = IF st = "failed" THEN Failed(f) \cup {Len(t)} ELSE Failed(f)
    BY <1>2, <1>3, <1>5, <1>6 DEF Failed
  <1> QED
    BY <1>2, <1>5, <1>7

(* A step that succeeds, is skipped or may fail leaves nothing broken. *)
LEMMA GoesOn ==
  ASSUME NEW f \in Invocation, Under(f), NEW st \in {"success", "failed", "skipped"},
         NEW ch \in RunStatus \cup {"none"}, NEW g, NEW c,
         g = Record(f, st, ch),
         st = "failed" => ~Stops(f, Len(f.results) + 1)
  PROVE  g.wf = f.wf /\ TopFits(g, "loop", c)
  <1>1. /\ g.wf = f.wf /\ g.aborted = f.aborted
        /\ Len(f.results) \in Nat /\ Len(g.results) = Len(f.results) + 1
        /\ Failed(g) = IF st = "failed" THEN Failed(f) \cup {Len(g.results)} ELSE Failed(f)
    BY Recording
  <1>2. ~g.aborted /\ \A i \in Failed(g) : ~Stops(g, i)
    BY <1>1 DEF Under, Unbroken, Stops
  <1>3. f.wf \in Workflow
    BY DEF Invocation
  <1>4. Len(Steps[f.wf]) \in Nat
    BY <1>3, WorkflowRunsAssumption, LenProperties DEF WorkflowRunsAssumption
  <1>5. Len(g.results) <= Len(Steps[g.wf])
    BY <1>1, <1>4 DEF Under
  <1> QED
    BY <1>1, <1>2, <1>5 DEF TopFits, Unbroken, Finishing

(* A step that fails, by its on_failure. *)
LEMMA FailsOrStops ==
  ASSUME NEW f \in Invocation, Under(f), NEW g, NEW stop, NEW c,
         stop = Stops(f, Len(f.results) + 1),
         g = [Record(f, "failed", "none") EXCEPT !.aborted = stop]
  PROVE  g.wf = f.wf /\ TopFits(g, IF stop THEN "end" ELSE "loop", c)
  <1> DEFINE h == Record(f, "failed", "none")
  <1>1. h \in Invocation
    BY RecordTyped
  <1>2. /\ h.wf = f.wf /\ h.aborted = f.aborted
        /\ Len(f.results) \in Nat /\ Len(h.results) = Len(f.results) + 1
        /\ Failed(h) = Failed(f) \cup {Len(h.results)}
    BY Recording
  <1> HIDE DEF h
  <1>3. g = [h EXCEPT !.aborted = stop]
    BY DEF h
  <1>4. g.wf = h.wf /\ g.results = h.results /\ g.aborted = stop
    BY <1>1, <1>3 DEF Invocation
  <1>5. Failed(g) = Failed(f) \cup {Len(g.results)} /\ Len(g.results) = Len(f.results) + 1
    BY <1>2, <1>4 DEF Failed
  <1>6. Len(Steps[f.wf]) \in Nat
    <2>1. f.wf \in Workflow
      BY DEF Invocation
    <2> QED
      BY <2>1, WorkflowRunsAssumption, LenProperties DEF WorkflowRunsAssumption
  <1>7. Len(g.results) <= Len(Steps[g.wf])
    BY <1>2, <1>4, <1>5, <1>6 DEF Under
  <1>8. CASE stop
    BY <1>2, <1>4, <1>5, <1>7, <1>8 DEF TopFits, StoppedByLast, Stops, Finishing
  <1>9. CASE ~stop
    <2>1. \A i \in Failed(g) : ~Stops(g, i)
      BY <1>2, <1>4, <1>5, <1>9 DEF Under, Unbroken, Stops
    <2>2. ~g.aborted
      BY <1>4, <1>9
    <2> QED
      BY <1>2, <1>4, <1>7, <1>9, <2>1, <2>2 DEF TopFits, Unbroken, Finishing
  <1> QED
    BY <1>8, <1>9 DEF Stops

(* A new top of the same workflow leaves the callers as they were. *)
LEMMA TopReplaced ==
  ASSUME NEW s \in Seq(Invocation), s # << >>, NEW p, NEW c, Fits(s, p, c),
         NEW g \in Invocation, g.wf = s[Len(s)].wf, NEW q, NEW d, TopFits(g, q, d)
  PROVE  Fits([s EXCEPT ![Len(s)] = g], q, d)
  <1> DEFINE t == [s EXCEPT ![Len(s)] = g]
  <1>1. Len(s) \in 1..Len(s) /\ Len(s) \in Nat
    BY EmptySeq, LenProperties
  <1>2. Len(t) = Len(s) /\ \A j \in 1..Len(s) : t[j] = IF j = Len(s) THEN g ELSE s[j]
    BY <1>1, ExceptSeq
  <1> HIDE DEF t
  <1>3. t[Len(t)] = g /\ \A j \in 1..(Len(s) - 1) : t[j] = s[j]
    BY <1>1, <1>2
  <1>4. \A j \in 1..Len(s) : t[j].wf = s[j].wf
    BY <1>1, <1>2
  <1>5. Distinct(t)
    BY <1>2, <1>4 DEF Fits, Distinct
  <1> QED
    BY <1>2, <1>3, <1>5 DEF Fits, t

(* A sub-workflow that is not yet in the chain goes on top of its caller. *)
LEMMA Pushed ==
  ASSUME NEW s \in Seq(Invocation), s # << >>, NEW c, NEW d, Fits(s, "loop", c),
         Under(s[Len(s)]), NEW w \in Workflow, \A i \in 1..Len(s) : s[i].wf # w
  PROVE  Fits(Append(s, Invoke(w)), "loop", d)
  <1> DEFINE f == Invoke(w)
             t == Append(s, f)
  <1>1. Len(s) \in 1..Len(s) /\ Len(s) \in Nat
    BY EmptySeq, LenProperties
  <1>2. f \in Invocation /\ f.wf = w /\ f.results = << >> /\ ~f.aborted
    BY InvokeTyped DEF Invoke
  <1> HIDE DEF f
  <1>3. /\ Len(t) = Len(s) + 1 /\ t[Len(s) + 1] = f
        /\ \A i \in 1..Len(s) : t[i] = s[i]
    BY <1>2, AppendProperties
  <1> HIDE DEF t
  <1>4. TopFits(f, "loop", d)
    <2>1. Len(Steps[w]) \in Nat
      BY WorkflowRunsAssumption, LenProperties DEF WorkflowRunsAssumption
    <2>2. Len(f.results) = 0
      BY <1>2, EmptySeq
    <2>3. Failed(f) = {}
      BY <2>2 DEF Failed
    <2> QED
      BY <1>2, <2>1, <2>2, <2>3 DEF TopFits, Unbroken, Finishing
  <1>5. \A i \in 1..Len(s) : Under(t[i])
    <2>1. \A i \in 1..(Len(s) - 1) : Under(s[i])
      BY DEF Fits
    <2>2. \A i \in 1..Len(s) : i = Len(s) \/ i \in 1..(Len(s) - 1)
      BY <1>1
    <2> QED
      BY <1>3, <2>1, <2>2
  <1>6. Distinct(t)
    <2> SUFFICES ASSUME NEW i \in 1..Len(t), NEW j \in 1..Len(t), t[i].wf = t[j].wf PROVE i = j
      BY DEF Distinct
    <2>1. CASE i \in 1..Len(s) /\ j \in 1..Len(s)
      BY <1>3, <2>1 DEF Fits, Distinct
    <2>2. CASE i = Len(s) + 1 \/ j = Len(s) + 1
      BY <1>1, <1>2, <1>3, <2>2
    <2> QED
      BY <1>1, <1>3, <2>1, <2>2
  <1>7. 1..(Len(t) - 1) = 1..Len(s) /\ t[Len(t)] = f
    BY <1>1, <1>3
  <1> QED
    BY <1>4, <1>5, <1>6, <1>7 DEF Fits, t, f

(* A stack cut to its first n - 1 invocations, and one put on top. *)
LEMMA CutAndPut ==
  ASSUME NEW s \in Seq(Invocation), NEW n \in Nat \ {0}, Len(s) = n + 1, NEW f \in Invocation,
         NEW t, t = Append(SubSeq(s, 1, n - 1), f)
  PROVE  Len(t) = n /\ t[n] = f /\ \A i \in 1..(n - 1) : t[i] = s[i]
  <1> DEFINE b == SubSeq(s, 1, n - 1)
  <1>1. \A i \in 1..(n - 1) : s[i] \in Invocation
    BY LenProperties
  <1>2. b \in Seq(Invocation) /\ Len(b) = n - 1 /\ \A i \in 1..(n - 1) : b[i] = s[i]
    <2> DEFINE m == n - 1
    <2>1. m \in Int /\ 1 \in Int /\ \A i \in 1..m : s[i] \in Invocation
      BY <1>1
    <2>2. m \in Nat
      OBVIOUS
    <2> HIDE DEF m
    <2>3. /\ SubSeq(s, 1, m) \in Seq(Invocation)
          /\ Len(SubSeq(s, 1, m)) = IF 1 <= m THEN m - 1 + 1 ELSE 0
          /\ \A i \in 1..(m - 1 + 1) : SubSeq(s, 1, m)[i] = s[1 + i - 1]
      BY <2>1, SubSeqProperties
    <2>4. Len(SubSeq(s, 1, m)) = m
      BY <2>2, <2>3
    <2>5. \A i \in 1..m : SubSeq(s, 1, m)[i] = s[i]
      BY <2>2, <2>3
    <2> QED
      BY <2>3, <2>4, <2>5 DEF m
  <1> HIDE DEF b
  <1>3. t = Append(b, f)
    BY DEF b
  <1>4. Len(t) = Len(b) + 1 /\ t[Len(b) + 1] = f /\ \A i \in 1..Len(b) : t[i] = b[i]
    BY <1>2, <1>3, AppendProperties
  <1> QED
    BY <1>2, <1>4

(* When a sub-workflow returns, its caller goes on with the next step. *)
LEMMA Popped ==
  ASSUME NEW s \in Seq(Invocation), NEW n \in Nat \ {0}, Len(s) = n + 1,
         NEW p, NEW c, NEW d, Fits(s, p, c), NEW ch \in RunStatus \cup {"none"}
  PROVE  Fits(Append(SubSeq(s, 1, n - 1), Record(s[n], "success", ch)), "loop", d)
  <1> DEFINE b == SubSeq(s, 1, n - 1)
             f == Record(s[n], "success", ch)
             t == Append(b, f)
  <1>1. s[n] \in Invocation /\ Under(s[n]) /\ n \in 1..(Len(s) - 1) /\ n - 1 \in Nat
    BY LenProperties DEF Fits
  <1>2. f \in Invocation /\ f.wf = s[n].wf /\ TopFits(f, "loop", d)
    BY <1>1, GoesOn, RecordTyped
  <1> HIDE DEF f
  <1>5. Len(t) = n /\ t[n] = f /\ \A i \in 1..(n - 1) : t[i] = s[i]
    BY <1>2, CutAndPut
  <1> HIDE DEF t
  <1>6. \A i \in 1..n : t[i].wf = s[i].wf
    <2>1. \A i \in 1..n : i = n \/ i \in 1..(n - 1)
      OBVIOUS
    <2> QED
      BY <1>2, <1>5, <2>1
  <1>7. Distinct(t)
    <2>1. \A i \in 1..n : i \in 1..Len(s)
      OBVIOUS
    <2> QED
      BY <1>5, <1>6, <2>1 DEF Fits, Distinct
  <1>8. \A i \in 1..(n - 1) : Under(t[i])
    <2>1. \A i \in 1..(n - 1) : i \in 1..(Len(s) - 1)
      OBVIOUS
    <2> QED
      BY <1>5, <2>1 DEF Fits
  <1> QED
    BY <1>2, <1>5, <1>7, <1>8 DEF Fits, t, b, f

(* An empty stack, where nothing is executing. *)
LEMMA EmptyFits ==
  ASSUME NEW p, p \notin InRunner, NEW c
  PROVE  Fits(<< >>, p, c)
  <1>1. Len(<< >>) = 0
    OBVIOUS
  <1> QED
    BY <1>1 DEF Fits, Distinct

(* The outermost invocation. *)
LEMMA OutermostFits ==
  ASSUME NEW w \in Workflow, NEW c
  PROVE  Fits(<<Invoke(w)>>, "loop", c)
  <1> DEFINE f == Invoke(w)
  <1>1. f.wf = w /\ f.results = << >> /\ ~f.aborted
    BY DEF Invoke
  <1> HIDE DEF f
  <1>2. TopFits(f, "loop", c)
    <2>1. Len(Steps[w]) \in Nat
      BY WorkflowRunsAssumption, LenProperties DEF WorkflowRunsAssumption
    <2>2. Len(f.results) = 0
      BY <1>1, EmptySeq
    <2>3. Failed(f) = {}
      BY <2>2 DEF Failed
    <2> QED
      BY <1>1, <2>1, <2>2, <2>3 DEF TopFits, Unbroken, Finishing
  <1>3. Len(<<f>>) = 1 /\ <<f>>[1] = f
    OBVIOUS
  <1> DEFINE t == <<f>>
  <1> HIDE DEF t
  <1>4. Len(t) = 1 /\ t[1] = f
    BY <1>3 DEF t
  <1>5. Fits(t, "loop", c)
    BY <1>2, <1>4 DEF Fits, Distinct
  <1> QED
    BY <1>5 DEF t, f

(* An outcome says what happened, whichever way the loop ended. *)
LEMMA OutcomeTells ==
  ASSUME IInv, StepsInv, NEW r \in Run, pc[r] = "end" \/ LoopEnded(r)
  PROVE  Tells([Top(r) EXCEPT !.status = Outcome(r)], ctx[r])
  <1> DEFINE f == Top(r)
             o == Outcome(r)
             g == [f EXCEPT !.status = o]
  <1>1. f \in Invocation
    BY TopTyped DEF IInv, TypeOK, Placed, LoopEnded, InRunner
  <1>2. g.wf = f.wf /\ g.results = f.results /\ g.status = o
    BY <1>1 DEF Invocation
  <1>3. Failed(g) = Failed(f) /\ (Attempted(g) <=> Attempted(f)) /\ (StoppedByLast(g) <=> StoppedByLast(f))
        /\ \A i : Stops(g, i) <=> Stops(f, i)
    BY <1>2 DEF Failed, Attempted, StoppedByLast, Stops
  <1>4. TopFits(f, pc[r], ctx[r]) /\ ctx[r] \in {"live", "user", "timeout"}
    BY DEF StepsInv, Fits, Caused, Top, LoopEnded, InRunner
  <1>5. Len(f.results) \in Nat /\ Len(Steps[f.wf]) \in Nat /\ Len(f.results) <= Len(Steps[f.wf])
    <2>1. f.wf \in Workflow /\ f.results \in Seq(StepResult)
      BY <1>1 DEF Invocation
    <2> QED
      BY <1>4, <2>1, WorkflowRunsAssumption, LenProperties DEF WorkflowRunsAssumption, TopFits
  <1>6. /\ StepsLeft(r) <=> ~Attempted(f)
        /\ AnyStepFailed(f) <=> Failed(f) # {}
    BY <1>5 DEF StepsLeft, Attempted, AnyStepFailed, Failed
  <1>7. /\ ctx[r] = "user" => o = "cancelled"
        /\ ctx[r] # "user" /\ Aborted(r) => o = "failed"
        /\ ctx[r] # "user" /\ ~Aborted(r) => o = IF AnyStepFailed(f) THEN "partial" ELSE "complete"
    BY DEF Outcome
  <1>8. Aborted(r) <=> f.aborted \/ ~Attempted(f)
    BY <1>6 DEF Aborted
  <1> HIDE DEF f, o, g
  <1>9. CASE pc[r] = "end"
    <2>1. f.aborted /\ StoppedByLast(f)
      BY <1>4, <1>9 DEF TopFits
    <2> QED
      BY <1>2, <1>3, <1>7, <1>8, <2>1 DEF Tells, f, o, g
  <1>10. CASE LoopEnded(r)
    <2>1. Unbroken(f) /\ (Attempted(f) \/ ctx[r] # "live")
      BY <1>4, <1>6, <1>10 DEF TopFits, LoopEnded
    <2>2. CASE ctx[r] = "user"
      BY <1>2, <1>3, <1>7, <2>2 DEF Tells, f, o, g
    <2>3. CASE ctx[r] # "user" /\ ~Attempted(f)
      BY <1>2, <1>3, <1>4, <1>7, <1>8, <2>1, <2>3 DEF Tells, f, o, g
    <2>4. CASE ctx[r] # "user" /\ Attempted(f)
      <3>1. ~Aborted(r) /\ \A i \in Failed(f) : ~Stops(f, i)
        BY <1>8, <2>1, <2>4 DEF Unbroken
      <3> QED
        BY <1>2, <1>3, <1>6, <1>7, <2>4, <3>1 DEF Tells, f, o, g
    <2> QED
      BY <2>2, <2>3, <2>4
  <1> QED
    BY <1>9, <1>10

(* Steps that store no record: each stack has to fit where it is now. *)
LEMMA StepsKept ==
  ASSUME StepsInv, runStore' = runStore,
         \A q \in Run : /\ Fits(stack'[q], pc'[q], ctx'[q])
                        /\ Caused(pc'[q], ctx'[q])
                        /\ CauseStays(ctx[q], ctx'[q])
  PROVE  StepsInv'
  <1>1. \A rec \in runStore : rec.id[1] \in Run /\ Tells(rec, ctx'[rec.id[1]])
    BY TellsStays DEF StepsInv
  <1> QED
    BY <1>1 DEF StepsInv

(* Steps of one goroutine. *)
LEMMA OneGoroutine ==
  ASSUME StepsInv, runStore' = runStore, NEW r \in Run,
         \A q \in Run \ {r} : pc'[q] = pc[q] /\ stack'[q] = stack[q] /\ ctx'[q] = ctx[q],
         Fits(stack'[r], pc'[r], ctx'[r]), Caused(pc'[r], ctx'[r]), CauseStays(ctx[r], ctx'[r])
  PROVE  StepsInv'
  <1>1. \A q \in Run \ {r} : /\ Fits(stack'[q], pc'[q], ctx'[q])
                             /\ Caused(pc'[q], ctx'[q])
                             /\ CauseStays(ctx[q], ctx'[q])
    BY DEF StepsInv, CauseStays
  <1> QED
    BY <1>1, StepsKept

(* Steps of the runner that settle something about its top invocation. *)
LEMMA TopSettled ==
  ASSUME IInv, StepsInv, NEW r \in Run, pc[r] \in InRunner, NEW p \in InRunner,
         NEW g \in Invocation, g.wf = Top(r).wf, TopFits(g, p, ctx[r]),
         stack' = SetTop(r, g), pc' = [pc EXCEPT ![r] = p],
         ctx' = ctx, runStore' = runStore
  PROVE  StepsInv'
  <1> DEFINE s == stack[r]
  <1>1. pc \in [Run -> PC] /\ stack \in [Run -> Seq(Invocation)] /\ s # << >> /\ s \in Seq(Invocation)
    BY DEF IInv, TypeOK, Placed
  <1>2. /\ pc'[r] = p /\ stack'[r] = [s EXCEPT ![Len(s)] = g]
        /\ \A q \in Run \ {r} : pc'[q] = pc[q] /\ stack'[q] = stack[q]
    BY <1>1 DEF SetTop
  <1>3. Fits(s, pc[r], ctx[r]) /\ ctx[r] \in {"live", "user", "timeout"}
    BY DEF StepsInv, Caused
  <1>4. Fits(stack'[r], p, ctx[r])
    BY <1>1, <1>2, <1>3, TopReplaced DEF Top
  <1>5. Caused(p, ctx[r])
    BY <1>3 DEF Caused, InRunner
  <1> QED
    BY <1>2, <1>4, <1>5, OneGoroutine DEF CauseStays

(* A goroutine that executes has a typed invocation that fits on top. *)
LEMMA Executing ==
  ASSUME IInv, StepsInv, NEW r \in Run, pc[r] \in InRunner
  PROVE  /\ Top(r) \in Invocation /\ TopFits(Top(r), pc[r], ctx[r])
         /\ pc[r] = "loop" /\ StepsLeft(r) => Under(Top(r))
         /\ Len(Top(r).results) + 1 \in 1..(Len(Steps[Top(r).wf]) + 1)
         /\ stack[r] # << >> /\ stack[r] \in Seq(Invocation)
         /\ Fits(stack[r], pc[r], ctx[r]) /\ ctx[r] \in {"live", "user", "timeout"}
  <1>1. Top(r) \in Invocation /\ stack[r] # << >> /\ stack[r] \in Seq(Invocation)
    BY TopTyped DEF IInv, TypeOK, Placed
  <1>2. Fits(stack[r], pc[r], ctx[r]) /\ ctx[r] \in {"live", "user", "timeout"}
    BY DEF StepsInv, Caused
  <1>3. TopFits(Top(r), pc[r], ctx[r])
    BY <1>2 DEF Fits, Top
  <1>4. Top(r).wf \in Workflow /\ Top(r).results \in Seq(StepResult)
    BY <1>1 DEF Invocation
  <1>5. Len(Top(r).results) \in Nat /\ Len(Steps[Top(r).wf]) \in Nat
    BY <1>4, WorkflowRunsAssumption, LenProperties DEF WorkflowRunsAssumption
  <1>6. Len(Top(r).results) + 1 \in 1..(Len(Steps[Top(r).wf]) + 1)
    BY <1>3, <1>5 DEF TopFits
  <1> QED
    BY <1>1, <1>2, <1>3, <1>6 DEF TopFits, Under, StepsLeft

(* A step that succeeds or is skipped. *)
LEMMA StepGoesOn ==
  ASSUME IInv, StepsInv, NEW r \in Run, pc[r] \in InRunner, Under(Top(r)),
         NEW st \in {"success", "skipped"},
         stack' = SetTop(r, Record(Top(r), st, "none")), pc' = [pc EXCEPT ![r] = "loop"],
         ctx' = ctx, runStore' = runStore
  PROVE  StepsInv'
  <1> DEFINE g == Record(Top(r), st, "none")
  <1>1. Top(r) \in Invocation
    BY Executing
  <1>2. g \in Invocation /\ g.wf = Top(r).wf /\ TopFits(g, "loop", ctx[r])
    BY <1>1, GoesOn, RecordTyped
  <1>3. "loop" \in InRunner
    BY DEF InRunner
  <1> HIDE DEF g
  <1> QED
    BY <1>2, <1>3, TopSettled DEF g

(* A step that fails. *)
LEMMA StepFailsKeeps ==
  ASSUME IInv, StepsInv, NEW r \in Run, pc[r] \in InRunner, Under(Top(r)),
         StepFails(r), ctx' = ctx, runStore' = runStore
  PROVE  StepsInv'
  <1> DEFINE f == Top(r)
             stop == Current(r).onFailure = "stop"
             g == [Record(f, "failed", "none") EXCEPT !.aborted = stop]
             p == IF stop THEN "end" ELSE "loop"
  <1>1. f \in Invocation
    BY Executing
  <1>2. stop = Stops(f, Len(f.results) + 1)
    BY DEF Stops, Current
  <1>3. g.wf = f.wf /\ TopFits(g, p, ctx[r])
    BY <1>1, <1>2, FailsOrStops
  <1>4. g \in Invocation
    <2> DEFINE h == Record(f, "failed", "none")
    <2>1. h \in Invocation
      BY <1>1, RecordTyped
    <2> HIDE DEF h
    <2>2. \A b \in BOOLEAN : [h EXCEPT !.aborted = b] \in Invocation
      BY <2>1, FieldsTyped
    <2> QED
      BY <2>2 DEF h
  <1>5. p \in InRunner
    BY DEF InRunner
  <1>6. stack' = SetTop(r, g) /\ pc' = [pc EXCEPT ![r] = p]
    BY DEF StepFails
  <1> HIDE DEF f, g, p
  <1>7. g.wf = Top(r).wf
    BY <1>3 DEF f
  <1> QED
    BY <1>3, <1>4, <1>5, <1>6, <1>7, TopSettled

(* The steps of a workflow, sub-workflow calls included. *)
LEMMA ExecutingTells ==
  ASSUME IInv, StepsInv, NEW r \in Run,
         \/ SkipsStep(r) \/ RefusesStep(r) \/ GateRefuses(r) \/ BeginsStep(r) \/ CallsAgent(r)
         \/ TryAbandoned(r) \/ AgentAnswers(r) \/ AgentFails(r) \/ CallsSubWorkflow(r)
         \/ SubWorkflowCycle(r)
  PROVE  StepsInv'
  <1>1. pc[r] \in {"loop", "try", "attempt"} /\ (pc[r] = "loop" => StepsLeft(r))
    BY DEF SkipsStep, RefusesStep, GateRefuses, BeginsStep, CallsAgent, TryAbandoned, AgentAnswers, AgentFails,
           CallsSubWorkflow, SubWorkflowCycle, AtStep
  <1>2. pc[r] \in InRunner
    BY <1>1 DEF InRunner
  <1>3. /\ Top(r) \in Invocation /\ TopFits(Top(r), pc[r], ctx[r]) /\ stack[r] # << >>
        /\ stack[r] \in Seq(Invocation) /\ Fits(stack[r], pc[r], ctx[r])
        /\ ctx[r] \in {"live", "user", "timeout"}
    BY <1>2, Executing
  <1>4. Under(Top(r))
    BY <1>1, <1>2, <1>3, Executing DEF TopFits
  <1>5. ctx' = ctx /\ runStore' = runStore
    BY DEF SkipsStep, RefusesStep, GateRefuses, BeginsStep, CallsAgent, TryAbandoned, AgentAnswers, AgentFails,
           CallsSubWorkflow, SubWorkflowCycle, Announces, durable
  <1>6. pc \in [Run -> PC] /\ stack \in [Run -> Seq(Invocation)]
    BY DEF IInv, TypeOK
  <1>7. CASE \/ RefusesStep(r) \/ GateRefuses(r) \/ TryAbandoned(r) \/ SubWorkflowCycle(r)
             \/ AgentFails(r) /\ ~TriesLeft(r)
    <2>1. StepFails(r)
      BY <1>7 DEF RefusesStep, GateRefuses, TryAbandoned, SubWorkflowCycle, AgentFails
    <2> QED
      BY <1>2, <1>4, <1>5, <2>1, StepFailsKeeps
  <1>8. CASE AgentAnswers(r)
    BY <1>2, <1>4, <1>5, <1>8, StepGoesOn DEF AgentAnswers, StepSucceeds
  <1>9. CASE SkipsStep(r)
    <2>1. pc' = [pc EXCEPT ![r] = "loop"]
      BY <1>6, <1>9 DEF SkipsStep, AtStep
    <2> QED
      BY <1>2, <1>4, <1>5, <1>9, <2>1, StepGoesOn DEF SkipsStep
  <1>10. CASE BeginsStep(r) \/ (AgentFails(r) /\ TriesLeft(r))
    <2>1. pc' = [pc EXCEPT ![r] = "try"] /\ stack' = stack
      BY <1>10 DEF BeginsStep, AgentFails
    <2>2. TopFits(Top(r), "try", ctx[r])
      BY <1>3, <1>4 DEF TopFits, Under, Finishing
    <2>3. Fits(stack[r], "try", ctx[r])
      BY <1>3, <2>2 DEF Fits, Top
    <2>4. Caused("try", ctx[r])
      BY <1>3 DEF Caused
    <2>5. /\ pc'[r] = "try" /\ stack'[r] = stack[r] /\ ctx'[r] = ctx[r]
          /\ \A q \in Run \ {r} : pc'[q] = pc[q] /\ stack'[q] = stack[q] /\ ctx'[q] = ctx[q]
      BY <1>5, <1>6, <2>1
    <2> QED
      BY <1>5, <2>3, <2>4, <2>5, OneGoroutine DEF CauseStays
  <1>11. CASE CallsAgent(r)
    <2> DEFINE n == Top(r).tries + 1
               g == [Top(r) EXCEPT !.tries = n]
    <2>1. n \in Nat
      BY <1>3 DEF Invocation
    <2>2. stack' = SetTop(r, g) /\ pc' = [pc EXCEPT ![r] = "attempt"] /\ "attempt" \in InRunner
      BY <1>11 DEF CallsAgent, InRunner
    <2> HIDE DEF n
    <2>3. g \in Invocation
      BY <1>3, <2>1, FieldsTyped
    <2>4. g.wf = Top(r).wf /\ g.results = Top(r).results /\ g.aborted = Top(r).aborted
      BY <1>3 DEF Invocation
    <2> HIDE DEF g
    <2>5. TopFits(g, "attempt", ctx[r])
      BY <1>3, <1>4, <2>4 DEF TopFits, Under, Unbroken, Failed, Stops, Finishing
    <2> QED
      BY <1>2, <1>5, <2>2, <2>3, <2>4, <2>5, TopSettled
  <1>12. CASE CallsSubWorkflow(r)
    <2> DEFINE w == Current(r).body
               s == stack[r]
    <2>1. w \in Workflow /\ \A i \in 1..Len(s) : s[i].wf # w
      BY <1>12 DEF CallsSubWorkflow, Ancestors
    <2>2. /\ pc[r] = "loop" /\ pc' = pc
          /\ stack' = [stack EXCEPT ![r] = Append(s, Invoke(w))]
      BY <1>12 DEF CallsSubWorkflow, AtStep
    <2> HIDE DEF w
    <2>3. Fits(s, "loop", ctx[r]) /\ Under(s[Len(s)])
      BY <1>3, <1>4, <2>2 DEF Top
    <2>4. Fits(Append(s, Invoke(w)), "loop", ctx[r])
      BY <1>3, <2>1, <2>3, Pushed
    <2>5. /\ pc'[r] = "loop" /\ stack'[r] = Append(s, Invoke(w)) /\ ctx'[r] = ctx[r]
          /\ \A q \in Run \ {r} : pc'[q] = pc[q] /\ stack'[q] = stack[q] /\ ctx'[q] = ctx[q]
      BY <1>5, <1>6, <2>2
    <2>6. Caused("loop", ctx[r])
      BY <1>3 DEF Caused
    <2> QED
      BY <1>5, <2>4, <2>5, <2>6, OneGoroutine DEF CauseStays
  <1> QED
    BY <1>7, <1>8, <1>9, <1>10, <1>11, <1>12

(* The end of an invocation, up to the chain. *)
LEMMA EndingTells ==
  ASSUME IInv, StepsInv, NEW r \in Run, SettlesStatus(r) \/ PersistsRun(r) \/ StoresNotification(r)
  PROVE  StepsInv'
  <1>1. pc[r] \in InRunner
    BY DEF SettlesStatus, PersistsRun, StoresNotification, LoopEnded, InRunner
  <1>2. /\ Top(r) \in Invocation /\ TopFits(Top(r), pc[r], ctx[r])
        /\ Fits(stack[r], pc[r], ctx[r]) /\ ctx[r] \in {"live", "user", "timeout"}
    BY <1>1, Executing
  <1>3. pc \in [Run -> PC] /\ ctx' = ctx
    BY DEF IInv, TypeOK, SettlesStatus, PersistsRun, StoresNotification
  <1>4. CASE SettlesStatus(r)
    <2> DEFINE o == Outcome(r)
               g == [Top(r) EXCEPT !.status = o]
    <2>1. Tells(g, ctx[r])
      BY <1>4, OutcomeTells DEF SettlesStatus
    <2>2. g \in Invocation
      <3>1. o \in RunStatus \cup {"running"}
        BY DEF Outcome, RunStatus
      <3> HIDE DEF o
      <3> QED
        BY <1>2, <3>1, FieldsTyped
    <2>3. g.wf = Top(r).wf /\ g.results = Top(r).results
      BY <1>2 DEF Invocation
    <2>4. stack' = SetTop(r, g) /\ pc' = [pc EXCEPT ![r] = "persist"] /\ runStore' = runStore
      BY <1>4 DEF SettlesStatus, durable
    <2>5. "persist" \in InRunner
      BY DEF InRunner
    <2> HIDE DEF g
    <2>6. TopFits(g, "persist", ctx[r])
      BY <1>2, <2>1, <2>3 DEF TopFits
    <2> QED
      BY <1>1, <1>3, <2>2, <2>3, <2>4, <2>5, <2>6, TopSettled
  <1>5. CASE PersistsRun(r) \/ StoresNotification(r)
    <2>1. PICK p \in {"inbox", "chain"} : pc' = [pc EXCEPT ![r] = p]
      BY <1>5 DEF PersistsRun, StoresNotification
    <2>2. Tells(Top(r), ctx[r])
      BY <1>2, <1>5 DEF PersistsRun, StoresNotification, TopFits, Finishing
    <2>3. TopFits(Top(r), p, ctx[r])
      BY <1>2, <2>2 DEF TopFits, Finishing
    <2>4. Fits(stack[r], p, ctx[r]) /\ Caused(p, ctx[r])
      BY <1>2, <2>3 DEF Fits, Top, Caused
    <2>5. stack' = stack /\ pc'[r] = p /\ \A q \in Run \ {r} : pc'[q] = pc[q]
      BY <1>3, <1>5, <2>1 DEF PersistsRun, StoresNotification
    <2>6. \A q \in Run : Fits(stack'[q], pc'[q], ctx'[q]) /\ Caused(pc'[q], ctx'[q])
      BY <1>3, <2>4, <2>5 DEF StepsInv
    <2>7. \A rec \in runStore' : rec.id[1] \in Run /\ Tells(rec, ctx'[rec.id[1]])
      <3>1. CASE StoresNotification(r)
        BY <1>3, <3>1 DEF StoresNotification, StepsInv
      <3>2. CASE PersistsRun(r)
        <4> DEFINE new == [id |-> RunID(r), wf |-> Top(r).wf, status |-> Top(r).status,
                           results |-> Top(r).results]
        <4>1. runStore' = runStore \cup {new}
          BY <3>2 DEF PersistsRun
        <4>2. /\ new.id[1] = r /\ new.wf = Top(r).wf /\ new.status = Top(r).status
              /\ new.results = Top(r).results
          BY <1>1, RunIDTyped
        <4> HIDE DEF new
        <4>3. Tells(new, ctx[r])
          BY <2>2, <4>2 DEF Tells, Attempted, Failed, Stops, StoppedByLast
        <4> QED
          BY <1>3, <4>1, <4>2, <4>3 DEF StepsInv
      <3> QED
        BY <1>5, <3>1, <3>2
    <2> QED
      BY <2>6, <2>7 DEF StepsInv
  <1> QED
    BY <1>4, <1>5

(* A return leaves an empty stack, or the caller at its next step. *)
LEMMA ReturnsFits ==
  ASSUME IInv, StepsInv, NEW r \in Run, pc[r] = "chain", Returns(r)
  PROVE  /\ Fits(stack'[r], ReturnsTo(r), ctx'[r])
         /\ Caused(ReturnsTo(r), ctx'[r]) /\ CauseStays(ctx[r], ctx'[r])
         /\ \A q \in Run \ {r} : stack'[q] = stack[q] /\ ctx'[q] = ctx[q]
  <1> DEFINE s == stack[r]
  <1>1. /\ stack \in [Run -> Seq(Invocation)] /\ ctx \in [Run -> Ctx]
        /\ Top(r).status \in RunStatus \cup {"none"} /\ pc[r] \in InRunner
    BY DEF IInv, TypeOK, Placed, InRunner, Finishing, Ctx
  <1>2. /\ s \in Seq(Invocation) /\ Len(s) \in 1..Len(s)
        /\ Fits(s, pc[r], ctx[r]) /\ ctx[r] \in {"live", "user", "timeout"}
    BY <1>1, TopTyped, Executing
  <1>3. CASE Len(s) = 1
    <2>1. stack' = [stack EXCEPT ![r] = << >>] /\ ctx' = Released(r) /\ ReturnsTo(r) = "unwinding"
      BY <1>3 DEF Returns, ReturnsTo
    <2>2. /\ stack'[r] = << >> /\ CauseStays(ctx[r], ctx'[r])
          /\ \A q \in Run \ {r} : stack'[q] = stack[q] /\ ctx'[q] = ctx[q]
      BY <1>1, <2>1 DEF Released, CauseStays
    <2>3. "unwinding" \notin InRunner /\ Caused("unwinding", ctx'[r])
      BY DEF InRunner, Caused
    <2>4. Fits(<< >>, "unwinding", ctx'[r])
      BY <2>3, EmptyFits
    <2> QED
      BY <2>1, <2>2, <2>3, <2>4
  <1>4. CASE Len(s) # 1
    <2> DEFINE n == Len(s) - 1
               c == Top(r).status
               t == Append(SubSeq(s, 1, n - 1), Record(s[n], "success", c))
    <2>1. n \in Nat \ {0} /\ Len(s) = n + 1
      BY <1>2, <1>4
    <2>2. stack' = [stack EXCEPT ![r] = t] /\ ctx' = ctx /\ ReturnsTo(r) = "loop"
      BY <1>4 DEF Returns, ReturnsTo
    <2>3. c \in RunStatus \cup {"none"}
      BY <1>1
    <2> HIDE DEF n, c, s
    <2>4. Fits(t, "loop", ctx[r])
      BY <1>2, <2>1, <2>3, Popped
    <2>5. Caused("loop", ctx[r])
      BY <1>2 DEF Caused
    <2> HIDE DEF t
    <2>6. stack'[r] = t /\ ctx'[r] = ctx[r] /\ \A q \in Run \ {r} : stack'[q] = stack[q] /\ ctx'[q] = ctx[q]
      BY <1>1, <2>2
    <2> QED
      BY <2>2, <2>4, <2>5, <2>6 DEF CauseStays
  <1> QED
    BY <1>3, <1>4

(* A goroutine that is started, or moves outside the runner, keeps its     *)
(* stack and its context.                                                  *)
LEMMA OutsideRunner ==
  ASSUME IInv, StepsInv, NEW r \in Run, NEW p, pc' = [pc EXCEPT ![r] = p], p \notin InRunner,
         p \in {"none", "claimed", "admitted"} => pc[r] \in {"none", "claimed", "admitted"},
         UNCHANGED <<stack, ctx, runStore>>
  PROVE  StepsInv'
  <1>1. pc \in [Run -> PC]
    BY DEF IInv, TypeOK
  <1>2. /\ pc'[r] = p
        /\ \A q \in Run \ {r} : pc'[q] = pc[q] /\ stack'[q] = stack[q] /\ ctx'[q] = ctx[q]
    BY <1>1
  <1>3. Fits(stack[r], p, ctx[r]) /\ Caused(p, ctx[r])
    BY DEF StepsInv, Fits, Caused
  <1> QED
    BY <1>2, <1>3, OneGoroutine DEF CauseStays

(* Admission, and what a goroutine defers. *)
LEMMA AdmissionTells ==
  ASSUME IInv, StepsInv, NEW r \in Run,
         \/ \E w \in Workflow : CronFires(w, r) \/ UserTriggers(w, r)
         \/ CronAdmitted(r) \/ CronSkips(r) \/ ReleasesSlot(r) \/ Unmarks(r)
  PROVE  StepsInv'
  <1>1. CASE \E w \in Workflow : CronFires(w, r)
    <2>1. pc' = [pc EXCEPT ![r] = "claimed"] /\ pc[r] = "none" /\ UNCHANGED <<stack, ctx, runStore>>
      BY <1>1 DEF CronFires, Fresh, durable
    <2> QED
      BY <2>1, OutsideRunner DEF InRunner
  <1>2. CASE \E w \in Workflow : UserTriggers(w, r)
    <2>1. pc' = [pc EXCEPT ![r] = "admitted"] /\ pc[r] = "none" /\ UNCHANGED <<stack, ctx, runStore>>
      BY <1>2 DEF UserTriggers, TriggerWorkflow, Fresh, durable
    <2> QED
      BY <2>1, OutsideRunner DEF InRunner
  <1>3. CASE CronAdmitted(r)
    <2>1. pc' = [pc EXCEPT ![r] = "admitted"] /\ pc[r] = "claimed" /\ UNCHANGED <<stack, ctx, runStore>>
      BY <1>3 DEF CronAdmitted, durable
    <2> QED
      BY <2>1, OutsideRunner DEF InRunner
  <1>4. CASE CronSkips(r) \/ ReleasesSlot(r) \/ Unmarks(r)
    <2>1. PICK p \in {"skipped", "slotReturned", "unmarked", "over"} : pc' = [pc EXCEPT ![r] = p]
      BY <1>4 DEF CronSkips, ReleasesSlot, Unmarks
    <2>2. UNCHANGED <<stack, ctx, runStore>>
      BY <1>4 DEF CronSkips, ReleasesSlot, Unmarks, durable
    <2> QED
      BY <2>1, <2>2, OutsideRunner DEF InRunner
  <1> QED
    BY <1>1, <1>2, <1>3, <1>4

(* Entering the runner, with a context that nothing has ended. *)
LEMMA EnteringTells ==
  ASSUME IInv, StepsInv, NEW r \in Run, EntersRunner(r)
  PROVE  StepsInv'
  <1>1. /\ pc \in [Run -> PC] /\ stack \in [Run -> Seq(Invocation)] /\ ctx \in [Run -> Ctx]
        /\ pc[r] = "admitted" /\ workflow[r] \in Workflow
    BY DEF IInv, TypeOK, Ctx, EntersRunner, Placed, Marks
  <1> DEFINE s == <<Invoke(workflow[r])>>
  <1>2. Fits(s, "loop", "live")
    BY <1>1, OutermostFits
  <1>3. /\ stack' = [stack EXCEPT ![r] = s] /\ pc' = [pc EXCEPT ![r] = "loop"]
        /\ ctx' = [ctx EXCEPT ![r] = "live"] /\ runStore' = runStore
    BY DEF EntersRunner, durable
  <1> HIDE DEF s
  <1>4. /\ stack'[r] = s /\ pc'[r] = "loop" /\ ctx'[r] = "live"
        /\ \A q \in Run \ {r} : pc'[q] = pc[q] /\ stack'[q] = stack[q] /\ ctx'[q] = ctx[q]
    BY <1>1, <1>3
  <1>5. Caused("loop", "live")
    BY DEF Caused
  <1>6. CauseStays(ctx[r], "live")
    BY <1>1 DEF CauseStays, StepsInv, Caused
  <1> QED
    BY <1>2, <1>3, <1>4, <1>5, <1>6, OneGoroutine

(* Leaving an invocation: the end of a chain, or a panic. *)
LEMMA LeavingTells ==
  ASSUME IInv, StepsInv, NEW r \in Run, ChainEnds(r) \/ ChainOutOfBound(r) \/ AgentPanics(r)
  PROVE  StepsInv'
  <1>1. /\ pc \in [Run -> PC] /\ stack \in [Run -> Seq(Invocation)] /\ ctx \in [Run -> Ctx]
        /\ runStore' = runStore
    BY DEF IInv, TypeOK, Ctx, ChainEnds, ChainOutOfBound, AgentPanics, durable
  <1>2. CASE ChainEnds(r) \/ ChainOutOfBound(r)
    <2>1. pc[r] = "chain" /\ Returns(r) /\ pc' = [pc EXCEPT ![r] = ReturnsTo(r)]
      BY <1>2 DEF ChainEnds, ChainOutOfBound
    <2>2. pc'[r] = ReturnsTo(r) /\ \A q \in Run \ {r} : pc'[q] = pc[q]
      BY <1>1, <2>1
    <2> QED
      BY <1>1, <2>1, <2>2, ReturnsFits, OneGoroutine
  <1>3. CASE AgentPanics(r)
    <2>1. /\ pc' = [pc EXCEPT ![r] = "unwinding"] /\ stack' = [stack EXCEPT ![r] = << >>]
          /\ ctx' = Released(r)
      BY <1>3 DEF AgentPanics
    <2>2. /\ pc'[r] = "unwinding" /\ stack'[r] = << >> /\ CauseStays(ctx[r], ctx'[r])
          /\ \A q \in Run \ {r} : pc'[q] = pc[q] /\ stack'[q] = stack[q] /\ ctx'[q] = ctx[q]
      BY <1>1, <2>1 DEF Released, CauseStays
    <2>3. Fits(<< >>, "unwinding", ctx'[r]) /\ Caused("unwinding", ctx'[r])
      BY EmptyFits DEF InRunner, Caused
    <2> QED
      BY <1>1, <2>2, <2>3, OneGoroutine
  <1> QED
    BY <1>2, <1>3

(* A chain: the run returns, and the goroutine it starts is new. *)
LEMMA ChainingTells ==
  ASSUME IInv, StepsInv, NEW r \in Run, NEW q \in Run, Chains(r, q)
  PROVE  StepsInv'
  <1> DEFINE p == ReturnsTo(r)
  <1>1. pc \in [Run -> PC] /\ runStore' = runStore
    BY DEF IInv, TypeOK, Chains, durable
  <1>2. /\ pc[r] = "chain" /\ pc[q] = "none" /\ q # r /\ Returns(r)
        /\ pc' = [pc EXCEPT ![r] = p, ![q] = "admitted"]
    BY DEF Chains, TriggerWorkflow, Fresh
  <1>3. /\ Fits(stack'[r], p, ctx'[r]) /\ Caused(p, ctx'[r]) /\ CauseStays(ctx[r], ctx'[r])
        /\ \A u \in Run \ {r} : stack'[u] = stack[u] /\ ctx'[u] = ctx[u]
    BY <1>2, ReturnsFits
  <1> HIDE DEF p
  <1>4. pc'[r] = p /\ pc'[q] = "admitted" /\ \A u \in Run \ {r, q} : pc'[u] = pc[u]
    BY <1>1, <1>2
  <1>5. Fits(stack[q], "admitted", ctx[q]) /\ Caused("admitted", ctx[q])
    <2>1. Fits(stack[q], pc[q], ctx[q]) /\ Caused(pc[q], ctx[q])
      BY DEF StepsInv
    <2> QED
      BY <1>2, <2>1 DEF Fits, Caused, InRunner
  <1>6. \A u \in Run : /\ Fits(stack'[u], pc'[u], ctx'[u])
                       /\ Caused(pc'[u], ctx'[u])
                       /\ CauseStays(ctx[u], ctx'[u])
    <2> TAKE u \in Run
    <2>1. CASE u = r
      BY <1>3, <1>4, <2>1
    <2>2. CASE u = q
      BY <1>2, <1>3, <1>4, <1>5, <2>2 DEF CauseStays
    <2>3. CASE u # r /\ u # q
      BY <1>3, <1>4, <2>3 DEF StepsInv, CauseStays
    <2> QED
      BY <2>1, <2>2, <2>3
  <1> QED
    BY <1>1, <1>6, StepsKept

(* A cancel or the deadline: only a live context gets a cause. *)
LEMMA CauseTells ==
  ASSUME IInv, StepsInv, NEW r \in Run, ctx[r] = "live", NEW c \in {"user", "timeout"},
         ctx' = [ctx EXCEPT ![r] = c], UNCHANGED <<pc, stack, runStore>>
  PROVE  StepsInv'
  <1>1. ctx \in [Run -> Ctx]
    BY DEF IInv, TypeOK, Ctx
  <1>2. ctx'[r] = c /\ \A q \in Run \ {r} : ctx'[q] = ctx[q]
    BY <1>1
  <1>3. CauseStays(ctx[r], c)
    BY DEF CauseStays
  <1>4. Fits(stack[r], pc[r], c)
    BY <1>3, FitsStays DEF StepsInv
  <1>5. Caused(pc[r], c)
    BY DEF StepsInv, Caused
  <1> QED
    BY <1>2, <1>3, <1>4, <1>5, OneGoroutine

(* Nobody executes anything after a restart. *)
LEMMA RestartTells ==
  ASSUME IInv, StepsInv, Restart
  PROVE  StepsInv'
  <1>1. /\ \A q \in Run : pc'[q] \in {"none", "over", "lost"} /\ (pc'[q] = "none" => pc[q] = "none")
        /\ \A q \in Run : stack'[q] = << >>
        /\ ctx' = ctx /\ runStore' = runStore
    BY DEF Restart, durable
  <1>2. \A q \in Run : pc'[q] \notin InRunner
    BY <1>1 DEF InRunner
  <1>3. \A q \in Run : Fits(stack'[q], pc'[q], ctx'[q])
    BY <1>1, <1>2, EmptyFits
  <1>4. \A q \in Run : Caused(pc'[q], ctx'[q]) /\ CauseStays(ctx[q], ctx'[q])
    BY <1>1, <1>2 DEF Caused, CauseStays, StepsInv
  <1> QED
    BY <1>1, <1>3, <1>4, StepsKept

(* Nothing is recorded and nothing executes at first. *)
LEMMA TellsInit == Init => StepsInv
  <1> SUFFICES ASSUME Init PROVE StepsInv
    OBVIOUS
  <1>1. \A q \in Run : stack[q] = << >> /\ pc[q] = "none" /\ ctx[q] = "none"
    BY DEF Init
  <1>2. Fits(<< >>, "none", "none") /\ Caused("none", "none")
    BY EmptyFits DEF InRunner, Caused
  <1> QED
    BY <1>1, <1>2 DEF StepsInv, Init

(* Every step keeps the records and the stacks consistent. *)
LEMMA TellsStep == IInv /\ StepsInv /\ [Next]_vars => StepsInv'
  <1> SUFFICES ASSUME IInv, StepsInv, [Next]_vars PROVE StepsInv'
    OBVIOUS
  <1>1. CASE UNCHANGED vars \/ Rests
    BY <1>1 DEF vars, Rests, StepsInv
  <1>2. CASE Restart
    BY <1>2, RestartTells
  <1>3. CASE \E w \in Workflow, r \in Run : CronFires(w, r) \/ UserTriggers(w, r)
    BY <1>3, AdmissionTells
  <1>4. CASE \E w \in Workflow : CancelWorkflow(w)
    <2> PICK w \in Workflow : CancelWorkflow(w)
      BY <1>4
    <2> DEFINE r == workflowCancels[w]
    <2>1. /\ r # NoRun /\ ctx[r] = "live" /\ ctx' = [ctx EXCEPT ![r] = "user"]
          /\ UNCHANGED <<pc, stack, runStore>>
      BY DEF CancelWorkflow, durable
    <2>2. r \in Run
      BY <2>1 DEF IInv, TypeOK
    <2> HIDE DEF r
    <2> QED
      BY <2>1, <2>2, CauseTells
  <1>5. CASE \E r \in Run : TimesOut(r)
    BY <1>5, CauseTells DEF TimesOut, durable
  <1>6. CASE \E r \in Run : GoStep(r)
    <2> PICK r \in Run : GoStep(r)
      BY <1>6
    <2>1. CASE CronAdmitted(r) \/ CronSkips(r) \/ ReleasesSlot(r) \/ Unmarks(r)
      BY <2>1, AdmissionTells
    <2>2. CASE EntersRunner(r)
      BY <2>2, EnteringTells
    <2>3. CASE \/ SkipsStep(r) \/ RefusesStep(r) \/ GateRefuses(r) \/ BeginsStep(r) \/ CallsAgent(r)
               \/ TryAbandoned(r) \/ AgentAnswers(r) \/ AgentFails(r) \/ CallsSubWorkflow(r)
               \/ SubWorkflowCycle(r)
      BY <2>3, ExecutingTells
    <2>4. CASE SettlesStatus(r) \/ PersistsRun(r) \/ StoresNotification(r)
      BY <2>4, EndingTells
    <2>5. CASE ChainEnds(r) \/ ChainOutOfBound(r) \/ AgentPanics(r)
      BY <2>5, LeavingTells
    <2>6. CASE \E q \in Run : Chains(r, q)
      BY <2>6, ChainingTells
    <2> QED
      BY <2>1, <2>2, <2>3, <2>4, <2>5, <2>6 DEF GoStep
  <1> QED
    BY <1>1, <1>2, <1>3, <1>4, <1>5, <1>6 DEF Next

(* The stacks of the runner stay consistent with where its goroutines are. *)
THEOREM StepsInvariant == Spec => []StepsInv
  BY TellsInit, TellsStep, RunsInvariant, PTL DEF Spec

(* A stored run says what happened: every step attempted, one failed that  *)
(* may, one that stops it, the deadline between two steps, or a user.      *)
THEOREM StatusIsTruthful == Spec => []StatusTellsTheSteps
  <1>1. IInv /\ StepsInv => StatusTellsTheSteps
    <2> SUFFICES ASSUME IInv, StepsInv, NEW rec \in runStore
                 PROVE  CASE rec.status = "complete"  -> Attempted(rec) /\ Failed(rec) = {}
                          [] rec.status = "partial"   -> /\ Attempted(rec) /\ Failed(rec) # {}
                                                         /\ \A i \in Failed(rec) : ~Stops(rec, i)
                          [] rec.status = "failed"    ->
                               \/ \E i \in Failed(rec) : i = Len(rec.results) /\ Stops(rec, i)
                               \/ ~Attempted(rec) /\ ctx[rec.id[1]] = "timeout"
                          [] rec.status = "cancelled" -> ctx[rec.id[1]] = "user"
      BY DEF StatusTellsTheSteps
    <2>1. rec.status \in RunStatus
      BY DEF IInv, TypeOK, RunRecord
    <2>2. Tells(rec, ctx[rec.id[1]])
      BY DEF StepsInv
    <2> QED
      BY <2>1, <2>2 DEF Tells, StoppedByLast, RunStatus
  <1> QED
    BY <1>1, RunsInvariant, StepsInvariant, PTL

(* No workflow is twice in a chain of calls, whatever the definitions say. *)
THEOREM SubWorkflowsNest == Spec => []NestingIsSimple
  <1>1. StepsInv => NestingIsSimple
    BY DEF StepsInv, Fits, Distinct, NestingIsSimple
  <1> QED
    BY <1>1, StepsInvariant, PTL

-----------------------------------------------------------------------------
(* The records and the inbox. *)

(* Results only grow while an invocation is on the stack. *)
Extends(g, f) ==
  \A i \in 1..Len(f.results) : i \in 1..Len(g.results) /\ g.results[i] = f.results[i]

(* A run at its notification or at its chain has its record. *)
Late == {"inbox", "chain"}
RunsFiled ==
  \A r \in Run : pc[r] \in Late =>
    \E rec \in runStore : /\ rec.id = RunID(r) /\ rec.status = Top(r).status
                          /\ rec.results = Top(r).results

(* The record of an outermost run is the last but few of its goroutine's steps. *)
OwnFiled ==
  \A rec \in runStore : \A r \in Run :
    rec.id = <<r>> => Ended(r) \/ (pc[r] \in Late /\ Len(stack[r]) = 1)

(* Nothing is on a stack outside the runner. *)
OffStage == \A r \in Run : pc[r] \notin InRunner => stack[r] = << >>

FiledInv == NoOrphanNotification /\ RunsFiled /\ OwnFiled /\ OffStage

(* What a step does to the invocations of a goroutine: each stays, at its  *)
(* depth, has its record, or is gone with a run that never gets one.       *)
Keeps(q) ==
  \A d \in 1..Len(stack[q]) :
    \/ d \in 1..Len(stack'[q]) /\ IDAt(q, d)' = IDAt(q, d) /\ Extends(stack'[q][d], stack[q][d])
    \/ \E rec \in runStore' : rec.id = IDAt(q, d) /\ rec.results = stack[q][d].results
    \/ Ended(q)' /\ \A rec \in runStore' : rec.id # <<q>>

(* What a step that stores no record does to a goroutine. *)
Passes(q) ==
  /\ Ended(q) => Ended(q)'
  /\ pc'[q] \in Late => pc[q] \in Late /\ stack'[q] = stack[q]
  /\ pc[q] \in Late /\ Len(stack[q]) = 1 => Ended(q)' \/ (pc'[q] \in Late /\ Len(stack'[q]) = 1)
  /\ pc'[q] \notin InRunner => stack'[q] = << >>
  /\ Keeps(q)

(* An ID depends on the results below its depth. *)
LEMMA IDSame ==
  ASSUME NEW q, NEW d, \A i \in 1..(d - 1) : stack'[q][i] = stack[q][i]
  PROVE  IDAt(q, d)' = IDAt(q, d)
  BY DEF IDAt

(* A goroutine whose stack the step leaves alone. *)
LEMMA Untouched ==
  ASSUME OffStage, NEW q \in Run, stack'[q] = stack[q], pc'[q] \in Late <=> pc[q] \in Late,
         pc'[q] \in InRunner <=> pc[q] \in InRunner, Ended(q) => Ended(q)'
  PROVE  Passes(q)
  <1>1. \A d \in 1..Len(stack[q]) : IDAt(q, d)' = IDAt(q, d)
    BY IDSame
  <1>2. Keeps(q)
    BY <1>1 DEF Keeps, Extends
  <1> QED
    BY <1>2 DEF Passes, OffStage

(* No notification loses what it agrees with, whatever records are added.  *)
LEMMA NoLoss ==
  ASSUME IInv, \A q \in Run : Ended(q) => Ended(q)', \A q \in Run : Keeps(q),
         runStore \subseteq runStore',
         \A rec \in runStore' \ runStore : \A q \in Run : Ended(q) => rec.id # <<q>>,
         NEW n, OnRecord(n) \/ OnItsWay(n) \/ CutShort(n)
  PROVE  OnRecord(n)' \/ OnItsWay(n)' \/ CutShort(n)'
  <1>1. CASE OnRecord(n)
    BY <1>1 DEF OnRecord
  <1>2. CASE OnItsWay(n)
    <2> PICK q \in Run : \E d \in 1..Len(stack[q]) : OfStep(n, IDAt(q, d), stack[q][d].results)
      BY <1>2 DEF OnItsWay
    <2> PICK d \in 1..Len(stack[q]) : OfStep(n, IDAt(q, d), stack[q][d].results)
      OBVIOUS
    <2>1. n.step \in 1..Len(stack[q][d].results) /\ n.run = IDAt(q, d)
      BY DEF OfStep
    <2>2. CASE /\ d \in 1..Len(stack'[q]) /\ IDAt(q, d)' = IDAt(q, d)
               /\ Extends(stack'[q][d], stack[q][d])
      <3>1. OfStep(n, IDAt(q, d), stack'[q][d].results)
        BY <2>1, <2>2 DEF OfStep, Extends
      <3> QED
        BY <2>2, <3>1 DEF OnItsWay, OfStep
    <2>3. CASE \E rec \in runStore' : rec.id = IDAt(q, d) /\ rec.results = stack[q][d].results
      BY <2>3 DEF OnRecord, OfStep
    <2>4. CASE Ended(q)' /\ \A rec \in runStore' : rec.id # <<q>>
      <3>1. stack[q] \in Seq(Invocation)
        BY DEF IInv, TypeOK
      <3>2. n.run[1] = q /\ n.step # 0
        BY <2>1, <3>1, IDTyped
      <3> QED
        BY <2>4, <3>2 DEF CutShort
    <2> QED
      BY <2>2, <2>3, <2>4 DEF Keeps
  <1>3. CASE CutShort(n)
    BY <1>3 DEF CutShort
  <1> QED
    BY <1>1, <1>2, <1>3

(* Steps that store no record. *)
LEMMA FiledStays ==
  ASSUME IInv, FiledInv, \A q \in Run : Passes(q), runStore' = runStore,
         \A n \in inbox' : n \in inbox \/ OnRecord(n)' \/ OnItsWay(n)'
  PROVE  FiledInv'
  <1>1. NoOrphanNotification'
    <2> SUFFICES ASSUME NEW n \in inbox' PROVE OnRecord(n)' \/ OnItsWay(n)' \/ CutShort(n)'
      BY DEF NoOrphanNotification
    <2>1. CASE n \in inbox
      <3>1. OnRecord(n) \/ OnItsWay(n) \/ CutShort(n)
        BY <2>1 DEF FiledInv, NoOrphanNotification
      <3> QED
        BY <3>1, NoLoss DEF Passes
    <2> QED
      BY <2>1
  <1>2. RunsFiled'
    <2> SUFFICES ASSUME NEW r \in Run, pc'[r] \in Late
                 PROVE  \E rec \in runStore' : /\ rec.id = RunID(r)' /\ rec.status = Top(r)'.status
                                               /\ rec.results = Top(r)'.results
      BY DEF RunsFiled
    <2>1. pc[r] \in Late /\ stack'[r] = stack[r]
      BY DEF Passes
    <2>2. RunID(r)' = RunID(r) /\ Top(r)' = Top(r)
      BY <2>1 DEF RunID, IDAt, Top
    <2> QED
      BY <2>1, <2>2 DEF FiledInv, RunsFiled
  <1>3. OwnFiled'
    BY DEF FiledInv, OwnFiled, Passes
  <1>4. OffStage'
    BY DEF OffStage, Passes
  <1> QED
    BY <1>1, <1>2, <1>3, <1>4 DEF FiledInv

(* Steps of one goroutine, which leave the stacks of the others alone. *)
LEMMA OthersPass ==
  ASSUME OffStage, NEW r \in Run, Passes(r),
         \A q \in Run \ {r} : pc'[q] = pc[q] /\ stack'[q] = stack[q]
  PROVE  \A q \in Run : Passes(q)
  <1>1. \A q \in Run \ {r} : Ended(q) => Ended(q)'
    BY DEF Ended
  <1>2. \A q \in Run \ {r} : Passes(q)
    BY <1>1, Untouched
  <1> QED
    BY <1>2

(* Steps that settle something about the top invocation. *)
LEMMA TopPasses ==
  ASSUME IInv, OffStage, NEW r \in Run, pc[r] \in InRunner \ Late, NEW p \in InRunner \ Late,
         pc' = [pc EXCEPT ![r] = p], NEW g \in Invocation, stack' = SetTop(r, g), Extends(g, Top(r))
  PROVE  /\ \A q \in Run : Passes(q)
         /\ Len(stack'[r]) = Len(stack[r]) /\ stack'[r][Len(stack[r])] = g
         /\ RunID(r)' = RunID(r)
  <1> DEFINE s == stack[r]
             t == [s EXCEPT ![Len(s)] = g]
  <1>1. /\ stack \in [Run -> Seq(Invocation)] /\ pc \in [Run -> PC]
        /\ s \in Seq(Invocation) /\ s # << >> /\ Len(s) \in 1..Len(s)
    BY TopTyped DEF IInv, TypeOK, Placed
  <1>2. /\ stack'[r] = t /\ pc'[r] = p
        /\ \A q \in Run \ {r} : pc'[q] = pc[q] /\ stack'[q] = stack[q]
    BY <1>1 DEF SetTop
  <1>3. t \in Seq(Invocation) /\ Len(t) = Len(s) /\ t[Len(s)] = g
        /\ \A i \in 1..Len(s) : i # Len(s) => t[i] = s[i]
    BY <1>1, ExceptSeq
  <1> HIDE DEF t
  <1>4. \A d \in 1..Len(s) : IDAt(r, d)' = IDAt(r, d)
    <2> SUFFICES ASSUME NEW d \in 1..Len(s) PROVE IDAt(r, d)' = IDAt(r, d)
      OBVIOUS
    <2>1. \A i \in 1..(d - 1) : stack'[r][i] = stack[r][i]
      BY <1>1, <1>2, <1>3
    <2> QED
      BY <2>1, IDSame
  <1>5. Keeps(r)
    <2> SUFFICES ASSUME NEW d \in 1..Len(s)
                 PROVE  d \in 1..Len(t) /\ IDAt(r, d)' = IDAt(r, d) /\ Extends(t[d], s[d])
      BY <1>2 DEF Keeps
    <2>1. CASE d = Len(s)
      BY <1>3, <1>4, <2>1 DEF Top
    <2>2. CASE d # Len(s)
      BY <1>3, <1>4, <2>2 DEF Extends
    <2> QED
      BY <2>1, <2>2
  <1>6. Passes(r)
    BY <1>2, <1>5 DEF Passes, InRunner, Ended
  <1>7. RunID(r)' = RunID(r)
    <2>1. \A i \in 1..(Len(s) - 1) : stack'[r][i] = stack[r][i]
      BY <1>1, <1>2, <1>3
    <2> QED
      BY <1>2, <1>3, <2>1 DEF RunID, IDAt
  <1> QED
    BY <1>2, <1>3, <1>6, <1>7, OthersPass

(* A recorded step is the last result; those before it stay. *)
LEMMA RecordExtends ==
  ASSUME NEW f \in Invocation, NEW says \in {"success", "failed", "skipped"},
         NEW c \in RunStatus \cup {"none"},
         NEW g \in Invocation, g.results = Record(f, says, c).results
  PROVE  /\ Extends(g, f)
         /\ Len(f.results) + 1 \in 1..Len(g.results)
         /\ g.results[Len(f.results) + 1].status = says
  <1> DEFINE e == [status |-> says, child |-> c]
             t == Append(f.results, e)
  <1>1. f.results \in Seq(StepResult) /\ e \in StepResult
    BY DEF Invocation, StepResult
  <1>2. /\ Len(f.results) \in Nat /\ Len(t) = Len(f.results) + 1
        /\ \A i \in 1..Len(f.results) : t[i] = f.results[i]
        /\ t[Len(f.results) + 1] = e
    BY <1>1, AppendProperties, LenProperties
  <1>3. e.status = says
    OBVIOUS
  <1> HIDE DEF e
  <1>4. g.results = [f EXCEPT !.results = t, !.tries = 0].results
    BY DEF Record, e
  <1> HIDE DEF t
  <1>5. g.results = t
    BY <1>4 DEF Invocation
  <1>6. Extends(g, f)
    BY <1>2, <1>5 DEF Extends
  <1> QED
    BY <1>2, <1>3, <1>5, <1>6

(* A step that succeeds or fails, announced or not. *)
LEMMA StepFiled ==
  ASSUME IInv, FiledInv, NEW r \in Run, pc[r] \in InRunner \ Late,
         NEW says \in {"success", "failed"},
         IF says = "success" THEN StepSucceeds(r) ELSE StepFails(r),
         Announces(r, says) \/ UNCHANGED durable
  PROVE  FiledInv'
  <1> DEFINE f == Top(r)
             k == Len(f.results) + 1
  <1>1. f \in Invocation
    BY TopTyped DEF IInv, Placed, TypeOK
  <1>2. PICK g \in Invocation, p \in InRunner \ Late :
          /\ stack' = SetTop(r, g) /\ pc' = [pc EXCEPT ![r] = p]
          /\ g.results = Record(f, says, "none").results
    <2>1. CASE says = "success"
      <3>1. Record(f, says, "none") \in Invocation
        BY <1>1, RecordTyped
      <3>2. "loop" \in InRunner \ Late
        BY DEF InRunner, Late
      <3> QED
        BY <2>1, <3>1, <3>2 DEF StepSucceeds
    <2>2. CASE says = "failed"
      <3> DEFINE h == Record(f, "failed", "none")
                 stop == Current(r).onFailure = "stop"
                 g == [h EXCEPT !.aborted = stop]
                 p == IF stop THEN "end" ELSE "loop"
      <3>1. h \in Invocation
        BY <1>1, RecordTyped
      <3>2. stack' = SetTop(r, g) /\ pc' = [pc EXCEPT ![r] = p] /\ p \in InRunner \ Late
        BY <2>2 DEF StepFails, InRunner, Late
      <3> HIDE DEF h, p
      <3>3. \A b \in BOOLEAN : /\ [h EXCEPT !.aborted = b] \in Invocation
                               /\ [h EXCEPT !.aborted = b].results = h.results
        BY <3>1, FieldsTyped DEF Invocation
      <3>4. g \in Invocation /\ g.results = h.results
        BY <3>3
      <3> HIDE DEF g
      <3> QED
        BY <2>2, <3>2, <3>4 DEF h
    <2> QED
      BY <2>1, <2>2
  <1>3. "none" \in RunStatus \cup {"none"}
    OBVIOUS
  <1>4. Extends(g, f) /\ k \in 1..Len(g.results) /\ g.results[k].status = says
    BY <1>1, <1>2, <1>3, RecordExtends
  <1>5. /\ \A q \in Run : Passes(q)
        /\ Len(stack'[r]) = Len(stack[r]) /\ stack'[r][Len(stack[r])] = g
        /\ RunID(r)' = RunID(r)
    BY <1>2, <1>4, TopPasses DEF FiledInv
  <1>6. \A n \in inbox' : n \in inbox \/ OnItsWay(n)'
    <2> SUFFICES ASSUME NEW n \in inbox', n \notin inbox PROVE OnItsWay(n)'
      OBVIOUS
    <2>1. n = [run |-> RunID(r), step |-> k, says |-> says]
      BY DEF Announces, durable
    <2>2. n.run = RunID(r) /\ n.step = k /\ n.says = says
      BY <2>1
    <2> HIDE DEF k
    <2>3. OfStep(n, RunID(r), g.results)
      BY <1>4, <2>2 DEF OfStep
    <2>4. Len(stack[r]) \in 1..Len(stack[r])
      BY TopTyped DEF IInv, Placed, TypeOK
    <2>5. PICK d \in 1..Len(stack[r]) : d = Len(stack[r])
      BY <2>4
    <2>6. RunID(r)' = IDAt(r, d)'
      BY <1>5, <2>5 DEF RunID, IDAt
    <2>7. OfStep(n, IDAt(r, d)', stack'[r][d].results)
      BY <1>5, <2>3, <2>5, <2>6
    <2>8. d \in 1..Len(stack'[r])
      BY <1>5
    <2> QED
      BY <2>7, <2>8 DEF OnItsWay, OfStep
  <1>7. runStore' = runStore
    BY DEF Announces, durable
  <1> QED
    BY <1>5, <1>6, <1>7, FiledStays

(* The steps of a workflow, sub-workflow calls included. *)
LEMMA ExecutingFiled ==
  ASSUME IInv, FiledInv, NEW r \in Run,
         \/ SkipsStep(r) \/ RefusesStep(r) \/ GateRefuses(r) \/ BeginsStep(r) \/ CallsAgent(r)
         \/ TryAbandoned(r) \/ AgentAnswers(r) \/ AgentFails(r) \/ CallsSubWorkflow(r)
         \/ SubWorkflowCycle(r)
  PROVE  FiledInv'
  <1>1. pc[r] \in {"loop", "try", "attempt"}
    BY DEF SkipsStep, RefusesStep, GateRefuses, BeginsStep, CallsAgent, TryAbandoned, AgentAnswers,
           AgentFails, CallsSubWorkflow, SubWorkflowCycle, AtStep
  <1>2. pc[r] \in InRunner \ Late
    BY <1>1 DEF InRunner, Late
  <1>3. /\ stack[r] # << >> /\ Top(r) \in Invocation /\ stack[r] \in Seq(Invocation)
        /\ Len(stack[r]) \in 1..Len(stack[r])
        /\ stack \in [Run -> Seq(Invocation)] /\ pc \in [Run -> PC] /\ OffStage
    BY <1>2, TopTyped DEF IInv, Placed, TypeOK, FiledInv
  <1>4. CASE \/ RefusesStep(r) \/ GateRefuses(r) \/ TryAbandoned(r) \/ SubWorkflowCycle(r)
             \/ AgentFails(r) /\ ~TriesLeft(r)
    <2>1. StepFails(r) /\ (Announces(r, "failed") \/ UNCHANGED durable)
      BY <1>4 DEF RefusesStep, GateRefuses, TryAbandoned, SubWorkflowCycle, AgentFails
    <2> QED
      BY <1>2, <2>1, StepFiled
  <1>5. CASE AgentAnswers(r)
    BY <1>2, <1>5, StepFiled DEF AgentAnswers
  <1>6. CASE SkipsStep(r)
    <2> DEFINE g == Record(Top(r), "skipped", "none")
    <2>1. "none" \in RunStatus \cup {"none"} /\ "loop" \in InRunner \ Late
      BY DEF InRunner, Late
    <2>2. g \in Invocation
      BY <1>3, <2>1, RecordTyped
    <2>3. Extends(g, Top(r))
      BY <1>3, <2>1, <2>2, RecordExtends
    <2>4. stack' = SetTop(r, g) /\ pc' = [pc EXCEPT ![r] = "loop"]
      BY <1>3, <1>6 DEF SkipsStep, AtStep
    <2> HIDE DEF g
    <2>5. \A q \in Run : Passes(q)
      BY <1>2, <1>3, <2>1, <2>2, <2>3, <2>4, TopPasses
    <2> QED
      BY <1>6, <2>5, FiledStays DEF SkipsStep, durable
  <1>7. CASE CallsAgent(r)
    <2> DEFINE n == Top(r).tries + 1
               g == [Top(r) EXCEPT !.tries = n]
    <2>1. n \in Nat
      BY <1>3 DEF Invocation
    <2>2. stack' = SetTop(r, g) /\ pc' = [pc EXCEPT ![r] = "attempt"] /\ "attempt" \in InRunner \ Late
      BY <1>7 DEF CallsAgent, InRunner, Late
    <2> HIDE DEF n
    <2>3. g \in Invocation /\ g.results = Top(r).results
      BY <1>3, <2>1, FieldsTyped DEF Invocation
    <2> HIDE DEF g
    <2>4. Extends(g, Top(r))
      BY <2>3 DEF Extends
    <2>5. \A q \in Run : Passes(q)
      BY <1>2, <1>3, <2>2, <2>3, <2>4, TopPasses
    <2> QED
      BY <1>7, <2>5, FiledStays DEF CallsAgent, durable
  <1>8. CASE BeginsStep(r) \/ (AgentFails(r) /\ TriesLeft(r))
    <2>1. pc' = [pc EXCEPT ![r] = "try"] /\ stack' = stack /\ UNCHANGED durable
      BY <1>8 DEF BeginsStep, AgentFails
    <2>2. Passes(r)
      BY <1>2, <1>3, <2>1, Untouched DEF InRunner, Late, Ended
    <2>3. \A q \in Run : Passes(q)
      BY <1>3, <2>1, <2>2, OthersPass
    <2> QED
      BY <2>1, <2>3, FiledStays DEF durable
  <1>9. CASE CallsSubWorkflow(r)
    <2> DEFINE s == stack[r]
               g == Invoke(Current(r).body)
               t == Append(s, g)
    <2>1. g \in Invocation
      BY <1>9, InvokeTyped DEF CallsSubWorkflow
    <2>2. stack' = [stack EXCEPT ![r] = t] /\ pc' = pc /\ UNCHANGED durable
      BY <1>9 DEF CallsSubWorkflow
    <2> HIDE DEF g
    <2>3. t # << >> /\ Len(t) = Len(s) + 1 /\ \A i \in 1..Len(s) : t[i] = s[i]
      BY <1>3, <2>1, AppendProperties
    <2> HIDE DEF t
    <2>4. stack'[r] = t /\ \A q \in Run \ {r} : stack'[q] = stack[q]
      BY <1>3, <2>2
    <2>5. Keeps(r)
      <3> SUFFICES ASSUME NEW d \in 1..Len(s)
                   PROVE  d \in 1..Len(t) /\ IDAt(r, d)' = IDAt(r, d) /\ Extends(t[d], s[d])
        BY <2>4 DEF Keeps
      <3>1. \A i \in 1..(d - 1) : stack'[r][i] = stack[r][i]
        BY <1>3, <2>3, <2>4
      <3> QED
        BY <1>3, <2>3, <3>1, IDSame DEF Extends
    <2>6. Passes(r)
      BY <1>2, <2>2, <2>5 DEF Passes, Ended, InRunner, Late
    <2>7. \A q \in Run : Passes(q)
      BY <1>3, <2>2, <2>4, <2>6, OthersPass
    <2> QED
      BY <2>2, <2>7, FiledStays DEF durable
  <1> QED
    BY <1>4, <1>5, <1>6, <1>7, <1>8, <1>9

(* A return pops a run that has its record, or empties the stack.          *)
LEMMA ReturnsPasses ==
  ASSUME IInv, FiledInv, NEW r \in Run, pc[r] = "chain", Returns(r),
         pc'[r] = ReturnsTo(r), runStore' = runStore
  PROVE  Passes(r) /\ \A q \in Run \ {r} : stack'[q] = stack[q]
  <1> DEFINE s == stack[r]
  <1>1. /\ stack \in [Run -> Seq(Invocation)] /\ s # << >> /\ s \in Seq(Invocation)
        /\ Len(s) \in 1..Len(s) /\ Top(r).status \in RunStatus
    BY TopTyped DEF IInv, TypeOK, Placed, InRunner, Finishing
  <1>2. PICK rec \in runStore : rec.id = RunID(r) /\ rec.results = Top(r).results
    BY DEF FiledInv, RunsFiled, Late
  <1>3. rec.id = IDAt(r, Len(s)) /\ rec.results = s[Len(s)].results
    BY <1>2 DEF RunID, Top
  <1>4. CASE Len(s) = 1
    <2>1. stack'[r] = << >> /\ pc'[r] = "unwinding" /\ \A q \in Run \ {r} : stack'[q] = stack[q]
      BY <1>1, <1>4 DEF Returns, ReturnsTo
    <2>2. Keeps(r)
      BY <1>3, <1>4 DEF Keeps
    <2> QED
      BY <2>1, <2>2 DEF Passes, Ended, Late
  <1>5. CASE Len(s) # 1
    <2> DEFINE n == Len(s) - 1
               f == Record(s[n], "success", Top(r).status)
               t == Append(SubSeq(s, 1, n - 1), f)
    <2>1. Len(s) \in Nat
      BY <1>1, LenProperties
    <2>2. Len(s) \in Nat \ {0, 1}
      BY <1>1, <1>5, <2>1
    <2>3. \A k \in Nat \ {0, 1} : k - 1 \in Nat \ {0} /\ k = (k - 1) + 1 /\ k - 1 \in 1..k
      OBVIOUS
    <2>4. n \in Nat \ {0} /\ Len(s) = n + 1 /\ n \in 1..Len(s)
      BY <2>2, <2>3
    <2>5. s[n] \in Invocation
      BY <1>1, <2>4, ElementOfSeq
    <2>6. stack' = [stack EXCEPT ![r] = t] /\ pc'[r] = "loop"
      BY <1>5 DEF Returns, ReturnsTo
    <2>7. f \in Invocation /\ Extends(f, s[n])
      <3> DEFINE x == s[n]
                 c == Top(r).status
      <3>1. x \in Invocation /\ c \in RunStatus \cup {"none"}
        BY <1>1, <2>5
      <3> HIDE DEF x, c
      <3>2. Record(x, "success", c) \in Invocation
        BY <3>1, RecordTyped
      <3>3. Extends(Record(x, "success", c), x)
        BY <3>1, <3>2, RecordExtends
      <3> QED
        BY <3>2, <3>3 DEF x, c
    <2> HIDE DEF n, f
    <2>8. Len(t) = n /\ t[n] = f /\ \A i \in 1..(n - 1) : t[i] = s[i]
      BY <1>1, <2>4, <2>7, CutAndPut
    <2> HIDE DEF t
    <2>9. stack'[r] = t /\ \A q \in Run \ {r} : stack'[q] = stack[q]
      BY <1>1, <2>6
    <2>10. Keeps(r)
      <3> SUFFICES ASSUME NEW d \in 1..Len(s), d # n + 1
                   PROVE  d \in 1..Len(t) /\ IDAt(r, d)' = IDAt(r, d) /\ Extends(t[d], s[d])
        BY <1>3, <2>4, <2>9 DEF Keeps
      <3>1. d \in 1..n
        BY <2>4
      <3>2. \A i \in 1..(d - 1) : stack'[r][i] = stack[r][i]
        BY <2>4, <2>8, <2>9, <3>1
      <3>3. IDAt(r, d)' = IDAt(r, d)
        BY <3>2, IDSame
      <3>4. CASE d = n
        BY <2>7, <2>8, <3>1, <3>3, <3>4
      <3>5. CASE d # n
        BY <2>4, <2>8, <3>1, <3>3, <3>5 DEF Extends
      <3> QED
        BY <3>4, <3>5
    <2> QED
      BY <1>5, <2>6, <2>9, <2>10 DEF Passes, Ended, Late, InRunner
  <1> QED
    BY <1>4, <1>5

(* The end of an invocation and of a goroutine. *)
LEMMA EndingFiled ==
  ASSUME IInv, FiledInv, NEW r \in Run,
         \/ SettlesStatus(r) \/ StoresNotification(r) \/ ChainEnds(r) \/ ChainOutOfBound(r)
         \/ AgentPanics(r) \/ \E q \in Run : Chains(r, q)
  PROVE  FiledInv'
  <1>1. /\ pc[r] \in InRunner /\ pc \in [Run -> PC] /\ stack \in [Run -> Seq(Invocation)] /\ OffStage
    BY DEF IInv, TypeOK, FiledInv, SettlesStatus, StoresNotification, ChainEnds, ChainOutOfBound,
           AgentPanics, Chains, LoopEnded, InRunner
  <1>2. CASE SettlesStatus(r)
    <2> DEFINE o == Outcome(r)
               g == [Top(r) EXCEPT !.status = o]
    <2>1. o \in RunStatus \cup {"running"} /\ Top(r) \in Invocation
      BY <1>1, TopTyped DEF Outcome, RunStatus, IInv, TypeOK, Placed
    <2>2. /\ stack' = SetTop(r, g) /\ pc' = [pc EXCEPT ![r] = "persist"] /\ UNCHANGED durable
          /\ "persist" \in InRunner \ Late /\ pc[r] \in InRunner \ Late
      BY <1>2 DEF SettlesStatus, LoopEnded, InRunner, Late
    <2> HIDE DEF o
    <2>3. g \in Invocation /\ g.results = Top(r).results
      BY <2>1, FieldsTyped DEF Invocation
    <2> HIDE DEF g
    <2>4. Extends(g, Top(r))
      BY <2>3 DEF Extends
    <2>5. \A q \in Run : Passes(q)
      BY <1>1, <2>2, <2>3, <2>4, TopPasses
    <2> QED
      BY <2>2, <2>5, FiledStays DEF durable
  <1>3. CASE StoresNotification(r)
    <2> DEFINE m == [run |-> RunID(r), step |-> 0, says |-> Top(r).status]
    <2>1. /\ pc[r] = "inbox" /\ pc' = [pc EXCEPT ![r] = "chain"] /\ inbox' = inbox \cup {m}
          /\ stack' = stack /\ runStore' = runStore
      BY <1>3 DEF StoresNotification
    <2>2. PICK rec \in runStore : rec.id = RunID(r) /\ rec.status = Top(r).status
      BY <2>1 DEF FiledInv, RunsFiled, Late
    <2>3. OfRun(m, rec)
      BY <2>2 DEF OfRun
    <2> HIDE DEF m
    <2>4. \A n \in inbox' : n \in inbox \/ OnRecord(n)'
      BY <2>1, <2>3 DEF OnRecord
    <2>5. Passes(r)
      BY <1>1, <2>1, Untouched DEF Late, InRunner, Ended
    <2>6. \A q \in Run : Passes(q)
      BY <1>1, <2>1, <2>5, OthersPass
    <2> QED
      BY <2>1, <2>4, <2>6, FiledStays
  <1>4. CASE ChainEnds(r) \/ ChainOutOfBound(r)
    <2>1. /\ pc[r] = "chain" /\ Returns(r) /\ pc' = [pc EXCEPT ![r] = ReturnsTo(r)] /\ UNCHANGED durable
      BY <1>4 DEF ChainEnds, ChainOutOfBound
    <2>2. Passes(r) /\ \A q \in Run \ {r} : stack'[q] = stack[q]
      BY <1>1, <2>1, ReturnsPasses DEF durable
    <2>3. \A q \in Run : Passes(q)
      BY <1>1, <2>1, <2>2, OthersPass
    <2> QED
      BY <2>1, <2>3, FiledStays DEF durable
  <1>5. CASE AgentPanics(r)
    <2>1. /\ pc[r] = "attempt" /\ stack' = [stack EXCEPT ![r] = << >>] /\ UNCHANGED durable
          /\ pc' = [pc EXCEPT ![r] = "unwinding"]
      BY <1>5 DEF AgentPanics
    <2>2. \A rec \in runStore : rec.id # <<r>>
      BY <2>1 DEF FiledInv, OwnFiled, Ended, Late
    <2>3. Keeps(r)
      BY <1>1, <2>1, <2>2 DEF Keeps, Ended, durable
    <2>4. Passes(r)
      BY <1>1, <2>1, <2>3 DEF Passes, Ended, Late
    <2>5. \A q \in Run : Passes(q)
      BY <1>1, <2>1, <2>4, OthersPass
    <2> QED
      BY <2>1, <2>5, FiledStays DEF durable
  <1>6. CASE \E q \in Run : Chains(r, q)
    <2> PICK q \in Run : Chains(r, q)
      BY <1>6
    <2>1. /\ pc[r] = "chain" /\ Returns(r) /\ pc[q] = "none" /\ UNCHANGED durable
          /\ pc' = [pc EXCEPT ![r] = ReturnsTo(r), ![q] = "admitted"]
      BY DEF Chains, TriggerWorkflow, Fresh
    <2>2. q # r /\ pc'[r] = ReturnsTo(r) /\ pc'[q] = "admitted"
          /\ \A u \in Run \ {r, q} : pc'[u] = pc[u]
      BY <1>1, <2>1
    <2>3. Passes(r) /\ \A u \in Run \ {r} : stack'[u] = stack[u]
      BY <2>1, <2>2, ReturnsPasses DEF durable
    <2>4. Passes(q)
      BY <1>1, <2>1, <2>2, <2>3, Untouched DEF Late, InRunner, Ended
    <2>5. \A u \in Run \ {r, q} : Passes(u)
      <3> SUFFICES ASSUME NEW u \in Run \ {r, q} PROVE Passes(u)
        OBVIOUS
      <3>1. pc'[u] = pc[u] /\ stack'[u] = stack[u]
        BY <2>2, <2>3
      <3> QED
        BY <1>1, <3>1, Untouched DEF Ended
    <2>6. \A u \in Run : Passes(u)
      BY <2>3, <2>4, <2>5
    <2> QED
      BY <2>1, <2>6, FiledStays DEF durable
  <1> QED
    BY <1>2, <1>3, <1>4, <1>5, <1>6

(* Storing a record: every notification of this run now agrees with it.    *)
LEMMA PersistFiled ==
  ASSUME IInv, FiledInv, NEW r \in Run, PersistsRun(r)
  PROVE  FiledInv'
  <1> DEFINE new == [id |-> RunID(r), wf |-> Top(r).wf, status |-> Top(r).status,
                     results |-> Top(r).results]
  <1>1. /\ pc[r] = "persist" /\ pc[r] \in InRunner /\ pc \in [Run -> PC]
        /\ runStore' = runStore \cup {new} /\ inbox' = inbox /\ stack' = stack
    BY DEF PersistsRun, IInv, TypeOK, InRunner
  <1>2. PICK p \in Late : pc' = [pc EXCEPT ![r] = p]
    BY DEF PersistsRun, Late
  <1>3. new.id = RunID(r) /\ new.status = Top(r).status /\ new.results = Top(r).results
    OBVIOUS
  <1> HIDE DEF new
  <1>4. pc'[r] \in Late /\ \A q \in Run \ {r} : pc'[q] = pc[q]
    BY <1>1, <1>2
  <1>5. \A q \in Run : /\ (pc'[q] \in InRunner <=> pc[q] \in InRunner)
                       /\ (Ended(q)' <=> Ended(q))
    BY <1>1, <1>4 DEF Late, InRunner, Ended
  <1>6. \A q \in Run : RunID(q)' = RunID(q) /\ Top(q)' = Top(q)
    BY <1>1 DEF RunID, IDAt, Top
  <1>7. RunID(r)[1] = r /\ Len(RunID(r)) = Len(stack[r])
    BY <1>1, RunIDTyped
  <1>8. \A q \in Run : new.id = <<q>> => q = r /\ Len(stack[r]) = 1
    BY <1>3, <1>7
  <1>9. NoOrphanNotification'
    <2>1. \A q \in Run : Keeps(q)
      <3> SUFFICES ASSUME NEW q \in Run PROVE Keeps(q)
        OBVIOUS
      <3>1. \A d \in 1..Len(stack[q]) : IDAt(q, d)' = IDAt(q, d)
        BY <1>1, IDSame
      <3> QED
        BY <1>1, <3>1 DEF Keeps, Extends
    <2>2. \A rec \in runStore' \ runStore : \A q \in Run : Ended(q) => rec.id # <<q>>
      BY <1>1, <1>8 DEF Ended
    <2> SUFFICES ASSUME NEW n \in inbox' PROVE OnRecord(n)' \/ OnItsWay(n)' \/ CutShort(n)'
      BY DEF NoOrphanNotification
    <2>3. OnRecord(n) \/ OnItsWay(n) \/ CutShort(n)
      BY <1>1 DEF FiledInv, NoOrphanNotification
    <2>4. runStore \subseteq runStore' /\ \A q \in Run : Ended(q) => Ended(q)'
      BY <1>1, <1>5
    <2> QED
      BY <2>1, <2>2, <2>3, <2>4, NoLoss
  <1>10. RunsFiled'
    <2> SUFFICES ASSUME NEW q \in Run, pc'[q] \in Late
                 PROVE  \E rec \in runStore' : /\ rec.id = RunID(q)' /\ rec.status = Top(q)'.status
                                               /\ rec.results = Top(q)'.results
      BY DEF RunsFiled
    <2>1. CASE q = r
      BY <1>1, <1>3, <1>6, <2>1
    <2>2. CASE q # r
      BY <1>1, <1>4, <1>6, <2>2 DEF FiledInv, RunsFiled
    <2> QED
      BY <2>1, <2>2
  <1>11. OwnFiled'
    <2> SUFFICES ASSUME NEW rec \in runStore', NEW q \in Run, rec.id = <<q>>
                 PROVE  Ended(q)' \/ (pc'[q] \in Late /\ Len(stack'[q]) = 1)
      BY DEF OwnFiled
    <2>1. CASE rec = new
      BY <1>1, <1>4, <1>8, <2>1
    <2>2. CASE rec \in runStore
      BY <1>1, <1>4, <1>5, <2>2 DEF FiledInv, OwnFiled
    <2> QED
      BY <1>1, <2>1, <2>2
  <1>12. OffStage'
    BY <1>1, <1>5 DEF FiledInv, OffStage
  <1> QED
    BY <1>9, <1>10, <1>11, <1>12 DEF FiledInv

(* A restart loses every stack: what was on one has its record or gets none. *)
LEMMA RestartFiled ==
  ASSUME IInv, FiledInv, Restart
  PROVE  FiledInv'
  <1>1. /\ pc \in [Run -> PC] /\ stack \in [Run -> Seq(Invocation)]
        /\ \A q \in Run : stack'[q] = << >> /\ pc'[q] = IF pc[q] \in {"none", "over"} THEN pc[q] ELSE "lost"
        /\ UNCHANGED durable
    BY DEF Restart, IInv, TypeOK
  <1>2. \A q \in Run : Passes(q)
    <2> SUFFICES ASSUME NEW q \in Run PROVE Passes(q)
      OBVIOUS
    <2>1. pc'[q] \notin Late /\ (Ended(q) => Ended(q)')
      BY <1>1 DEF Late, Ended
    <2>2. pc[q] \in InRunner => Ended(q)'
      BY <1>1 DEF InRunner, Ended
    <2>3. pc[q] \in Late => pc[q] \in InRunner
      BY DEF Late, InRunner
    <2>4. Keeps(q)
      <3> SUFFICES ASSUME NEW d \in 1..Len(stack[q]),
                          \E rec \in runStore : rec.id = <<q>>
                   PROVE  \E rec \in runStore' : rec.id = IDAt(q, d) /\ rec.results = stack[q][d].results
        <4>1. \A d \in 1..Len(stack[q]) : pc[q] \in InRunner
          BY <1>1 DEF FiledInv, OffStage
        <4> QED
          BY <1>1, <2>2, <4>1 DEF Keeps, durable
      <3>1. pc[q] \in InRunner
        BY <1>1 DEF FiledInv, OffStage
      <3>2. ~Ended(q)
        BY <3>1 DEF Ended, InRunner
      <3>3. pc[q] \in Late /\ Len(stack[q]) = 1
        BY <3>2 DEF FiledInv, OwnFiled
      <3>4. PICK rec \in runStore : rec.id = RunID(q) /\ rec.results = Top(q).results
        BY <3>3 DEF FiledInv, RunsFiled
      <3>5. d = Len(stack[q])
        BY <3>3
      <3> QED
        BY <1>1, <3>4, <3>5 DEF RunID, Top, durable
    <2> QED
      BY <1>1, <2>1, <2>2, <2>3, <2>4 DEF Passes
  <1> QED
    BY <1>1, <1>2, FiledStays DEF durable

(* The steps outside the runner. *)
LEMMA OutsideFiled ==
  ASSUME IInv, FiledInv, NEW r \in Run,
         \/ \E w \in Workflow : CronFires(w, r) \/ UserTriggers(w, r)
         \/ CronAdmitted(r) \/ CronSkips(r) \/ ReleasesSlot(r) \/ Unmarks(r) \/ EntersRunner(r)
  PROVE  FiledInv'
  <1>1. pc \in [Run -> PC] /\ stack \in [Run -> Seq(Invocation)] /\ OffStage
    BY DEF IInv, TypeOK, FiledInv
  <1>2. CASE EntersRunner(r)
    <2>1. /\ pc[r] = "admitted" /\ pc' = [pc EXCEPT ![r] = "loop"] /\ UNCHANGED durable
          /\ \A q \in Run \ {r} : stack'[q] = stack[q]
      BY <1>1, <1>2 DEF EntersRunner
    <2>2. stack[r] = << >>
      BY <1>1, <2>1 DEF OffStage, InRunner
    <2>3. Len(stack[r]) = 0
      BY <2>2
    <2>4. Keeps(r)
      BY <2>3 DEF Keeps
    <2>5. Passes(r)
      BY <1>1, <2>1, <2>4 DEF Passes, Ended, Late, InRunner
    <2>6. \A q \in Run : Passes(q)
      BY <1>1, <2>1, <2>5, OthersPass
    <2> QED
      BY <2>1, <2>6, FiledStays DEF durable
  <1>3. CASE ~EntersRunner(r)
    <2>1. stack' = stack /\ UNCHANGED durable
      BY <1>3 DEF CronFires, UserTriggers, TriggerWorkflow, CronAdmitted, CronSkips, ReleasesSlot, Unmarks
    <2>2. /\ pc[r] \notin InRunner /\ pc'[r] \notin InRunner /\ (Ended(r) => Ended(r)')
          /\ \A q \in Run \ {r} : pc'[q] = pc[q]
      <3>1. CASE \E w \in Workflow : CronFires(w, r) \/ UserTriggers(w, r)
        BY <1>1, <3>1 DEF CronFires, UserTriggers, TriggerWorkflow, Fresh, InRunner, Ended
      <3>2. CASE CronAdmitted(r) \/ CronSkips(r)
        BY <1>1, <3>2 DEF CronAdmitted, CronSkips, InRunner, Ended
      <3>3. CASE ReleasesSlot(r)
        BY <1>1, <3>3 DEF ReleasesSlot, InRunner, Ended
      <3>4. CASE Unmarks(r)
        BY <1>1, <3>4 DEF Unmarks, InRunner, Ended
      <3> QED
        BY <1>3, <3>1, <3>2, <3>3, <3>4
    <2>3. pc[r] \notin Late /\ pc'[r] \notin Late
      BY <2>2 DEF Late, InRunner
    <2>4. Passes(r)
      BY <1>1, <2>1, <2>2, <2>3, Untouched
    <2>5. \A q \in Run : Passes(q)
      BY <1>1, <2>1, <2>2, <2>4, OthersPass
    <2> QED
      BY <2>1, <2>5, FiledStays DEF durable
  <1> QED
    BY <1>2, <1>3

(* Every step keeps the inbox in agreement with the records and the stacks. *)
LEMMA FiledStep == IInv /\ FiledInv /\ [Next]_vars => FiledInv'
  <1> SUFFICES ASSUME IInv, FiledInv, [Next]_vars PROVE FiledInv'
    OBVIOUS
  <1>1. ASSUME UNCHANGED <<pc, stack, durable>>
        PROVE  FiledInv'
    <2>1. \A q \in Run : Passes(q)
      BY <1>1, Untouched DEF FiledInv, Ended
    <2> QED
      BY <1>1, <2>1, FiledStays DEF durable
  <1>2. CASE UNCHANGED vars \/ Rests
    BY <1>1, <1>2 DEF vars, Rests, durable
  <1>3. CASE (\E w \in Workflow : CancelWorkflow(w)) \/ \E r \in Run : TimesOut(r)
    BY <1>1, <1>3 DEF CancelWorkflow, TimesOut
  <1>4. CASE Restart
    BY <1>4, RestartFiled
  <1>5. CASE \E w \in Workflow, r \in Run : CronFires(w, r) \/ UserTriggers(w, r)
    BY <1>5, OutsideFiled
  <1>6. CASE \E r \in Run : GoStep(r)
    <2> PICK r \in Run : GoStep(r)
      BY <1>6
    <2>1. CASE CronAdmitted(r) \/ CronSkips(r) \/ ReleasesSlot(r) \/ Unmarks(r) \/ EntersRunner(r)
      BY <2>1, OutsideFiled
    <2>2. CASE \/ SkipsStep(r) \/ RefusesStep(r) \/ GateRefuses(r) \/ BeginsStep(r) \/ CallsAgent(r)
               \/ TryAbandoned(r) \/ AgentAnswers(r) \/ AgentFails(r) \/ CallsSubWorkflow(r)
               \/ SubWorkflowCycle(r)
      BY <2>2, ExecutingFiled
    <2>3. CASE \/ SettlesStatus(r) \/ StoresNotification(r) \/ ChainEnds(r) \/ ChainOutOfBound(r)
               \/ AgentPanics(r) \/ \E q \in Run : Chains(r, q)
      BY <2>3, EndingFiled
    <2>4. CASE PersistsRun(r)
      BY <2>4, PersistFiled
    <2> QED
      BY <2>1, <2>2, <2>3, <2>4 DEF GoStep
  <1> QED
    BY <1>2, <1>3, <1>4, <1>5, <1>6 DEF Next

(* A crash or a panic at any point leaves no notification of a run without *)
(* its record, and a step's only where the run it belongs to was cut short.*)
THEOREM RecordBeforeInbox == Spec => []NoOrphanNotification
  <1>1. Init => FiledInv
    <2> SUFFICES ASSUME Init PROVE FiledInv
      OBVIOUS
    <2>1. inbox = {} /\ runStore = {} /\ \A r \in Run : pc[r] = "none" /\ stack[r] = << >>
      BY DEF Init
    <2> QED
      BY <2>1 DEF FiledInv, NoOrphanNotification, RunsFiled, OwnFiled, OffStage, Late
  <1>2. FiledInv => NoOrphanNotification
    BY DEF FiledInv
  <1> QED
    BY <1>1, <1>2, RunsInvariant, FiledStep, PTL DEF Spec

================================================================================
