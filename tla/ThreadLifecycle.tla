-------------------------- MODULE ThreadLifecycle --------------------------
(***************************************************************************)
(* What internal/threadmgr promises of the threads of a session, in the    *)
(* words of thread.go, Create, Start, Cancel and Complete: a bounded       *)
(* number of threads is active, a queued thread begins once, and whatever  *)
(* it ends as it stays.                                                    *)
(***************************************************************************)
EXTENDS Naturals, FiniteSets

CONSTANTS
  Thread,   \* thread ids
  Limit     \* MaxThreadsPerSession

VARIABLE
  state     \* "absent", "queued", "running", how the thread ended, or "gone"

Live  == {"queued", "running"}
Ended == {"done", "cancelled", "error"}

LiveSet == {t \in Thread : state[t] \in Live}

Init == state = [t \in Thread |-> "absent"]

(* Create: "caps the number of active (non-terminal) threads". *)
Submit(t) ==
  /\ state[t] = "absent"
  /\ Cardinality(LiveSet) < Limit
  /\ state' = [state EXCEPT ![t] = "queued"]

(* Start: queued to thinking, for one caller only. *)
Begin(t) ==
  /\ state[t] = "queued"
  /\ state' = [state EXCEPT ![t] = "running"]

(* Complete, from the thread's goroutine. *)
End(t) ==
  /\ state[t] = "running"
  /\ \E outcome \in {"done", "error"} : state' = [state EXCEPT ![t] = outcome]

(* Cancel, from anywhere. *)
CancelLive(t) ==
  /\ state[t] \in Live
  /\ state' = [state EXCEPT ![t] = "cancelled"]

(* CleanupSession forgets live threads, never ended ones. *)
Forget(S) ==
  /\ S \subseteq LiveSet
  /\ state' = [t \in Thread |-> IF t \in S THEN "gone" ELSE state[t]]

Next ==
  \/ \E t \in Thread : Submit(t) \/ Begin(t) \/ End(t) \/ CancelLive(t)
  \/ \E S \in SUBSET Thread : Forget(S)

Spec == Init /\ [][Next]_state
=============================================================================
