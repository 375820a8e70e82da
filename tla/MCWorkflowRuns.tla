--------------------------- MODULE MCWorkflowRuns ---------------------------
EXTENDS WorkflowRuns

Silent  == [onSuccess |-> FALSE, onFailure |-> FALSE]
Talking == [onSuccess |-> TRUE, onFailure |-> TRUE]

Prompt(onFailure, retries, when, limit, notify) ==
  [body |-> Agent, onFailure |-> onFailure, retries |-> retries, when |-> when, limit |-> limit,
   notify |-> notify]
Call(w, onFailure) ==
  [body |-> w, onFailure |-> onFailure, retries |-> 0, when |-> FALSE, limit |-> FALSE,
   notify |-> Silent]

(* a calls b and b calls a: the definitions on disk have a cycle. *)
NestedSteps == [a |-> <<Call("b", "stop"), Prompt("stop", 1, FALSE, FALSE, Talking)>>,
                b |-> <<Prompt("continue", 0, FALSE, FALSE, Talking), Call("a", "continue")>>]
OneStep == [a |-> <<Prompt("stop", 0, FALSE, TRUE, Silent)>>,
            b |-> <<Prompt("continue", 0, TRUE, FALSE, Silent)>>]

AThenB == [a |-> [next |-> "b", onSuccess |-> FALSE, onFailure |-> FALSE],
           b |-> [next |-> "none", onSuccess |-> FALSE, onFailure |-> FALSE]]
OnFailure == [a |-> [onSuccess |-> FALSE, onFailure |-> TRUE], b |-> Silent]
=============================================================================
