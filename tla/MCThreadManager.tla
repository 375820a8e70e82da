-------------------------- MODULE MCThreadManager --------------------------
(* Small sessions for TLC. *)
EXTENDS ThreadManager

CONSTANTS a1, a2, f1, f2

MCAgent == {a1, a2}

(* Threads 1 and 3 go to the same agent, so a hint can be ambiguous. *)
MCAgentOf == [t \in Thread |-> IF t = 2 THEN a2 ELSE a1]

MCPath == {f1}
MCPath2 == {f1, f2}

(* Two files: threads 1 and 3 want both, thread 2 wants one. *)
MCOverlap == [t \in Thread |-> IF t = 2 THEN {f2} ELSE {f1, f2}]

MCNoIntents == [t \in Thread |-> {}]

MCNoHints  == {{}}
MCOneHint  == {{}, {a1}}
MCAllHints == {{}, {a1}, {a2}}
=============================================================================
