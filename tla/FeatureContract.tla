-------------------------- MODULE FeatureContract --------------------------
(***************************************************************************)
(* What one check of a critical feature promises tracker(): its thread     *)
(* checks the input, counts, and returns the hosts whose number is wrong,  *)
(* or dies, or ends the process; and there is one verdict, which is a hang *)
(* only while the thread lives, and otherwise what the thread returned.    *)
(* Nothing promises that the thread returns.                               *)
(***************************************************************************)
VARIABLES names,    \* what is counted: hosts, or everything under one name
          check,    \* the thread
          result,   \* the names whose number is wrong, once it has returned
          verdict

vars == <<names, check, result, verdict>>

Busy == {"checking", "querying"}
Verdicts == {"fine", "critical", "hang", "crashed"}

Init ==
    /\ check = "checking"
    /\ result = {}
    /\ verdict = "none"

Thread ==
    /\ verdict = "none" /\ check \in Busy
    /\ UNCHANGED <<names, verdict>>

InputIsRight == Thread /\ check = "checking" /\ check' = "querying" /\ UNCHANGED result

Returns == Thread /\ check = "querying" /\ check' = "finished" /\ result' \in SUBSET names

Dies == Thread /\ check' = "died" /\ UNCHANGED result

\* os._exit(1) from the thread: the process ends without a verdict.
Aborts ==
    /\ verdict = "none" /\ check = "checking"
    /\ verdict' = "killed"
    /\ UNCHANGED <<names, check, result>>

Allowed(v) ==
    \/ v = "hang" /\ check \in Busy
    \/ v = "fine" /\ check = "finished" /\ result = {}
    \/ v = "critical" /\ check = "finished" /\ result # {}
    \/ v = "crashed" /\ check = "died"

Decide ==
    /\ verdict = "none"
    /\ verdict' \in Verdicts
    /\ Allowed(verdict')
    /\ UNCHANGED <<names, check, result>>

Next == InputIsRight \/ Returns \/ Dies \/ Aborts \/ Decide

Spec == Init /\ [][Next]_vars
=============================================================================
