--------------------------- MODULE RecordContract ---------------------------
(***************************************************************************)
(* What record() of hanasitter.py promises the tracker, in every recording *)
(* mode: each requested recording of each host concerned is made once, and *)
(* record() returns only when nothing is missing.  If a recorder raises,   *)
(* record() raises too, with some of the recordings made.                  *)
(***************************************************************************)
VARIABLES wanted,   \* the recordings requested: type, number, host
          made,     \* those that have been made
          outcome   \* "running", "complete" or "failed"

vars == <<wanted, made, outcome>>

Init ==
    /\ made = {}
    /\ outcome = "running"

Make ==
    /\ outcome # "complete"
    /\ \E r \in wanted \ made : made' = made \cup {r}
    /\ UNCHANGED <<wanted, outcome>>

Return ==
    /\ outcome = "running" /\ made = wanted
    /\ outcome' = "complete"
    /\ UNCHANGED <<wanted, made>>

Raise ==
    /\ outcome = "running"
    /\ outcome' = "failed"
    /\ UNCHANGED <<wanted, made>>

Next == Make \/ Return \/ Raise

Spec == Init /\ [][Next]_vars
=============================================================================
