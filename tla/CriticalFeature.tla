-------------------------- MODULE CriticalFeature --------------------------
(***************************************************************************)
(* A critical feature in tracker(): FeatureCheck, the recording it causes, *)
(* and StopSession over the same sessions.                                 *)
(***************************************************************************)
EXTENDS FeatureCheck

VARIABLES step, connIds, connId, report, lasting

Stop == INSTANCE StopSession WITH idColumn <- cf.idColumn

stopVars == <<step, connIds, connId, report, lasting>>
vars == <<checkVars, stopVars>>

Init == CheckInit /\ Stop!StopInit

Rows == RowChanges /\ Stop!StopSees

Check == CheckNext /\ UNCHANGED stopVars

\* Mutant: -ks is not looked at.
RecordThenStop_Always ==
    /\ pc \in {"hang", "critical"} /\ step = "idle"
    /\ Stop!StopCalled
    /\ UNCHANGED checkVars

\* record(), whatever becomes of it, then stop_session if -ks says so.
RecordThenStop ==
    /\ pc \in {"hang", "critical"} /\ cf.kill /\ step = "idle"
    /\ Stop!StopCalled
    /\ UNCHANGED checkVars

Stopping ==
    /\ Stop!StopNext
    /\ UNCHANGED <<cf, pc, threadVars, waited, culprits, history>>

Done ==
    /\ pc \in {"fine", "killed", "crashed"} \/ step \in {"done", "raised"}
       \/ (pc \in {"hang", "critical"} /\ ~cf.kill)
    /\ UNCHANGED vars

Next == Rows \/ Check \/ RecordThenStop \/ Stopping \/ Done

\* The operating system schedules the tracker, time passes, and a Timer or a
\* sleep that is over ends.  Nothing makes HANA answer a query.
Spec ==
    /\ Init /\ [][Next]_vars
    /\ WF_vars(Tick /\ UNCHANGED stopVars)
    /\ WF_vars(Tracker /\ UNCHANGED stopVars)
    /\ WF_vars(Scheduled /\ UNCHANGED stopVars)
    /\ WF_vars(RecordThenStop)

----------------------------------------------------------------------------
TypeOK ==
    /\ CheckTypeOK
    /\ pc \in {"join", "sample", "fine", "critical", "hang", "killed", "crashed"}
    /\ Stop!StopTypeOK

CheckedReportsAreTrue == Stop!CheckedReportsAreTrue
ReportsAreTrue == Stop!ReportsAreTrue
NoneIsMissed == Stop!NoneIsMissed

\* Sessions are stopped for an alarm only: no step of stop_session before the
\* verdict, and none for a feature that -ks does not name or whose numbers
\* were right all the time.
StopIsEarned ==
    step # "idle" => /\ cf.kill
                     /\ pc = "hang" \/ (pc = "critical" /\ right # Names)

\* HanaSitter takes the check for what FeatureContract promises: the input
\* checks and the counts are its two phases, and the culprits are settled
\* when the thread ends, before the tracker looks at them.
checkBar ==
    CASE thread \in {"delayed", "view", "column", "hostColumn"} -> "checking"
      [] thread = "finished" -> "finished"
      [] thread = "dead" -> "died"
      [] OTHER -> "querying"
resultBar == IF thread = "finished" THEN {h \in DOMAIN nbrCFSum : Wrong(Average(h))} ELSE {}
verdictBar == IF Judging THEN "none" ELSE pc

Contract == INSTANCE FeatureContract WITH
    names <- Names, check <- checkBar, result <- resultBar, verdict <- verdictBar

CheckKeepsContract == Contract!Spec

\* The tracker gets its verdict whatever HANA does.
CheckReturns == <>(pc \notin {"join", "sample"})

\* Once called, stop_session comes to an end if HANA answers its queries; if
\* it does not, nothing ever ends it, for no thread and no timeout guard it.
StopReturns == WF_vars(Stopping) => [](step # "idle" => <>(step \in {"done", "raised"}))
=============================================================================
