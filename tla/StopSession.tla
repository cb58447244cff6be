---------------------------- MODULE StopSession ----------------------------
(***************************************************************************)
(* stop_session: disconnects the sessions that match a critical feature,   *)
(* one by one, while they come and go.                                     *)
(***************************************************************************)
CONSTANT Sessions

VARIABLES
    row,       \* what each session is to the monitoring view
    idColumn,  \* the view has a CONNECTION_ID column
    step,      \* where stop_session is
    connIds,   \* the listed sessions it has yet to look at
    connId,    \* the session it is at
    report,    \* what it has logged of each session
    lasting    \* history: sessions that have matched ever since it was called

locals == <<connIds, connId, report>>
stopVars == <<step, locals, lasting>>

Matching == {s \in Sessions : row[s] = "matching"}
IsConnected(s) == row[s] \in {"present", "matching"}

Reports == {"none", "already", "succeeded", "still there", "by itself"}

StopInit ==
    /\ step = "idle"
    /\ connIds = {} /\ connId \in Sessions
    /\ report = [s \in Sessions |-> "none"]
    /\ lasting = {}

StopCalled ==
    /\ step = "idle"
    /\ step' = "columns"
    /\ lasting' = Matching
    /\ UNCHANGED locals

\* The sessions move on: those that do not match any more do not last.
StopSees == lasting' = {s \in lasting : row'[s] = "matching"} /\ UNCHANGED <<step, locals>>

\* Does the view have a CONNECTION_ID?  Without, a warning is all.
AskColumns ==
    /\ step = "columns"
    /\ step' = IF idColumn THEN "list" ELSE "done"
    /\ UNCHANGED <<row, locals, lasting>>

ListSessions ==
    /\ step = "list"
    /\ connIds' = Matching
    /\ step' = "next"
    /\ UNCHANGED <<row, connId, report, lasting>>

FindGone ==
    /\ step = "next"
    /\ \E s \in connIds :
        /\ ~IsConnected(s)
        /\ connIds' = connIds \ {s}
        /\ report' = [report EXCEPT ![s] = "already"]
    /\ UNCHANGED <<row, step, connId, lasting>>

FindConnected ==
    /\ step = "next"
    /\ \E s \in connIds :
        /\ IsConnected(s)
        /\ connIds' = connIds \ {s}
        /\ connId' = s
    /\ step' = "disconnect"
    /\ UNCHANGED <<row, report, lasting>>

\* ALTER SYSTEM DISCONNECT SESSION is accepted; the session may take a while
\* to end.
Disconnect ==
    /\ step = "disconnect"
    /\ row' \in {row, [row EXCEPT ![connId] = "gone"]}
    /\ step' = "verify"
    /\ lasting' = {s \in lasting : row'[s] = "matching"}
    /\ UNCHANGED locals

Log(what) == report' = [report EXCEPT ![connId] = what]

\* Mutant: an executed statement counts as a disconnected session.
Verify_Trusting ==
    /\ step = "verify"
    /\ Log("succeeded")
    /\ step' = "next"
    /\ UNCHANGED <<row, connIds, connId, lasting>>

Verify ==
    /\ step = "verify"
    /\ Log(IF IsConnected(connId) THEN "still there" ELSE "succeeded")
    /\ step' = "next"
    /\ UNCHANGED <<row, connIds, connId, lasting>>

\* Mutant: the first session that cannot be disconnected ends it all.
Refused_GivesUp ==
    /\ step \in {"disconnect", "verify"}
    /\ Log("by itself")
    /\ step' = "done"
    /\ UNCHANGED <<row, connIds, connId, lasting>>

\* The bare except: whatever fails in the try, the session "got disconnected
\* by itself".
Refused ==
    /\ step \in {"disconnect", "verify"}
    /\ Log("by itself")
    /\ step' = "next"
    /\ UNCHANGED <<row, connIds, connId, lasting>>

\* Outside the try, an hdbsql that fails raises.
StopFails ==
    /\ step \in {"columns", "list"} \/ (step = "next" /\ connIds # {})
    /\ step' = "raised"
    /\ UNCHANGED <<row, locals, lasting>>

\* Mutant: again, until no session matches.
StopEnds_UntilGone ==
    /\ step = "next" /\ connIds = {}
    /\ step' = IF Matching = {} THEN "done" ELSE "list"
    /\ UNCHANGED <<row, locals, lasting>>

StopEnds ==
    /\ step = "next" /\ connIds = {}
    /\ step' = "done"
    /\ UNCHANGED <<row, locals, lasting>>

StopNext == AskColumns \/ ListSessions \/ FindGone \/ FindConnected \/ Disconnect \/ Verify
            \/ Refused \/ StopFails \/ StopEnds

----------------------------------------------------------------------------
StopTypeOK ==
    /\ step \in {"idle", "columns", "list", "next", "disconnect", "verify", "done", "raised"}
    /\ connIds \subseteq Sessions
    /\ connId \in Sessions
    /\ report \in [Sessions -> Reports]
    /\ lasting \subseteq Sessions

\* A session that is reported as disconnected after M_CONNECTIONS was asked,
\* before ALTER SYSTEM or after it, is not connected.  The third such report,
\* "by itself", comes from the except branch, where nobody asked.
CheckedReportsAreTrue ==
    \A s \in Sessions : report[s] \in {"already", "succeeded"} => ~IsConnected(s)

\* A session that matched all the time that stop_session ran was tried: when
\* it returns, it is logged as still there or as one that would not go,
\* whatever the other sessions did meanwhile.
NoneIsMissed ==
    step = "done" /\ idColumn =>
        \A s \in lasting : report[s] \in {"still there", "by itself"}
----------------------------------------------------------------------------
(* What a log line says and the code does not make sure of. *)

\* hanasitter.py:574: "... with connection id ... got disconnected by itself
\* before HANASitter tried".  No report that a session is disconnected is
\* about a session that is connected.
ReportsAreTrue ==
    \A s \in Sessions :
        report[s] \in {"already", "succeeded", "by itself"} => ~IsConnected(s)
=============================================================================
