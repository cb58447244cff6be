---------------------------- MODULE PingContract ----------------------------
(***************************************************************************)
(* What one call of hana_ping promises its caller, tracker(), whatever its *)
(* threads and retries do: a verdict "ok", "raised" or "abort" was         *)
(* preceded by an answer of the database, a verdict "offline" by a run of  *)
(* refused attempts as long as a ping timeout, and the verdict is given    *)
(* once.  "hang" needs no cause: hana_ping gives up waiting on a silent    *)
(* database and on a slow one alike.                                       *)
(***************************************************************************)
EXTENDS Naturals

CONSTANT Tenths   \* ping_timeout counted in pauses, pause = ping_timeout/10.

VARIABLES db,        \* how HANA treats hdbsql: "up", "hanging" or "down"
          answered,  \* a text of hdbsql has been delivered to the caller
          refusals,  \* attempts that came back without the row
          verdict

vars == <<db, answered, refusals, verdict>>

DbStates == {"up", "hanging", "down"}

Init ==
    /\ db \in DbStates
    /\ answered = FALSE
    /\ refusals = 0
    /\ verdict = "none"

DbChange ==
    /\ db' \in DbStates
    /\ UNCHANGED <<answered, refusals, verdict>>

\* A verdict of hang leaves the attempt's thread behind: it may still answer.
Answer ==
    /\ verdict \in {"none", "hang"}
    /\ db = "up"
    /\ ~answered
    /\ answered' = TRUE
    /\ UNCHANGED <<db, refusals, verdict>>

Refuse ==
    /\ verdict \in {"none", "hang"}
    /\ db = "down"
    /\ ~answered
    /\ refusals' = refusals + 1
    /\ UNCHANGED <<db, answered, verdict>>

Allowed(v) ==
    \/ v \in {"ok", "raised", "abort"} /\ answered
    \/ v = "offline" /\ refusals = Tenths + 2 /\ ~answered
    \/ v = "hang"

Decide ==
    /\ verdict = "none"
    /\ verdict' \in {"ok", "hang", "offline", "raised", "abort"}
    /\ Allowed(verdict')
    /\ UNCHANGED <<db, answered, refusals>>

Next == DbChange \/ Answer \/ Refuse \/ Decide

Spec == Init /\ [][Next]_vars
=============================================================================
