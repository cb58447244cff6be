------------------------------ MODULE HanaPing ------------------------------
(***************************************************************************)
(* One call of hana_ping (hanasitter.py): the caller's thread runs the     *)
(* retry loop, a Timer thread runs ping_db.  The two share output[0] and   *)
(* the thread's liveness, and the caller reads them one after the other.   *)
(* Time is counted in pauses (ping_timeout/10.): Tenths of them make a     *)
(* ping timeout, 10 in the code.                                           *)
(***************************************************************************)
EXTENDS Naturals

CONSTANT Tenths

ASSUME TenthsAssumption == Tenths \in Nat \ {0}

VARIABLES
    db,        \* how HANA treats hdbsql right now
    pc,        \* where the caller is in hana_ping
    thread,    \* the Timer thread of the current attempt
    output,    \* output[0] holds what hdbsql printed
    hanging, pinged, offline, lifetime,   \* the locals of hana_ping
    waited,    \* time this attempt has spent in t.join
    elapsed    \* history: time since hana_ping was called

caller == <<pc, hanging, pinged, offline, lifetime>>
vars == <<db, pc, thread, output, hanging, pinged, offline, lifetime, waited, elapsed>>

DbStates == {"up", "hanging", "down"}

Init ==
    /\ db \in DbStates
    /\ pc = "loop" /\ thread = "none" /\ output = FALSE
    /\ hanging = FALSE /\ pinged = FALSE /\ offline = FALSE
    /\ lifetime = 0 /\ waited = 0 /\ elapsed = 0

\* HANA hangs, recovers, stops and starts at any moment.
DbChange ==
    /\ db' \in DbStates \ {db}
    /\ UNCHANGED <<caller, thread, output, waited, elapsed>>

----------------------------------------------------------------------------
\* The thread: ping_db returns with the row, with nothing, or not at all.
\* os._exit ends it with the process.
Alive == pc # "aborted"

Answer ==
    /\ Alive /\ thread = "running" /\ db = "up"
    /\ output' = TRUE
    /\ thread' = "returning"
    /\ UNCHANGED <<db, caller, waited, elapsed>>

\* hdbsql fails, the bare except swallows it and output[0] stays None.
Refuse ==
    /\ Alive /\ thread = "running" /\ db = "down"
    /\ thread' = "returning"
    /\ UNCHANGED <<db, caller, output, waited, elapsed>>

\* The thread is alive until ping_db has closed devnull and returned.
ThreadEnds ==
    /\ Alive /\ thread = "returning"
    /\ thread' = "finished"
    /\ UNCHANGED <<db, caller, output, waited, elapsed>>

----------------------------------------------------------------------------
\* The caller: output = [None], Timer(0.1, ping_db), t.start().
StartAttempt ==
    /\ pc = "loop"
    /\ output' = FALSE
    /\ thread' = "running"
    /\ waited' = 0
    /\ pc' = "join"
    /\ UNCHANGED <<db, hanging, pinged, offline, lifetime, elapsed>>

Tick ==
    /\ pc = "join" /\ thread # "finished" /\ waited < Tenths
    /\ waited' = waited + 1
    /\ elapsed' = elapsed + 1
    /\ UNCHANGED <<db, caller, thread, output>>

\* Mutant: join() without a timeout.
JoinReturns_NoTimeout ==
    /\ pc = "join"
    /\ thread = "finished"
    /\ pc' = "sample"
    /\ UNCHANGED <<db, thread, output, hanging, pinged, offline, lifetime, waited, elapsed>>

JoinReturns ==
    /\ pc = "join"
    /\ thread = "finished" \/ waited = Tenths
    /\ pc' = "sample"
    /\ UNCHANGED <<db, thread, output, hanging, pinged, offline, lifetime, waited, elapsed>>

\* hanging = t.is_alive()
SampleAlive ==
    /\ pc = "sample"
    /\ hanging' = (thread # "finished")
    /\ pc' = "read"
    /\ UNCHANGED <<db, thread, output, pinged, offline, lifetime, waited, elapsed>>

\* if output[0]: pinged = ...
ReadOutput ==
    /\ pc = "read"
    /\ pinged' = (pinged \/ output)
    /\ pc' = "decide"
    /\ UNCHANGED <<db, thread, output, hanging, offline, lifetime, waited, elapsed>>

\* A text of fewer than three lines: output[0].splitlines(1)[2] raises.
ReadRaises ==
    /\ pc = "read" /\ output
    /\ pc' = "raised"
    /\ UNCHANGED <<db, thread, output, hanging, pinged, offline, lifetime, waited, elapsed>>

\* The assertion of the code: print "ERROR, ..." and os._exit(1).
AbortBoth ==
    /\ pc = "decide" /\ hanging /\ pinged
    /\ pc' = "aborted"
    /\ UNCHANGED <<db, thread, output, hanging, pinged, offline, lifetime, waited, elapsed>>

\* Mutant: the assertion below the join is forgotten.
ReturnVerdict_Unchecked ==
    /\ pc = "decide" /\ (hanging \/ pinged)
    /\ pc' = "done"
    /\ UNCHANGED <<db, thread, output, hanging, pinged, offline, lifetime, waited, elapsed>>

ReturnVerdict ==
    /\ pc = "decide" /\ hanging # pinged
    /\ pc' = "done"
    /\ UNCHANGED <<db, thread, output, hanging, pinged, offline, lifetime, waited, elapsed>>

\* Mutants: one attempt too few, one too many.
GiveUp_Early == lifetime >= Tenths
GiveUp_Late == lifetime > Tenths + 1

GiveUp == lifetime > Tenths

ReturnOffline ==
    /\ pc = "decide" /\ ~hanging /\ ~pinged /\ GiveUp
    /\ offline' = TRUE
    /\ pc' = "done"
    /\ UNCHANGED <<db, thread, output, hanging, pinged, lifetime, waited, elapsed>>

\* Mutant: the pauses are not added up.
Retry_NoCount ==
    /\ pc = "decide" /\ ~hanging /\ ~pinged /\ ~GiveUp
    /\ elapsed' = elapsed + 1
    /\ pc' = "loop"
    /\ UNCHANGED <<db, thread, output, hanging, pinged, offline, lifetime, waited>>

\* time.sleep(pause); lifetime += pause
Retry ==
    /\ pc = "decide" /\ ~hanging /\ ~pinged /\ ~GiveUp
    /\ lifetime' = lifetime + 1
    /\ elapsed' = elapsed + 1
    /\ pc' = "loop"
    /\ UNCHANGED <<db, thread, output, hanging, pinged, offline, waited>>

----------------------------------------------------------------------------
Caller == \/ StartAttempt \/ JoinReturns \/ SampleAlive \/ ReadOutput
          \/ ReadRaises \/ AbortBoth \/ ReturnVerdict \/ ReturnOffline \/ Retry

Next == DbChange \/ Answer \/ Refuse \/ ThreadEnds \/ Tick \/ Caller

\* The operating system schedules the caller, and time passes.  The thread
\* owes nothing: hdbsql may never come back.
Spec == Init /\ [][Next]_vars /\ WF_vars(Caller) /\ WF_vars(Tick)

----------------------------------------------------------------------------
TypeOK ==
    /\ db \in DbStates
    /\ pc \in {"loop", "join", "sample", "read", "decide", "done", "aborted", "raised"}
    /\ thread \in {"none", "running", "returning", "finished"}
    /\ output \in BOOLEAN /\ hanging \in BOOLEAN
    /\ pinged \in BOOLEAN /\ offline \in BOOLEAN
    /\ lifetime \in 0 .. Tenths + 1
    /\ waited \in 0 .. Tenths
    /\ elapsed \in Nat

\* tracker() treats the verdicts as alternatives: it records on hanging and
\* leaves on offline.  A call that returns never returns both, returns
\* neither only if the database answered, and calls it a hang only after it
\* has waited for the whole ping timeout.
VerdictIsEarned ==
    pc = "done" =>
        /\ ~(hanging /\ offline)
        /\ ~hanging /\ ~offline => output
        /\ hanging => waited = Tenths /\ ~pinged
        /\ offline => ~output /\ lifetime = Tenths + 1

\* The tracker is blocked by a ping for a bounded time: at most Tenths + 2
\* attempts, each of a ping timeout at most, with a pause between them.
BoundedPing == elapsed <= (Tenths + 2) * (Tenths + 1)

\* hana_ping comes back (or raises, or aborts) whatever the database does.
PingReturns == <>(pc \in {"done", "aborted", "raised"})

\* What the check in the code says of itself: "ERROR, it cannot be both
\* pinged and hanging".
NeverPingedAndHanging == pc # "aborted"

----------------------------------------------------------------------------
\* The contract the tracker relies on.  An attempt that came back without
\* the row is counted from the moment the thread gives up until the caller
\* has added it to lifetime.
Refused ==
    /\ pc \in {"join", "sample", "read", "decide", "done", "aborted"}
    /\ thread \in {"returning", "finished"}
    /\ ~output

verdictBar ==
    IF pc = "aborted" THEN "abort"
    ELSE IF pc = "raised" THEN "raised"
    ELSE IF pc # "done" THEN "none"
    ELSE IF hanging THEN "hang" ELSE IF offline THEN "offline" ELSE "ok"

Contract == INSTANCE PingContract WITH
    answered <- output, verdict <- verdictBar,
    refusals <- lifetime + (IF Refused THEN 1 ELSE 0)

PingKeepsContract == Contract!Spec
=============================================================================
