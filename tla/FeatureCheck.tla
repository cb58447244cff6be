---------------------------- MODULE FeatureCheck ----------------------------
(***************************************************************************)
(* One critical feature: feature_check runs in a Timer thread and counts   *)
(* the rows of a monitoring view, again and again and host by host; the    *)
(* tracker joins the thread for a while and judges what it finds.  Time is *)
(* counted in Timer delays (0.1 s).  A row stands for a session of HANA:   *)
(* it is in the view while the session is connected, and it matches the    *)
(* where clause or not, from one moment to the next.                       *)
(***************************************************************************)
EXTENDS Integers, FiniteSets

CONSTANTS
    Sessions, Hosts,
    Home,      \* the host of each session
    AnyHost,   \* the name '' under which all rows are counted without -hm
    Settings   \* the features considered

SettingType ==
    [view: BOOLEAN, column: BOOLEAN, hostColumn: BOOLEAN,   \* do they exist?
     idColumn: BOOLEAN,                                     \* CONNECTION_ID
     whereMode: BOOLEAN, hostMode: BOOLEAN, logs: BOOLEAN,  \* WHERE, -hm, -lf
     minimum: BOOLEAN, limit: Int,                          \* the limit is >limit
     iterations: Int, interval: Int,                        \* -if
     timeout: Int,                                          \* -tf
     kill: BOOLEAN]                                         \* -ks

\* main() refuses -lf together with -hm.
ASSUME FeatureAssumption ==
    /\ IsFiniteSet(Sessions)
    /\ Home \in [Sessions -> Hosts]
    /\ AnyHost \notin Hosts
    /\ Settings \subseteq SettingType
    /\ \A c \in Settings : ~(c.logs /\ c.hostMode)

VARIABLES
    cf, row,
    pc,                                \* the tracker
    thread, iteration, pending, wake,  \* the Timer thread
    nbrCFSum,
    waited,                            \* time spent in t.join
    culprits,                          \* hostsWithWrongNbrCFs
    busy,                              \* history: time spent in queries
    wrong, right                       \* history: names whose number was so all the time

threadVars == <<thread, iteration, pending, wake, nbrCFSum>>
history == <<busy, wrong, right>>
checkVars == <<cf, row, pc, threadVars, waited, culprits, history>>

RowStates == {"absent", "present", "matching", "gone"}
Connected(s) == row[s] \in {"present", "matching"}

Names == IF cf.hostMode THEN Hosts ELSE {AnyHost}
Number(h) == Cardinality({s \in Sessions : row[s] = "matching" /\ (h = AnyHost \/ Home[s] = h)})

Wrong(n) == IF cf.minimum THEN n < cf.limit ELSE n > cf.limit

CheckInit ==
    /\ cf \in Settings
    /\ row \in [Sessions -> RowStates \ {"gone"}]
    /\ pc = "join" /\ thread = "delayed"
    /\ iteration = 0 /\ pending = {} /\ wake = 0 /\ nbrCFSum = <<>>
    /\ waited = 0 /\ culprits = {} /\ busy = 0
    /\ wrong = {h \in Names : Wrong(Number(h))}
    /\ right = Names \ wrong

Judging == pc \in {"join", "sample"}

\* Sessions connect, do this and that, and end; a CONNECTION_ID is not used again.
RowChanges ==
    /\ \E s \in Sessions :
        \E r \in CASE row[s] = "absent" -> {"present", "matching"}
                   [] row[s] = "present" -> {"matching", "gone"}
                   [] row[s] = "matching" -> {"present", "gone"}
                   [] OTHER -> {} :
            row' = [row EXCEPT ![s] = r]
    /\ wrong' = IF Judging THEN {h \in wrong : Wrong(Number(h)')} ELSE wrong
    /\ right' = IF Judging THEN {h \in right : ~Wrong(Number(h)')} ELSE right
    /\ UNCHANGED <<cf, pc, threadVars, waited, culprits, busy>>

----------------------------------------------------------------------------
(* feature_check *)

Querying == {"view", "column", "hostColumn", "hosts", "count", "select"}
Alive == thread \in {"delayed", "asleep", "returning"} \cup Querying

\* What only the thread can do, while the tracker still looks at it.
ThreadStep ==
    /\ Judging
    /\ UNCHANGED <<cf, row, waited, culprits, history>>

\* Mutant: one iteration too many.
Iterate_OneMore(i) ==
    /\ iteration' = i
    /\ thread' = IF i > cf.iterations THEN "returning"
                 ELSE IF cf.hostMode THEN "hosts" ELSE "count"
    /\ pending' = IF cf.hostMode THEN {} ELSE {AnyHost}

\* for iteration in range(cf.nbrIterations)
Iterate(i) ==
    /\ iteration' = i
    /\ thread' = IF i >= cf.iterations THEN "returning"
                 ELSE IF cf.hostMode THEN "hosts" ELSE "count"
    /\ pending' = IF cf.hostMode THEN {} ELSE {AnyHost}

TimerFires ==
    /\ ThreadStep /\ UNCHANGED <<pc, iteration, pending, wake, nbrCFSum>>
    /\ thread = "delayed" /\ waited >= 1
    /\ thread' = "view"

\* What the input checks ask HANA, in this order.
Wanted ==
    [view |-> cf.view, column |-> cf.column, hostColumn |-> cf.hostColumn]

NextInput ==
    IF thread = "view" /\ ~cf.whereMode THEN "column"
    ELSE IF thread # "hostColumn" /\ cf.hostMode THEN "hostColumn" ELSE "none"

CheckInput ==
    /\ ThreadStep /\ UNCHANGED <<pc, wake, nbrCFSum>>
    /\ thread \in DOMAIN Wanted /\ Wanted[thread]
    /\ IF NextInput = "none" THEN Iterate(0)
       ELSE thread' = NextInput /\ UNCHANGED <<iteration, pending>>

\* INPUT ERROR: os._exit(1) ends the process, tracker included.
InputError ==
    /\ ThreadStep /\ UNCHANGED threadVars
    /\ thread \in DOMAIN Wanted /\ ~Wanted[thread]
    /\ pc' = "killed"

\* time.sleep(float(cf.interval)): a negative number raises.
Sleep ==
    \/ cf.interval >= 0 /\ thread' = "asleep" /\ wake' = waited + cf.interval
    \/ cf.interval < 0 /\ thread' = "dead" /\ UNCHANGED wake

\* select distinct HOST
ListHosts ==
    /\ ThreadStep /\ UNCHANGED <<pc, iteration, nbrCFSum>>
    /\ thread = "hosts"
    /\ pending' = {Home[s] : s \in {t \in Sessions : Connected(t)}}
    /\ IF pending' = {} THEN Sleep ELSE thread' = "count" /\ UNCHANGED wake

SumSoFar(h) == IF h \in DOMAIN nbrCFSum THEN nbrCFSum[h] ELSE 0

\* Mutant: the last number replaces the ones before.
AddNumber_Last(h) ==
    nbrCFSum' = [g \in DOMAIN nbrCFSum \cup {h} |-> IF g = h THEN Number(h) ELSE nbrCFSum[g]]

AddNumber(h) ==
    nbrCFSum' = [g \in DOMAIN nbrCFSum \cup {h} |->
                   IF g = h THEN SumSoFar(h) + Number(h) ELSE nbrCFSum[g]]

\* select count(*), for one host after the other or for all at once.
CountRows ==
    /\ ThreadStep /\ UNCHANGED <<pc, iteration>>
    /\ thread = "count"
    /\ \E h \in pending : AddNumber(h) /\ pending' = pending \ {h}
    /\ CASE pending' # {} -> UNCHANGED <<thread, wake>>
         [] pending' = {} /\ cf.logs -> thread' = "select" /\ UNCHANGED wake
         [] OTHER -> Sleep

\* select *, for -lf
SelectRows ==
    /\ ThreadStep /\ UNCHANGED <<pc, iteration, pending, nbrCFSum>>
    /\ thread = "select"
    /\ Sleep

Wake ==
    /\ ThreadStep /\ UNCHANGED <<pc, wake, nbrCFSum>>
    /\ thread = "asleep" /\ waited >= wake
    /\ Iterate(iteration + 1)

\* nbrCFsPerHost[0] is set, and the thread ends a little later.
ThreadEnds ==
    /\ ThreadStep /\ UNCHANGED <<pc, iteration, pending, wake, nbrCFSum>>
    /\ thread = "returning"
    /\ thread' = "finished"

\* hdbsql fails: the exception ends the thread, and the result stays -1.
QueryFails ==
    /\ ThreadStep /\ UNCHANGED <<pc, iteration, pending, wake, nbrCFSum>>
    /\ thread \in Querying
    /\ thread' = "dead"

----------------------------------------------------------------------------
(* tracker() *)

\* Mutant: the pauses between the checks are not allowed for.
Deadline_NoInterval == cf.timeout * cf.iterations

Deadline == (cf.timeout + cf.interval) * cf.iterations

\* Time does not pass a thread whose delay or sleep is over.
Due == (thread = "delayed" /\ waited >= 1) \/ (thread = "asleep" /\ waited >= wake)

Tick ==
    /\ pc = "join" /\ Alive /\ waited < Deadline /\ ~Due
    /\ waited' = waited + 1
    /\ busy' = IF thread \in Querying \cup {"returning"} THEN busy + 1 ELSE busy
    /\ UNCHANGED <<cf, row, pc, threadVars, culprits, wrong, right>>

\* Mutant: while t.is_alive(): t.join(...)
JoinReturns_Loops ==
    /\ pc = "join"
    /\ ~Alive \/ waited >= Deadline
    /\ IF Alive THEN pc' = pc /\ waited' = 0 ELSE pc' = "sample" /\ UNCHANGED waited
    /\ UNCHANGED <<cf, row, threadVars, culprits, history>>

JoinReturns ==
    /\ pc = "join"
    /\ ~Alive \/ waited >= Deadline
    /\ pc' = "sample"
    /\ UNCHANGED <<cf, row, threadVars, waited, culprits, history>>

\* int(float(nCF) / float(cf.nbrIterations))
Average(h) == nbrCFSum[h] \div cf.iterations

\* Mutant: a join that took its whole timeout counts as a hang.
JudgeHang_ByTime ==
    /\ pc = "sample" /\ waited >= Deadline
    /\ pc' = "hang"
    /\ UNCHANGED <<cf, row, threadVars, waited, culprits, history>>

\* hanging = t.is_alive(), the result compared with the limit, the alarm.
JudgeHang ==
    /\ pc = "sample" /\ Alive
    /\ pc' = "hang"
    /\ UNCHANGED <<cf, row, threadVars, waited, culprits, history>>

JudgeNumbers ==
    /\ pc = "sample" /\ thread = "finished"
    /\ culprits' = {h \in DOMAIN nbrCFSum : Wrong(Average(h))}
    /\ pc' = IF culprits' = {} THEN "fine" ELSE "critical"
    /\ UNCHANGED <<cf, row, threadVars, waited, history>>

\* (-1).items() raises AttributeError.
JudgeDead ==
    /\ pc = "sample" /\ thread = "dead"
    /\ pc' = "crashed"
    /\ UNCHANGED <<cf, row, threadVars, waited, culprits, history>>

Scheduled == TimerFires \/ Wake
Queries == CheckInput \/ InputError \/ ListHosts \/ CountRows \/ SelectRows \/ QueryFails
Tracker == JoinReturns \/ JudgeHang \/ JudgeNumbers \/ JudgeDead

CheckNext == Queries \/ ThreadEnds \/ Scheduled \/ Tick \/ Tracker

----------------------------------------------------------------------------
CheckTypeOK ==
    /\ cf \in Settings
    /\ row \in [Sessions -> RowStates]
    /\ thread \in {"delayed", "asleep", "returning", "finished", "dead"} \cup Querying
    /\ iteration \in Nat /\ (iteration > 0 => iteration <= cf.iterations)
    /\ pending \subseteq Names
    /\ wake \in Nat
    /\ DOMAIN nbrCFSum \subseteq Names
    /\ \A h \in DOMAIN nbrCFSum : nbrCFSum[h] \in Nat
    /\ waited \in Nat
    /\ culprits \subseteq Names
    /\ busy \in Nat
    /\ wrong \subseteq Names /\ right \subseteq Names

\* The alarm is about the numbers there were, although the rows change while
\* they are counted and the average is truncated: a name whose number was
\* wrong at every moment of the check is a culprit, one whose number never
\* was is none.  A host is out of sight of a minimum when the view has no
\* row of it in any iteration, and without iterations nothing is counted.
VerdictIsJustified ==
    pc \in {"fine", "critical"} /\ cf.iterations > 0 =>
        /\ culprits \cap right = {}
        /\ \A h \in wrong :
              (~cf.minimum /\ cf.limit >= 0) \/ h \in DOMAIN nbrCFSum => h \in culprits

\* "the timeout is added to the interval and multiplied with the number of
\* checks": the sleeps between the checks are no sign of a hang, so HANA was
\* kept busy with queries for the whole timeout of each check, but for the
\* delay of the Timer.  For the numbers of -if that make sense: the code takes
\* negative ones as well, and what they take from the deadline is no promise.
HangIsEarned ==
    pc = "hang" /\ cf.interval >= 0 /\ cf.iterations >= 0 =>
        busy + 1 >= cf.timeout * cf.iterations
=============================================================================
