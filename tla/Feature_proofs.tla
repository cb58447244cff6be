--------------------------- MODULE Feature_proofs ---------------------------
(***************************************************************************)
(* A critical feature for any sessions, hosts, limits, iterations and      *)
(* times: the hang and the numbers that raise an alarm are earned, and     *)
(* stop_session reports the truth and misses no session.                   *)
(***************************************************************************)
EXTENDS CriticalFeature, FiniteSetTheorems, TLAPS

LEMMA SettingFields ==
    ASSUME NEW c \in Settings
    PROVE  /\ c.limit \in Int /\ c.iterations \in Int /\ c.interval \in Int /\ c.timeout \in Int
           /\ c.hostMode \in BOOLEAN /\ c.minimum \in BOOLEAN /\ c.logs \in BOOLEAN
           /\ c.whereMode \in BOOLEAN
           /\ ~(c.logs /\ c.hostMode)
  BY FeatureAssumption DEF SettingType

\* A number of rows is a natural number.
LEMMA NumberType == ASSUME NEW h PROVE Number(h) \in Nat /\ Number(h)' \in Nat
<1>. DEFINE Some(r) == {s \in Sessions : r[s] = "matching" /\ (h = AnyHost \/ Home[s] = h)}
<1>1. \A r : IsFiniteSet(Some(r)) /\ Cardinality(Some(r)) \in Nat
  BY FeatureAssumption, FS_Subset, FS_CardinalityType
<1>2. QED
  BY <1>1 DEF Number

\* The order of feature_check, and the iterations it has behind it.
Flow ==
    /\ thread \in {"delayed", "view", "column", "hostColumn"} => iteration = 0
    /\ thread \in {"hosts", "count", "select", "asleep"} => iteration < cf.iterations
    /\ thread \in {"returning", "finished"} =>
          iteration = cf.iterations \/ (iteration = 0 /\ cf.iterations <= 0)
    /\ iteration > 0 \/ thread = "asleep" => cf.interval >= 0
    /\ thread = "hosts" => cf.hostMode
    /\ thread = "select" => ~cf.hostMode

\* Where the time in t.join has gone: the delay of the Timer, the queries,
\* and one interval for each iteration.
Slept == iteration * cf.interval
Time ==
    /\ waited = 0 \/ waited <= Deadline
    /\ thread = "delayed" => waited <= 1 /\ busy = 0
    /\ thread \in Querying \cup {"returning"} => waited = 1 + busy + Slept
    /\ thread = "asleep" => /\ wake = 1 + busy + Slept + cf.interval
                            /\ waited <= wake
    /\ pc \in {"sample", "hang"} /\ Alive => waited >= Deadline
    /\ pc = "hang" => Alive

FInv == TypeOK /\ Flow /\ Time

LEMMA TypeInit == Init => TypeOK
<1>. SUFFICES ASSUME Init PROVE TypeOK
  OBVIOUS
<1>1. cf \in Settings
  BY DEF Init, CheckInit
<1>2. DOMAIN nbrCFSum = {}
  BY DEF Init, CheckInit
<1>3. CheckTypeOK
  BY <1>1, <1>2 DEF Init, CheckInit, CheckTypeOK, RowStates, Querying
<1>4. Stop!StopTypeOK
  BY DEF Init, Stop!StopInit, Stop!StopTypeOK, Stop!Reports
<1>5. QED
  BY <1>3, <1>4 DEF Init, CheckInit, TypeOK

\* Iterate keeps to the number of iterations.
LEMMA IterateType ==
    ASSUME cf \in Settings, NEW i \in Nat, i = 0 \/ i <= cf.iterations, Iterate(i)
    PROVE  /\ iteration' = i
           /\ thread' \in {"hosts", "count", "returning"}
           /\ thread' \in {"hosts", "count"} => i < cf.iterations
           /\ thread' = "returning" => i = cf.iterations \/ (i = 0 /\ cf.iterations <= 0)
           /\ thread' = "hosts" => cf.hostMode
           /\ thread' = "count" => ~cf.hostMode
           /\ pending' \subseteq Names
  BY SettingFields DEF Iterate, Names

\* What the products of the numbers of iterations and the times amount to.
LEMMA Products ==
    ASSUME NEW i \in Nat, NEW n \in Int, NEW v \in Int, NEW t \in Int
    PROVE  /\ 0 * v = 0 /\ i * v \in Int /\ (t + v) * n \in Int /\ t * n \in Int /\ n * v \in Int
           /\ (i + 1) * v = i * v + v
           /\ (t + v) * n = t * n + n * v
           /\ v >= 0 => i * v >= 0
           /\ i <= n /\ v >= 0 => i * v <= n * v
<1>1. 0 * v = 0 /\ i * v \in Int /\ (t + v) * n \in Int /\ t * n \in Int /\ n * v \in Int
  OBVIOUS
<1>2. (i + 1) * v = i * v + v
  OBVIOUS
<1>3. (t + v) * n = t * n + n * v
  OBVIOUS
<1>4. ASSUME i <= n, v >= 0 PROVE i * v <= n * v
  <2>1. PICK d \in Nat : n = i + d
    <3>1. n - i \in Nat /\ n = i + (n - i)
      BY <1>4
    <3>2. QED
      BY <3>1
  <2>2. n * v = i * v + d * v /\ d * v \in Int /\ d * v >= 0
    BY <1>4, <2>1
  <2>3. QED
    BY <2>2, <1>1
<1>5. v >= 0 => i * v >= 0
  OBVIOUS
<1>6. QED
  BY <1>1, <1>2, <1>3, <1>4, <1>5

\* The steps of feature_check and of the tracker keep their variables typed.
LEMMA CheckStep ==
    ASSUME FInv, CheckNext PROVE CheckTypeOK' /\ Flow'
<1>. USE DEF FInv, TypeOK, CheckTypeOK, Flow, threadVars, history
<1>0. /\ cf.iterations \in Int /\ cf.interval \in Int /\ cf.timeout \in Int
      /\ cf.hostMode \in BOOLEAN /\ ~(cf.logs /\ cf.hostMode)
  BY SettingFields
<1>1. CASE CheckInput
  <2>1. CASE NextInput = "none"
    <3>1. Iterate(0)
      BY <1>1, <2>1 DEF CheckInput
    <3>2. QED
      BY <1>1, <3>1, IterateType DEF CheckInput, ThreadStep, Names, Querying, Wanted
  <2>2. CASE NextInput # "none"
    BY <1>1, <2>2 DEF CheckInput, NextInput, ThreadStep, Names, Querying, Wanted
  <2>3. QED
    BY <2>1, <2>2
<1>2. CASE InputError
  BY <1>2 DEF InputError, ThreadStep, Names
<1>3. CASE ListHosts
  <2>1. {Home[s] : s \in {t \in Sessions : Connected(t)}} \subseteq Hosts
    BY FeatureAssumption
  <2>2. pending' \subseteq Names' /\ UNCHANGED <<cf, row, iteration, nbrCFSum, waited, culprits, history>>
    BY <1>3, <2>1 DEF ListHosts, ThreadStep, Names
  <2>3. /\ thread' \in {"asleep", "count", "dead"} /\ thread = "hosts"
        /\ wake' = wake \/ (cf.interval >= 0 /\ wake' = waited + cf.interval)
        /\ thread' = "asleep" => cf.interval >= 0
    BY <1>3 DEF ListHosts, Sleep
  <2>4. QED
    BY <1>0, <2>2, <2>3 DEF Names, Querying
<1>4. CASE CountRows
  <2>1. PICK h \in pending : AddNumber(h) /\ pending' = pending \ {h}
    BY <1>4 DEF CountRows
  <2>2. SumSoFar(h) \in Nat /\ Number(h) \in Nat
    BY NumberType DEF SumSoFar
  <2>3. DOMAIN nbrCFSum' \subseteq Names /\ \A g \in DOMAIN nbrCFSum' : nbrCFSum'[g] \in Nat
    BY <2>1, <2>2 DEF AddNumber
  <2>4. QED
    BY <1>0, <1>4, <2>1, <2>3 DEF CountRows, ThreadStep, Sleep, Names, Querying
<1>5. CASE SelectRows
  BY <1>0, <1>5 DEF SelectRows, ThreadStep, Sleep, Names, Querying
<1>6. CASE QueryFails
  BY <1>6 DEF QueryFails, ThreadStep, Names, Querying
<1>7. CASE ThreadEnds
  BY <1>7 DEF ThreadEnds, ThreadStep, Names, Querying
<1>8. CASE TimerFires
  BY <1>8 DEF TimerFires, ThreadStep, Names, Querying
<1>9. CASE Wake
  <2>1. iteration + 1 \in Nat /\ iteration + 1 <= cf.iterations /\ Iterate(iteration + 1)
    BY <1>0, <1>9 DEF Wake
  <2>2. QED
    BY <1>9, <2>1, IterateType DEF Wake, ThreadStep, Names, Querying
<1>10. CASE Tick
  BY <1>10 DEF Tick, Names
<1>11. CASE JoinReturns
  BY <1>11 DEF JoinReturns, Names
<1>12. CASE JudgeHang
  BY <1>12 DEF JudgeHang, Names
<1>13. CASE JudgeNumbers
  BY <1>13 DEF JudgeNumbers, Names
<1>14. CASE JudgeDead
  BY <1>14 DEF JudgeDead, Names
<1>15. QED
  BY <1>1, <1>2, <1>3, <1>4, <1>5, <1>6, <1>7, <1>8, <1>9, <1>10, <1>11, <1>12, <1>13, <1>14
     DEF CheckNext, Queries, Scheduled, Tracker

\* pc takes its steps in order.
LEMMA PcStep ==
    ASSUME FInv, CheckNext
    PROVE  pc' \in {"join", "sample", "fine", "critical", "hang", "killed", "crashed"}
  BY DEF FInv, TypeOK, CheckNext, Queries, Scheduled, Tracker, CheckInput, InputError, ListHosts,
         CountRows, SelectRows, QueryFails, ThreadEnds, TimerFires, Wake, Tick, JoinReturns,
         JudgeHang, JudgeNumbers, JudgeDead, ThreadStep

\* A thread that goes on, from query to query or to sleep, takes no time for it.
LEMMA SleepKeepsTime ==
    ASSUME FInv, thread \in Querying, pc \in {"join", "sample"},
           UNCHANGED <<cf, pc, iteration, waited, busy>>,
           \/ thread' \in {"count", "select", "dead"}
           \/ thread' = "asleep" /\ cf.interval >= 0 /\ wake' = waited + cf.interval
    PROVE  Time'
<1>1. Slept' = Slept /\ Deadline' = Deadline
  BY DEF Slept, Deadline
<1>2. /\ Slept \in Int /\ cf.interval \in Int /\ waited \in Nat /\ busy \in Nat
      /\ waited = 1 + busy + Slept
      /\ waited = 0 \/ waited <= Deadline
  BY SettingFields, Products DEF FInv, TypeOK, CheckTypeOK, Time, Slept, Querying
<1>3. thread' = "asleep" => wake' = 1 + busy + Slept + cf.interval /\ waited <= wake'
  BY <1>2
<1>4. pc' \in {"sample", "hang"} /\ Alive' => waited >= Deadline
  BY DEF FInv, Time, Alive, Querying
<1>5. QED
  BY <1>1, <1>2, <1>3, <1>4 DEF Time, Querying

\* Time is spent on the delay, the queries and the intervals, and ends.
LEMMA TimeStep ==
    ASSUME FInv, CheckNext PROVE Time'
<1>. USE DEF FInv, TypeOK, CheckTypeOK, Flow, Time, threadVars, history, Slept, Deadline, Alive, Querying
<1>0. /\ cf.iterations \in Int /\ cf.interval \in Int /\ cf.timeout \in Int
      /\ iteration \in Nat
  BY SettingFields
<1>a. /\ 0 * cf.interval = 0 /\ Slept \in Int /\ Deadline \in Int
      /\ (iteration + 1) * cf.interval = Slept + cf.interval
  BY <1>0, Products
<1>1. CASE CheckInput
  <2>1. CASE NextInput = "none"
    <3>1. Iterate(0)
      BY <1>1, <2>1 DEF CheckInput
    <3>2. QED
      BY <1>a, <1>1, <3>1, IterateType DEF CheckInput, ThreadStep, Wanted
  <2>2. CASE NextInput # "none"
    BY <1>a, <1>1, <2>2 DEF CheckInput, NextInput, ThreadStep, Wanted
  <2>3. QED
    BY <2>1, <2>2
<1>2. CASE InputError
  BY <1>2 DEF InputError, ThreadStep
<1>3. CASE ListHosts
  BY <1>3, SleepKeepsTime DEF ListHosts, ThreadStep, Sleep, Judging
<1>4. CASE CountRows
  BY <1>4, SleepKeepsTime DEF CountRows, ThreadStep, Sleep, Judging
<1>5. CASE SelectRows
  BY <1>5, SleepKeepsTime DEF SelectRows, ThreadStep, Sleep, Judging
<1>6. CASE QueryFails
  BY <1>6 DEF QueryFails, ThreadStep, Judging
<1>7. CASE ThreadEnds
  BY <1>7 DEF ThreadEnds, ThreadStep, Judging
<1>8. CASE TimerFires
  BY <1>a, <1>8 DEF TimerFires, ThreadStep
<1>9. CASE Wake
  <2>1. iteration + 1 \in Nat /\ iteration + 1 <= cf.iterations /\ Iterate(iteration + 1)
    BY <1>0, <1>9 DEF Wake
  <2>2. waited = 1 + busy + (iteration + 1) * cf.interval
    <3>1. waited >= wake /\ waited <= wake /\ waited \in Nat /\ wake \in Nat
      BY <1>9 DEF Wake
    <3>2. wake = 1 + busy + Slept + cf.interval /\ busy \in Nat
      BY <1>9 DEF Wake
    <3>3. Slept \in Int /\ cf.interval \in Int
      BY <1>0, <1>a
    <3>. HIDE DEF FInv, TypeOK, CheckTypeOK, Flow, Time, Slept, Deadline
    <3>4. waited = 1 + busy + (Slept + cf.interval)
      BY <3>1, <3>2, <3>3
    <3>5. QED
      BY <1>a, <3>4
  <2>3. /\ iteration' = iteration + 1 /\ thread' \in {"hosts", "count", "returning"}
        /\ UNCHANGED <<cf, pc, waited, busy>> /\ pc \in {"join", "sample"} /\ Alive
    BY <1>9, <2>1, IterateType DEF Wake, ThreadStep, Judging
  <2>4. Slept' = (iteration + 1) * cf.interval
    BY <2>3
  <2>5. QED
    BY <2>2, <2>3, <2>4
<1>10. CASE Tick
  <2>1. /\ waited' = waited + 1 /\ waited' <= Deadline /\ pc' = "join"
        /\ UNCHANGED <<cf, pc, thread, wake, iteration>>
    BY <1>0, <1>a, <1>10 DEF Tick
  <2>2. thread \in Querying \cup {"returning"} => busy' = busy + 1
    BY <1>10 DEF Tick
  <2>3. thread \in {"delayed", "asleep"} => busy' = busy
    BY <1>10 DEF Tick
  <2>4. thread = "delayed" => waited' <= 1
    BY <1>10 DEF Tick, Due
  <2>5. thread = "asleep" => waited' <= wake
    BY <1>10 DEF Tick, Due
  <2>6. QED
    BY <1>0, <1>a, <2>1, <2>2, <2>3, <2>4, <2>5
<1>11. CASE JoinReturns
  BY <1>11 DEF JoinReturns
<1>12. CASE JudgeHang
  BY <1>12 DEF JudgeHang
<1>13. CASE JudgeNumbers
  BY <1>13 DEF JudgeNumbers
<1>14. CASE JudgeDead
  BY <1>14 DEF JudgeDead
<1>15. QED
  BY <1>1, <1>2, <1>3, <1>4, <1>5, <1>6, <1>7, <1>8, <1>9, <1>10, <1>11, <1>12, <1>13, <1>14
     DEF CheckNext, Queries, Scheduled, Tracker

\* The sessions of HANA, from absent to gone.
LEMMA RowStep ==
    ASSUME TypeOK, RowChanges
    PROVE  /\ row' \in [Sessions -> RowStates]
           /\ \A s \in Sessions : row[s] # "absent" => row'[s] # "absent"
           /\ \A s \in Sessions : row[s] = "gone" => row'[s] = "gone"
           /\ wrong' \subseteq wrong /\ right' \subseteq right
<1>1. wrong' \subseteq wrong /\ right' \subseteq right
  BY DEF RowChanges
<1>2. PICK s \in Sessions, r \in RowStates :
          row' = [row EXCEPT ![s] = r] /\ row[s] # "gone" /\ r # "absent"
  BY DEF RowChanges, RowStates, TypeOK, CheckTypeOK
<1>3. QED
  BY <1>1, <1>2 DEF TypeOK, CheckTypeOK

\* The steps of stop_session keep their variables typed, and the rows.
LEMMA StopStep ==
    ASSUME TypeOK, Stop!StopNext
    PROVE  /\ Stop!StopTypeOK'
           /\ row' \in [Sessions -> RowStates]
           /\ \A s \in Sessions : row[s] # "absent" => row'[s] # "absent"
           /\ \A s \in Sessions : row[s] = "gone" => row'[s] = "gone"
<1>. USE DEF TypeOK, CheckTypeOK, Stop!StopTypeOK, Stop!locals, Stop!Reports, RowStates
<1>1. CASE Stop!AskColumns BY <1>1 DEF Stop!AskColumns
<1>2. CASE Stop!ListSessions BY <1>2 DEF Stop!ListSessions, Stop!Matching
<1>3. CASE Stop!FindGone BY <1>3 DEF Stop!FindGone
<1>4. CASE Stop!FindConnected BY <1>4 DEF Stop!FindConnected
<1>5. CASE Stop!Disconnect BY <1>5 DEF Stop!Disconnect
<1>6. CASE Stop!Verify BY <1>6 DEF Stop!Verify, Stop!Log
<1>7. CASE Stop!Refused BY <1>7 DEF Stop!Refused, Stop!Log
<1>8. CASE Stop!StopFails BY <1>8 DEF Stop!StopFails
<1>9. CASE Stop!StopEnds BY <1>9 DEF Stop!StopEnds
<1>10. QED
  BY <1>1, <1>2, <1>3, <1>4, <1>5, <1>6, <1>7, <1>8, <1>9 DEF Stop!StopNext

\* Types, flow and time hold in every state.
LEMMA FInductive == Spec => []FInv
<1>1. Init => FInv
  <2>. SUFFICES ASSUME Init PROVE FInv
    OBVIOUS
  <2>1. cf \in Settings /\ cf.iterations \in Int /\ cf.interval \in Int /\ cf.timeout \in Int
    BY SettingFields DEF Init, CheckInit
  <2>2. Flow
    BY <2>1 DEF Init, CheckInit, Flow
  <2>3. Deadline \in Int
    BY <2>1, Products DEF Deadline
  <2>4. Time
    BY <2>3 DEF Init, CheckInit, Time, Querying
  <2>5. QED
    BY <2>2, <2>4, TypeInit DEF FInv
<1>2. FInv /\ [Next]_vars => FInv'
  <2>. SUFFICES ASSUME FInv, [Next]_vars PROVE FInv'
    OBVIOUS
  <2>. USE DEF FInv
  <2>1. CASE Rows
    <3>2. row' \in [Sessions -> RowStates] /\ wrong' \subseteq wrong /\ right' \subseteq right
      BY <2>1, RowStep DEF Rows
    <3>3. /\ UNCHANGED <<cf, pc, thread, iteration, pending, wake, nbrCFSum, waited, culprits, busy>>
          /\ UNCHANGED <<step, connIds, connId, report>>
          /\ lasting' \subseteq lasting
      BY <2>1 DEF Rows, RowChanges, threadVars, Stop!StopSees, Stop!locals
    <3>4. TypeOK'
      BY <3>2, <3>3 DEF TypeOK, CheckTypeOK, Stop!StopTypeOK, Names
    <3>5. QED
      BY <3>3, <3>4 DEF Flow, Time, Slept, Deadline, Alive
  <2>2. CASE Check
    <3>1. Stop!StopTypeOK'
      BY <2>2 DEF Check, stopVars, TypeOK, Stop!StopTypeOK
    <3>2. QED
      BY <2>2, <3>1, CheckStep, PcStep, TimeStep DEF Check, TypeOK
  <2>3. CASE RecordThenStop
    <3>1. Stop!StopTypeOK'
      BY <2>3 DEF RecordThenStop, Stop!StopCalled, Stop!locals, Stop!Matching, TypeOK, Stop!StopTypeOK
    <3>2. UNCHANGED checkVars
      BY <2>3 DEF RecordThenStop
    <3>3. QED
      BY <3>1, <3>2 DEF checkVars, threadVars, history, TypeOK, CheckTypeOK, Names, Flow, Time, Slept,
         Deadline, Alive
  <2>4. CASE Stopping
    <3>1. Stop!StopTypeOK' /\ row' \in [Sessions -> RowStates]
      BY <2>4, StopStep DEF Stopping
    <3>2. UNCHANGED <<cf, pc, threadVars, waited, culprits, history>>
      BY <2>4 DEF Stopping
    <3>3. QED
      BY <3>1, <3>2 DEF threadVars, history, TypeOK, CheckTypeOK, Names, Flow, Time, Slept, Deadline,
         Alive
  <2>5. CASE Done \/ UNCHANGED vars
    <3>1. UNCHANGED <<checkVars, step, connIds, connId, report, lasting>>
      BY <2>5 DEF Done, vars, stopVars
    <3>2. QED
      BY <3>1 DEF checkVars, threadVars, history, TypeOK, CheckTypeOK, Stop!StopTypeOK, Names, Flow,
         Time, Slept, Deadline, Alive
  <2>6. QED
    BY <2>1, <2>2, <2>3, <2>4, <2>5 DEF Next
<1>3. QED
  BY <1>1, <1>2, PTL DEF Spec

\* The variables of the check, of the recording and of stop_session have
\* their types in every state.
THEOREM FeatureTypeCorrect == Spec => []TypeOK
  BY FInductive, PTL DEF FInv

\* A feature check that is called hanging has kept HANA busy for the whole
\* timeout of every iteration, whatever the interval between them.
THEOREM HangSafety == Spec => []HangIsEarned
<1>1. FInv => HangIsEarned
  <2>. SUFFICES ASSUME FInv, pc = "hang", cf.interval >= 0, cf.iterations >= 0
                PROVE  busy + 1 >= cf.timeout * cf.iterations
    BY DEF HangIsEarned
  <2>. USE DEF FInv, TypeOK, CheckTypeOK, Flow, Time, Slept, Alive, Querying
  <2>1. /\ cf.iterations \in Nat /\ cf.interval \in Nat /\ cf.timeout \in Int
        /\ iteration \in Nat /\ iteration <= cf.iterations
    BY SettingFields
  <2>2. /\ Deadline = cf.timeout * cf.iterations + cf.iterations * cf.interval
        /\ cf.timeout * cf.iterations \in Int /\ cf.iterations * cf.interval \in Int
        /\ cf.iterations * cf.interval >= 0
        /\ iteration * cf.interval \in Int
        /\ (iteration + 1) * cf.interval = iteration * cf.interval + cf.interval
    BY <2>1, Products DEF Deadline
  <2>3. iteration * cf.interval <= cf.iterations * cf.interval
    BY <2>1, Products
  <2>4. waited >= Deadline
    OBVIOUS
  <2>5. CASE thread = "delayed"
    BY <2>1, <2>2, <2>4, <2>5
  <2>6. CASE thread = "asleep"
    <3>1. (iteration + 1) * cf.interval <= cf.iterations * cf.interval
      BY <2>1, <2>6, Products
    <3>2. QED
      BY <2>1, <2>2, <2>4, <2>6, <3>1
  <2>7. CASE thread \in Querying \cup {"returning"}
    BY <2>1, <2>2, <2>3, <2>4, <2>7
  <2>8. QED
    BY <2>5, <2>6, <2>7
<1>2. QED
  BY <1>1, FInductive, PTL

----------------------------------------------------------------------------
\* What stop_session knows of the sessions: those it has listed or is at have
\* been connected, those it reports as gone are gone, and one that has lasted
\* is listed, at hand, or reported as one that stays.
StopInv ==
    /\ \A s \in connIds : row[s] # "absent"
    /\ step \in {"disconnect", "verify"} => row[connId] # "absent"
    /\ \A s \in Sessions : report[s] \in {"already", "succeeded"} => row[s] = "gone"
    /\ \A s \in lasting : row[s] = "matching"
    /\ step \in {"next", "disconnect", "verify", "done"} /\ cf.idColumn =>
         \A s \in lasting : \/ report[s] \in {"still there", "by itself"}
                            \/ s \in connIds /\ step # "done"
                            \/ s = connId /\ step \in {"disconnect", "verify"}

LEMMA StopInvStep == TypeOK /\ StopInv /\ [Next]_vars => StopInv'
<1>. SUFFICES ASSUME TypeOK, StopInv, [Next]_vars PROVE StopInv'
  OBVIOUS
<1>. USE DEF StopInv
<1>t. /\ row \in [Sessions -> RowStates] /\ connIds \subseteq Sessions /\ connId \in Sessions
      /\ report \in [Sessions -> Stop!Reports] /\ lasting \subseteq Sessions
  BY DEF TypeOK, CheckTypeOK, Stop!StopTypeOK
<1>1. CASE Rows
  <2>1. /\ \A s \in Sessions : row[s] # "absent" => row'[s] # "absent"
        /\ \A s \in Sessions : row[s] = "gone" => row'[s] = "gone"
    BY <1>1, RowStep DEF Rows
  <2>2. /\ UNCHANGED <<cf, step, connIds, connId, report>>
        /\ lasting' = {s \in lasting : row'[s] = "matching"}
    BY <1>1 DEF Rows, RowChanges, Stop!StopSees, Stop!locals
  <2>3. QED
    BY <1>t, <2>1, <2>2
<1>2. CASE Check
  <2>1. UNCHANGED <<cf, row, stopVars>>
    BY <1>2 DEF Check, CheckNext, Queries, Scheduled, Tracker, CheckInput, InputError, ListHosts,
       CountRows, SelectRows, QueryFails, ThreadEnds, TimerFires, Wake, Tick, JoinReturns, JudgeHang,
       JudgeNumbers, JudgeDead, ThreadStep
  <2>2. QED
    BY <2>1 DEF stopVars
<1>3. CASE RecordThenStop
  BY <1>t, <1>3 DEF RecordThenStop, checkVars, Stop!StopCalled, Stop!locals, Stop!Matching
<1>4. CASE Stopping
  <2>0. cf' = cf
    BY <1>4 DEF Stopping
  <2>1. CASE Stop!AskColumns BY <1>t, <2>0, <2>1 DEF Stop!AskColumns, Stop!locals
  <2>2. CASE Stop!ListSessions
    <3>1. /\ connIds' = {s \in Sessions : row[s] = "matching"} /\ step' = "next"
          /\ UNCHANGED <<cf, row, connId, report, lasting>>
      BY <2>0, <2>2 DEF Stop!ListSessions, Stop!Matching
    <3>2. \A s \in lasting' : s \in connIds'
      BY <1>t, <3>1
    <3>3. QED
      BY <3>1, <3>2
  <2>3. CASE Stop!FindGone
    <3>1. PICK s \in connIds : /\ ~Stop!IsConnected(s) /\ connIds' = connIds \ {s}
                               /\ report' = [report EXCEPT ![s] = "already"]
      BY <2>3 DEF Stop!FindGone
    <3>2. row[s] = "gone" /\ step = "next"
      BY <1>t, <2>3, <3>1 DEF Stop!IsConnected, RowStates, Stop!FindGone
    <3>3. UNCHANGED <<cf, row, step, connId, lasting>>
      BY <2>0, <2>3 DEF Stop!FindGone
    <3>4. QED
      BY <1>t, <3>1, <3>2, <3>3
  <2>4. CASE Stop!FindConnected
    BY <1>t, <2>0, <2>4 DEF Stop!FindConnected
  <2>5. CASE Stop!Disconnect
    <3>1. /\ lasting' = {s \in lasting : row'[s] = "matching"} /\ step = "disconnect" /\ step' = "verify"
          /\ row' \in {row, [row EXCEPT ![connId] = "gone"]}
          /\ UNCHANGED <<cf, connIds, connId, report>>
      BY <2>0, <2>5 DEF Stop!Disconnect, Stop!locals
    <3>2. \A s \in Sessions : /\ row[s] # "absent" => row'[s] # "absent"
                              /\ row[s] = "gone" => row'[s] = "gone"
      BY <1>t, <3>1
    <3>3. \A s \in lasting' : s \in lasting /\ row'[s] = "matching"
      BY <3>1
    <3>4. /\ \A s \in connIds' : row'[s] # "absent"
          /\ row'[connId'] # "absent"
          /\ \A s \in Sessions : report'[s] \in {"already", "succeeded"} => row'[s] = "gone"
      BY <1>t, <3>1, <3>2
    <3>5. cf.idColumn => \A s \in lasting' : \/ report'[s] \in {"still there", "by itself"}
                                             \/ s \in connIds' \/ s = connId'
      BY <3>1, <3>3
    <3>6. QED
      BY <3>1, <3>3, <3>4, <3>5
  <2>6. CASE Stop!Verify
    <3>1. report' = [report EXCEPT ![connId] = IF Stop!IsConnected(connId) THEN "still there"
                                                ELSE "succeeded"]
      BY <2>6 DEF Stop!Verify, Stop!Log
    <3>2. ~Stop!IsConnected(connId) => row[connId] = "gone"
      BY <1>t, <2>6 DEF Stop!IsConnected, RowStates, Stop!Verify
    <3>3. row[connId] = "matching" => Stop!IsConnected(connId)
      BY DEF Stop!IsConnected
    <3>4. UNCHANGED <<cf, row, connIds, connId, lasting>> /\ step = "verify" /\ step' = "next"
      BY <2>0, <2>6 DEF Stop!Verify
    <3>5. \A s \in Sessions : s # connId => report'[s] = report[s]
      BY <1>t, <3>1
    <3>6. report'[connId] \in {"still there", "succeeded"}
      BY <1>t, <3>1
    <3>7. report'[connId] = "succeeded" => row[connId] = "gone"
      BY <1>t, <3>1, <3>2
    <3>8. connId \in lasting => report'[connId] = "still there"
      BY <1>t, <3>1, <3>3
    <3>9. \A s \in Sessions : report'[s] \in {"already", "succeeded"} => row[s] = "gone"
      BY <3>5, <3>6, <3>7
    <3>10. cf.idColumn => \A s \in lasting : \/ report'[s] \in {"still there", "by itself"}
                                             \/ s \in connIds
      BY <1>t, <3>4, <3>5, <3>8
    <3>11. QED
      BY <3>4, <3>9, <3>10
  <2>7. CASE Stop!Refused
    <3>1. /\ report' = [report EXCEPT ![connId] = "by itself"]
          /\ UNCHANGED <<cf, row, connIds, connId, lasting>>
          /\ step \in {"disconnect", "verify"} /\ step' = "next"
      BY <2>0, <2>7 DEF Stop!Refused, Stop!Log
    <3>2. report'[connId] = "by itself" /\ \A s \in Sessions : s # connId => report'[s] = report[s]
      BY <1>t, <3>1
    <3>3. \A s \in Sessions : report'[s] \in {"already", "succeeded"} => row[s] = "gone"
      BY <3>2
    <3>4. cf.idColumn => \A s \in lasting : \/ report'[s] \in {"still there", "by itself"}
                                            \/ s \in connIds
      BY <1>t, <3>1, <3>2
    <3>5. QED
      BY <3>1, <3>3, <3>4
  <2>8. CASE Stop!StopFails
    BY <1>t, <2>0, <2>8 DEF Stop!StopFails, Stop!locals
  <2>9. CASE Stop!StopEnds
    BY <1>t, <2>0, <2>9 DEF Stop!StopEnds, Stop!locals
  <2>10. QED
    BY <1>4, <2>1, <2>2, <2>3, <2>4, <2>5, <2>6, <2>7, <2>8, <2>9 DEF Stopping, Stop!StopNext
<1>5. CASE Done \/ UNCHANGED vars
  BY <1>5 DEF Done, vars, checkVars, stopVars
<1>6. QED
  BY <1>1, <1>2, <1>3, <1>4, <1>5 DEF Next

LEMMA StopInductive == Spec => []StopInv
<1>1. Init => StopInv
  BY DEF Init, Stop!StopInit, StopInv
<1>2. QED
  BY <1>1, StopInvStep, FInductive, PTL DEF Spec, FInv

\* A session that stop_session reports as disconnected after it has asked
\* M_CONNECTIONS (already, succeeded) is not connected.  Of the third such
\* report, which the except branch makes without asking, this says nothing.
THEOREM CheckedReportSafety == Spec => []CheckedReportsAreTrue
<1>1. StopInv => CheckedReportsAreTrue
  BY DEF StopInv, CheckedReportsAreTrue, Stop!CheckedReportsAreTrue, Stop!IsConnected
<1>2. QED
  BY <1>1, StopInductive, PTL

\* A session that matched as long as stop_session ran has been tried.
THEOREM NoneMissedSafety == Spec => []NoneIsMissed
<1>1. StopInv => NoneIsMissed
  BY DEF StopInv, NoneIsMissed, Stop!NoneIsMissed
<1>2. QED
  BY <1>1, StopInductive, PTL

----------------------------------------------------------------------------
(* The numbers.  A name is low when its number was at most Most all the     *)
(* time, and high when it was at least Least = Most + 1 all the time.       *)

Most == IF cf.minimum THEN cf.limit - 1 ELSE cf.limit
Least == Most + 1
Low == IF cf.minimum THEN wrong ELSE right
High == IF cf.minimum THEN right ELSE wrong

\* How often a name has been counted, if it was in sight each time.
Seen(h) ==
    IF (thread = "count" /\ h \notin pending) \/ thread \in {"select", "asleep"}
    THEN iteration + 1 ELSE iteration

\* The histories speak of the rows as they are.
Truth ==
    Judging => /\ \A h \in Low : Number(h) <= Most
               /\ \A h \in High : Number(h) >= Least

\* The sums lie within what the histories allow.
Sums ==
    /\ DOMAIN nbrCFSum # {} => cf.iterations >= 1
    /\ thread \in {"delayed", "view", "column", "hostColumn"} => DOMAIN nbrCFSum = {}
    /\ thread # "dead" =>
         /\ \A h \in Low \cap DOMAIN nbrCFSum : nbrCFSum[h] <= Most * Seen(h)
         /\ Least >= 1 => \A h \in High : Seen(h) >= 1 =>
                /\ h \in DOMAIN nbrCFSum
                /\ nbrCFSum[h] >= Least * Seen(h)

Verdict ==
    pc \in {"fine", "critical"} =>
        /\ thread = "finished"
        /\ culprits = {h \in DOMAIN nbrCFSum : Wrong(Average(h))}
        /\ pc = "critical" => culprits # {}

NInv == Truth /\ Sums /\ Verdict

LEMMA Times ==
    ASSUME NEW m \in Int, NEW k \in Nat
    PROVE  /\ m * 0 = 0 /\ m * k \in Int /\ m * (k + 1) = m * k + m
           /\ m >= 0 => m * k >= 0
  OBVIOUS

\* A name that was wrong is low for a minimum and high for a maximum.
LEMMA WrongIs ==
    ASSUME cf \in Settings, NEW n \in Int
    PROVE  /\ Most \in Int /\ Least \in Int
           /\ cf.minimum => (Wrong(n) <=> n <= Most)
           /\ ~cf.minimum => (Wrong(n) <=> n >= Least)
           /\ ~(n <= Most) <=> n >= Least
  BY SettingFields DEF Wrong, Most, Least

LEMMA SameNumber == ASSUME row' = row, NEW h PROVE Number(h)' = Number(h)
  BY DEF Number

\* A name with rows that match is in sight.
LEMMA InSight ==
    ASSUME NEW h \in Hosts, Number(h) >= 1
    PROVE  h \in {Home[s] : s \in {t \in Sessions : Connected(t)}}
<1>1. {s \in Sessions : row[s] = "matching" /\ (h = AnyHost \/ Home[s] = h)} # {}
  BY FS_EmptySet DEF Number
<1>2. PICK s \in Sessions : row[s] = "matching" /\ (h = AnyHost \/ Home[s] = h)
  BY <1>1
<1>3. Home[s] = h
  BY <1>2, FeatureAssumption
<1>4. QED
  BY <1>2, <1>3 DEF Connected

\* stop_session runs after an alarm only.
Called == step # "idle" => cf.kill /\ pc \in {"hang", "critical"}

LEMMA CalledStep == TypeOK /\ Called /\ [Next]_vars => Called'
<1>. SUFFICES ASSUME TypeOK, Called, [Next]_vars PROVE Called'
  OBVIOUS
<1>. USE DEF Called
<1>1. CASE Rows
  BY <1>1 DEF Rows, RowChanges, Stop!StopSees
<1>2. CASE Check
  <2>1. cf' = cf /\ step' = step /\ Judging
    BY <1>2 DEF Check, stopVars, CheckNext, Queries, Scheduled, Tracker, CheckInput, InputError,
       ListHosts, CountRows, SelectRows, QueryFails, ThreadEnds, TimerFires, Wake, Tick, JoinReturns,
       JudgeHang, JudgeNumbers, JudgeDead, ThreadStep, Judging
  <2>2. QED
    BY <2>1 DEF Judging
<1>3. CASE RecordThenStop
  BY <1>3 DEF RecordThenStop, checkVars
<1>4. CASE Stopping
  BY <1>4 DEF Stopping, Stop!StopNext, Stop!AskColumns, Stop!ListSessions, Stop!FindGone,
     Stop!FindConnected, Stop!Disconnect, Stop!Verify, Stop!Refused, Stop!StopFails, Stop!StopEnds
<1>5. CASE Done \/ UNCHANGED vars
  BY <1>5 DEF Done, vars, checkVars, stopVars
<1>6. QED
  BY <1>1, <1>2, <1>3, <1>4, <1>5 DEF Next

\* The histories stay true: they lose the names whose number turns.
LEMMA TruthStep == TypeOK /\ Called /\ Truth /\ [Next]_vars => Truth'
<1>. SUFFICES ASSUME TypeOK, Called, Truth, [Next]_vars, Judging' PROVE Truth'
  BY DEF Truth
<1>0. cf \in Settings /\ cf' = cf
  BY DEF TypeOK, CheckTypeOK, Next, Rows, RowChanges, Check, CheckNext, Queries, Scheduled, Tracker,
     CheckInput, InputError, ListHosts, CountRows, SelectRows, QueryFails, ThreadEnds, TimerFires,
     Wake, Tick, JoinReturns, JudgeHang, JudgeNumbers, JudgeDead, ThreadStep, RecordThenStop, Stopping,
     Done, vars, checkVars
<1>1. CASE Rows
  <2>1. /\ wrong' = {h \in wrong : Wrong(Number(h)')}
        /\ right' = {h \in right : ~Wrong(Number(h)')}
    BY <1>1 DEF Rows, RowChanges, Judging
  <2>2. \A h : Number(h)' \in Int
    BY NumberType
  <2>3. Most' = Most /\ Least' = Least
    BY <1>0 DEF Most, Least
  <2>4. CASE cf.minimum
    <3>1. Low' = wrong' /\ High' = right'
      BY <1>0, <2>4 DEF Low, High
    <3>2. QED
      BY <1>0, <2>1, <2>2, <2>3, <2>4, <3>1, WrongIs DEF Truth
  <2>5. CASE ~cf.minimum
    <3>1. Low' = right' /\ High' = wrong'
      BY <1>0, <2>5 DEF Low, High
    <3>2. QED
      BY <1>0, <2>1, <2>2, <2>3, <2>5, <3>1, WrongIs DEF Truth
  <2>6. QED
    BY <2>4, <2>5
<1>2. CASE UNCHANGED <<cf, row, wrong, right>> /\ Judging
  <2>1. Most' = Most /\ Least' = Least /\ Low' = Low /\ High' = High
    BY <1>2 DEF Most, Least, Low, High
  <2>2. \A h : Number(h)' = Number(h)
    BY <1>2, SameNumber
  <2>3. QED
    BY <1>2, <2>1, <2>2 DEF Truth
<1>3. CASE Check
  <2>1. UNCHANGED <<cf, row, wrong, right>> /\ Judging
    BY <1>3 DEF Check, CheckNext, Queries, Scheduled, Tracker, CheckInput, InputError, ListHosts,
       CountRows, SelectRows, QueryFails, ThreadEnds, TimerFires, Wake, Tick, JoinReturns, JudgeHang,
       JudgeNumbers, JudgeDead, ThreadStep, history, Judging
  <2>2. QED
    BY <1>2, <2>1
<1>4. CASE RecordThenStop \/ Done \/ UNCHANGED vars
  <2>1. UNCHANGED checkVars
    BY <1>4 DEF RecordThenStop, Done, vars
  <2>2. QED
    BY <1>2, <2>1 DEF checkVars, history, Judging
<1>5. CASE Stopping
  <2>1. step # "idle" /\ pc' = pc
    BY <1>5 DEF Stopping, Stop!StopNext, Stop!AskColumns, Stop!ListSessions, Stop!FindGone,
       Stop!FindConnected, Stop!Disconnect, Stop!Verify, Stop!Refused, Stop!StopFails, Stop!StopEnds
  <2>2. QED
    BY <2>1 DEF Called, Judging
<1>6. QED
  BY <1>1, <1>3, <1>4, <1>5 DEF Next

\* What every step of the check leaves alone.
LEMMA CheckFrame ==
    ASSUME CheckNext
    PROVE  UNCHANGED <<cf, row, wrong, right>> /\ Judging
  BY DEF CheckNext, Queries, Scheduled, Tracker, CheckInput, InputError, ListHosts, CountRows,
     SelectRows, QueryFails, ThreadEnds, TimerFires, Wake, Tick, JoinReturns, JudgeHang,
     JudgeNumbers, JudgeDead, ThreadStep, history, Judging

\* The sums grow by numbers that the histories bound.
LEMMA SumsStep == FInv /\ Truth /\ Sums /\ CheckNext => Sums'
<1>. SUFFICES ASSUME FInv, Truth, Sums, CheckNext PROVE Sums'
  OBVIOUS
<1>t. /\ cf \in Settings /\ iteration \in Nat /\ cf.iterations \in Int /\ cf.limit \in Int
      /\ DOMAIN nbrCFSum \subseteq Names /\ \A h \in DOMAIN nbrCFSum : nbrCFSum[h] \in Nat
      /\ Low \subseteq Names /\ High \subseteq Names /\ pending \subseteq Names
      /\ Most \in Int /\ Least \in Int /\ Least = Most + 1
      /\ cf.hostMode \in BOOLEAN /\ ~(cf.logs /\ cf.hostMode)
      /\ iteration = 0 \/ iteration <= cf.iterations
  BY SettingFields DEF FInv, TypeOK, CheckTypeOK, Low, High, Most, Least
<1>f. /\ UNCHANGED <<cf, row, wrong, right>> /\ Judging
      /\ Low' = Low /\ High' = High /\ Most' = Most /\ Least' = Least
  BY CheckFrame DEF Low, High, Most, Least
<1>n. /\ \A h \in Low : Number(h) <= Most
      /\ \A h \in High : Number(h) >= Least
      /\ \A h : Number(h) \in Nat
  BY <1>f, NumberType DEF Truth
<1>m. \A h \in Low : Most >= 0
  BY <1>n, <1>t
\* Steps after which each name has been seen as often as before.
<1>s. ASSUME nbrCFSum' = nbrCFSum, \A h \in Names : Seen(h)' = Seen(h), thread # "dead",
             thread' \in {"delayed", "view", "column", "hostColumn"} => DOMAIN nbrCFSum = {}
      PROVE  Sums'
  BY <1>t, <1>f, <1>s DEF Sums
<1>1. CASE CheckInput
  <2>1. iteration = 0 /\ thread \notin {"dead", "delayed", "count", "select", "asleep"} /\ DOMAIN nbrCFSum = {}
        /\ nbrCFSum' = nbrCFSum
    BY <1>1 DEF CheckInput, Wanted, FInv, Flow, Sums, ThreadStep
  <2>2. CASE NextInput = "none"
    <3>1. Iterate(0)
      BY <1>1, <2>2 DEF CheckInput
    <3>2. /\ iteration' = 0 /\ thread' \in {"hosts", "count", "returning"}
          /\ thread' = "count" => ~cf.hostMode
      BY <1>t, <3>1, IterateType
    <3>3. thread' = "count" => \A h \in Names : h \in pending'
      BY <1>t, <3>1, <3>2 DEF Iterate, Names
    <3>4. QED
      BY <1>s, <2>1, <3>2, <3>3 DEF Seen
  <2>3. CASE NextInput # "none"
    BY <1>s, <1>1, <2>1, <2>3 DEF CheckInput, NextInput, Seen
  <2>4. QED
    BY <2>2, <2>3
<1>2. CASE InputError
  BY <1>s, <1>2 DEF InputError, ThreadStep, threadVars, Seen, Sums, Wanted
<1>3. CASE ListHosts
  <2>1. /\ thread = "hosts" /\ UNCHANGED <<iteration, nbrCFSum>> /\ thread' \in {"asleep", "count", "dead"}
        /\ pending' = {Home[s] : s \in {t \in Sessions : Connected(t)}}
        /\ thread' \in {"asleep", "dead"} => pending' = {}
    BY <1>3 DEF ListHosts, Sleep
  <2>2. cf.hostMode /\ Names = Hosts
    BY <2>1 DEF FInv, Flow, Names
  <2>3. \A h \in Names : Seen(h) = iteration /\ Seen(h)' \in {iteration, iteration + 1}
    BY <2>1 DEF Seen
  <2>4. ASSUME NEW h \in Low \cap DOMAIN nbrCFSum
        PROVE  nbrCFSum[h] <= Most * Seen(h)'
    <3>1. /\ nbrCFSum[h] <= Most * iteration /\ nbrCFSum[h] \in Nat
          /\ Seen(h)' \in {iteration, iteration + 1} /\ Most >= 0
      BY <1>t, <1>m, <2>1, <2>3, <2>4 DEF Sums
    <3>2. Most * (iteration + 1) = Most * iteration + Most /\ Most * iteration \in Int
      BY <1>t, Times
    <3>3. QED
      BY <1>t, <3>1, <3>2
  <2>5. ASSUME NEW h \in High, Least >= 1, Seen(h)' >= 1
        PROVE  h \in DOMAIN nbrCFSum /\ nbrCFSum[h] >= Least * Seen(h)'
    <3>1. h \in pending' /\ pending' # {}
      BY <1>n, <1>t, <2>1, <2>2, <2>5, InSight
    <3>2. Seen(h)' = iteration
      BY <2>1, <3>1 DEF Seen
    <3>3. QED
      BY <2>1, <2>3, <2>5, <3>2, <1>t DEF Sums
  <2>6. QED
    BY <1>f, <2>1, <2>4, <2>5 DEF Sums
<1>4. CASE CountRows
  <2>1. PICK h0 \in pending : AddNumber(h0) /\ pending' = pending \ {h0}
    BY <1>4 DEF CountRows
  <2>2. /\ thread = "count" /\ UNCHANGED iteration
        /\ thread' \in {"count", "select", "asleep", "dead"}
        /\ thread' # "count" => pending' = {}
    BY <1>4 DEF CountRows, Sleep
  <2>3. /\ Seen(h0) = iteration
        /\ thread' # "dead" => Seen(h0)' = iteration + 1 /\ \A h \in Names \ {h0} : Seen(h)' = Seen(h)
    BY <2>1, <2>2 DEF Seen
  <2>4. /\ DOMAIN nbrCFSum' = DOMAIN nbrCFSum \cup {h0}
        /\ nbrCFSum'[h0] = SumSoFar(h0) + Number(h0)
        /\ \A h \in DOMAIN nbrCFSum \ {h0} : nbrCFSum'[h] = nbrCFSum[h]
    BY <2>1 DEF AddNumber
  <2>5. SumSoFar(h0) \in Nat /\ Number(h0) \in Nat
    BY <1>t, <1>n DEF SumSoFar
  <2>6. h0 \in Low => nbrCFSum'[h0] <= Most * (iteration + 1)
    <3>. SUFFICES ASSUME h0 \in Low PROVE nbrCFSum'[h0] <= Most * (iteration + 1)
      OBVIOUS
    <3>1. Most >= 0 /\ Number(h0) <= Most
      BY <1>n, <1>m
    <3>2. /\ Most * (iteration + 1) = Most * iteration + Most /\ Most * iteration \in Int
          /\ Most * iteration >= 0
      BY <1>t, <3>1, Times
    <3>3. SumSoFar(h0) <= Most * iteration
      BY <3>2, <2>2, <2>3 DEF SumSoFar, Sums
    <3>4. QED
      BY <1>t, <2>4, <2>5, <3>1, <3>2, <3>3
  <2>7. h0 \in High /\ Least >= 1 => nbrCFSum'[h0] >= Least * (iteration + 1)
    <3>. SUFFICES ASSUME h0 \in High, Least >= 1 PROVE nbrCFSum'[h0] >= Least * (iteration + 1)
      OBVIOUS
    <3>1. Number(h0) >= Least
      BY <1>n
    <3>2. Least * (iteration + 1) = Least * iteration + Least /\ Least * iteration \in Int
          /\ Least * 0 = 0
      BY <1>t, Times
    <3>3. SumSoFar(h0) >= Least * iteration
      <4>1. CASE iteration = 0
        BY <2>5, <3>2, <4>1
      <4>2. CASE iteration >= 1
        BY <2>2, <2>3, <4>2 DEF SumSoFar, Sums
      <4>3. QED
        BY <1>t, <4>1, <4>2
    <3>4. QED
      BY <1>t, <2>4, <2>5, <3>1, <3>2, <3>3
  <2>8. thread' # "dead" => \A h \in Low \cap DOMAIN nbrCFSum' : nbrCFSum'[h] <= Most * Seen(h)'
    BY <1>t, <2>2, <2>3, <2>4, <2>6 DEF Sums
  <2>9. thread' # "dead" /\ Least >= 1 => \A h \in High : Seen(h)' >= 1 =>
            h \in DOMAIN nbrCFSum' /\ nbrCFSum'[h] >= Least * Seen(h)'
    BY <1>t, <2>2, <2>3, <2>4, <2>7 DEF Sums
  <2>10. cf.iterations >= 1
    BY <1>t, <2>2 DEF FInv, Flow
  <2>11. QED
    BY <1>f, <2>2, <2>8, <2>9, <2>10 DEF Sums
<1>5. CASE SelectRows
  <2>1. /\ thread = "select" /\ UNCHANGED <<iteration, pending, nbrCFSum>>
        /\ thread' \in {"asleep", "dead"}
    BY <1>5 DEF SelectRows, Sleep
  <2>2. CASE thread' = "asleep"
    BY <1>s, <2>1, <2>2 DEF Seen
  <2>3. CASE thread' = "dead"
    BY <1>f, <2>1, <2>3 DEF Sums
  <2>4. QED
    BY <2>1, <2>2, <2>3
<1>6. CASE QueryFails
  <2>1. thread \in Querying /\ thread' = "dead" /\ nbrCFSum' = nbrCFSum
    BY <1>6 DEF QueryFails
  <2>2. QED
    BY <1>f, <2>1 DEF Sums, Querying
<1>7. CASE ThreadEnds
  BY <1>s, <1>7 DEF ThreadEnds, Seen, Sums
<1>8. CASE TimerFires
  BY <1>s, <1>8 DEF TimerFires, Seen, Sums
<1>9. CASE Wake
  <2>1. iteration + 1 \in Nat /\ iteration + 1 <= cf.iterations /\ Iterate(iteration + 1) /\ thread = "asleep"
        /\ nbrCFSum' = nbrCFSum
    BY <1>t, <1>9 DEF Wake, FInv, Flow
  <2>2. /\ iteration' = iteration + 1 /\ thread' \in {"hosts", "count", "returning"}
        /\ thread' = "count" => ~cf.hostMode
    BY <1>t, <2>1, IterateType
  <2>3. thread' = "count" => \A h \in Names : h \in pending'
    BY <1>t, <2>1, <2>2 DEF Iterate, Names
  <2>4. \A h \in Names : Seen(h)' = Seen(h)
    BY <2>1, <2>2, <2>3 DEF Seen
  <2>5. QED
    BY <1>s, <2>1, <2>2, <2>4 DEF Sums
<1>10. CASE Tick \/ JoinReturns \/ JudgeHang \/ JudgeDead
  <2>1. UNCHANGED threadVars
    BY <1>10 DEF Tick, JoinReturns, JudgeHang, JudgeDead
  <2>2. QED
    BY <1>f, <2>1 DEF Sums, Seen, threadVars
<1>11. CASE JudgeNumbers
  BY <1>f, <1>11 DEF JudgeNumbers, Sums, Seen, threadVars
<1>12. QED
  BY <1>1, <1>2, <1>3, <1>4, <1>5, <1>6, <1>7, <1>8, <1>9, <1>10, <1>11
     DEF CheckNext, Queries, Scheduled, Tracker

\* An average lies where the sum lies.
LEMMA AverageBounds ==
    ASSUME NEW a \in Nat, NEW n \in Nat, n >= 1, NEW m \in Int
    PROVE  /\ a \div n \in Nat
           /\ a <= m * n => a \div n <= m
           /\ a >= m * n => a \div n >= m
<1>. DEFINE q == a \div n
<1>1. q \in Nat /\ q * n <= a /\ a < q * n + n
  OBVIOUS
<1>. HIDE DEF q
<1>2. ASSUME a <= m * n, ~(q <= m) PROVE FALSE
  <2>1. (m + 1) * n <= q * n
    <3>1. q - (m + 1) \in Nat
      BY <1>1, <1>2
    <3>2. (q - (m + 1)) * n >= 0 /\ (q - (m + 1)) * n = q * n - (m + 1) * n
      BY <1>1, <3>1
    <3>3. QED
      BY <1>1, <3>2
  <2>2. q * n <= m * n
    BY <1>1, <1>2
  <2>3. (m + 1) * n = m * n + n
    OBVIOUS
  <2>4. QED
    BY <1>1, <2>1, <2>2, <2>3
<1>3. ASSUME a >= m * n, ~(q >= m) PROVE FALSE
  <2>1. (q + 1) * n <= m * n
    <3>1. m - (q + 1) \in Nat
      BY <1>1, <1>3
    <3>2. (m - (q + 1)) * n >= 0 /\ (m - (q + 1)) * n = m * n - (q + 1) * n
      BY <1>1, <3>1
    <3>3. QED
      BY <1>1, <3>2
  <2>2. (q + 1) * n = q * n + n
    BY <1>1
  <2>3. QED
    BY <1>1, <1>3, <2>1, <2>2
<1>4. a \div n \in Nat /\ (a <= m * n => a \div n <= m) /\ (a >= m * n => a \div n >= m)
  BY <1>1, <1>2, <1>3 DEF q
<1>5. QED
  BY <1>4

LEMMA VerdictStep == TypeOK /\ Verdict /\ [Next]_vars => Verdict'
<1>. SUFFICES ASSUME TypeOK, Verdict, [Next]_vars PROVE Verdict'
  OBVIOUS
<1>1. CASE Check
  <2>1. CASE JudgeNumbers
    BY <2>1 DEF JudgeNumbers, Verdict, threadVars, Wrong, Average
  <2>2. CASE ~JudgeNumbers
    <3>1. pc' \notin {"fine", "critical"}
      BY <1>1, <2>2 DEF Check, CheckNext, Queries, Scheduled, Tracker, CheckInput, InputError, ListHosts,
         CountRows, SelectRows, QueryFails, ThreadEnds, TimerFires, Wake, Tick, JoinReturns, JudgeHang,
         JudgeDead, ThreadStep, Judging
    <3>2. QED
      BY <3>1 DEF Verdict
  <2>3. QED
    BY <2>1, <2>2
<1>2. CASE UNCHANGED <<cf, pc, thread, iteration, nbrCFSum, culprits>>
  BY <1>2 DEF Verdict, Wrong, Average
<1>3. CASE Rows
  BY <1>2, <1>3 DEF Rows, RowChanges, threadVars
<1>4. CASE RecordThenStop \/ Stopping \/ Done \/ UNCHANGED vars
  BY <1>2, <1>4 DEF RecordThenStop, Stopping, Done, vars, checkVars, threadVars
<1>5. QED
  BY <1>1, <1>3, <1>4 DEF Next

\* What the check does not do leaves the sums alone.
LEMMA SumsKept ==
    ASSUME Sums, UNCHANGED <<cf, threadVars>>, wrong' \subseteq wrong, right' \subseteq right
    PROVE  Sums'
<1>1. Low' \subseteq Low /\ High' \subseteq High /\ Most' = Most /\ Least' = Least
  BY DEF Low, High, Most, Least
<1>2. \A h : Seen(h)' = Seen(h)
  BY DEF Seen, threadVars
<1>3. UNCHANGED <<cf, thread, nbrCFSum>>
  BY DEF threadVars
<1>4. QED
  BY <1>1, <1>2, <1>3 DEF Sums

LEMMA NInductive == Spec => [](FInv /\ Called /\ NInv)
<1>1. Init => Called /\ NInv
  <2>. SUFFICES ASSUME Init PROVE Called /\ NInv
    OBVIOUS
  <2>0. cf \in Settings
    BY DEF Init, CheckInit
  <2>1. \A h : Number(h) \in Int
    BY NumberType
  <2>2. /\ wrong = {h \in Names : Wrong(Number(h))} /\ right = Names \ wrong
    BY DEF Init, CheckInit
  <2>3. Truth
    BY <2>0, <2>1, <2>2, WrongIs DEF Truth, Low, High
  <2>4. DOMAIN nbrCFSum = {} /\ thread = "delayed" /\ iteration = 0 /\ pc = "join"
    BY DEF Init, CheckInit
  <2>5. Sums
    BY <2>4 DEF Sums, Seen
  <2>6. QED
    BY <2>3, <2>4, <2>5 DEF Verdict, Called, NInv, Init, Stop!StopInit
<1>2. FInv /\ FInv' /\ Called /\ NInv /\ [Next]_vars => Called' /\ NInv'
  <2>. SUFFICES ASSUME FInv, Called, NInv, [Next]_vars PROVE Called' /\ NInv'
    OBVIOUS
  <2>1. Called' /\ Truth' /\ Verdict'
    BY CalledStep, TruthStep, VerdictStep DEF FInv, NInv
  <2>2. Sums'
    <3>1. CASE Check
      BY <3>1, SumsStep DEF Check, NInv
    <3>2. CASE Rows
      <4>1. wrong' \subseteq wrong /\ right' \subseteq right /\ UNCHANGED <<cf, threadVars>>
        BY <3>2, RowStep DEF Rows, RowChanges, FInv
      <4>2. QED
        BY <4>1, SumsKept DEF NInv
    <3>3. CASE RecordThenStop \/ Stopping \/ Done \/ UNCHANGED vars
      <4>1. UNCHANGED <<cf, threadVars, wrong, right>>
        BY <3>3 DEF RecordThenStop, Stopping, Done, vars, checkVars, history
      <4>2. QED
        BY <4>1, SumsKept DEF NInv
    <3>4. QED
      BY <3>1, <3>2, <3>3 DEF Next
  <2>3. QED
    BY <2>1, <2>2 DEF NInv
<1>3. QED
  BY <1>1, <1>2, FInductive, PTL DEF Spec

\* The alarm tells what the numbers were: for every limit, number of
\* iterations and history of the rows, a name whose number was wrong at every
\* moment of the check is a culprit, one whose number never was is not.
THEOREM VerdictSafety == Spec => []VerdictIsJustified
<1>1. FInv /\ NInv => VerdictIsJustified
  <2>. SUFFICES ASSUME FInv, NInv, pc \in {"fine", "critical"}, cf.iterations > 0
                PROVE  /\ culprits \cap right = {}
                       /\ \A h \in wrong : (~cf.minimum /\ cf.limit >= 0) \/ h \in DOMAIN nbrCFSum
                                             => h \in culprits
    BY DEF VerdictIsJustified
  <2>0. /\ cf \in Settings /\ cf.iterations \in Nat /\ cf.limit \in Int
        /\ \A h \in DOMAIN nbrCFSum : nbrCFSum[h] \in Nat
    BY SettingFields DEF FInv, TypeOK, CheckTypeOK
  <2>1. /\ thread = "finished" /\ iteration = cf.iterations /\ cf.iterations >= 1
        /\ culprits = {h \in DOMAIN nbrCFSum : Wrong(Average(h))}
    BY <2>0 DEF FInv, Flow, NInv, Verdict
  <2>2. \A h : Seen(h) = cf.iterations
    BY <2>1 DEF Seen
  <2>3. Most \in Int /\ Least \in Int /\ Least = Most + 1
    BY <2>0 DEF Most, Least
  <2>4. \A h \in DOMAIN nbrCFSum : Average(h) \in Nat
    BY <2>0, <2>1, AverageBounds DEF Average
  <2>5. ASSUME NEW h \in Low, h \in DOMAIN nbrCFSum PROVE Average(h) <= Most
    <3>1. nbrCFSum[h] <= Most * cf.iterations
      BY <2>1, <2>2, <2>5 DEF NInv, Sums
    <3>2. QED
      BY <2>0, <2>1, <2>3, <2>5, <3>1, AverageBounds DEF Average
  <2>6. ASSUME NEW h \in High, Least >= 1 \/ h \in DOMAIN nbrCFSum
        PROVE  h \in DOMAIN nbrCFSum /\ Average(h) >= Least
    <3>1. CASE Least >= 1
      <4>1. h \in DOMAIN nbrCFSum /\ nbrCFSum[h] >= Least * cf.iterations
        BY <2>1, <2>2, <2>6, <3>1 DEF NInv, Sums
      <4>2. QED
        BY <2>0, <2>1, <2>3, <4>1, AverageBounds DEF Average
    <3>2. CASE ~(Least >= 1)
      BY <2>3, <2>4, <2>6, <3>2
    <3>3. QED
      BY <3>1, <3>2
  <2>7. \A h \in DOMAIN nbrCFSum : /\ Average(h) <= Most => ~(Average(h) >= Least)
                                   /\ Average(h) \in Int
    BY <2>3, <2>4
  <2>8. CASE cf.minimum
    <3>1. Low = wrong /\ High = right
      BY <2>8 DEF Low, High
    <3>2. \A h \in DOMAIN nbrCFSum : Wrong(Average(h)) <=> Average(h) <= Most
      BY <2>0, <2>7, <2>8, WrongIs
    <3>3. QED
      BY <2>1, <2>5, <2>6, <2>7, <2>8, <3>1, <3>2
  <2>9. CASE ~cf.minimum
    <3>1. Low = right /\ High = wrong
      BY <2>9 DEF Low, High
    <3>2. \A h \in DOMAIN nbrCFSum : Wrong(Average(h)) <=> Average(h) >= Least
      BY <2>0, <2>7, <2>9, WrongIs
    <3>3. cf.limit >= 0 => Least >= 1
      BY <2>0, <2>9 DEF Least, Most
    <3>4. QED
      BY <2>1, <2>5, <2>6, <2>7, <2>9, <3>1, <3>2, <3>3
  <2>10. QED
    BY <2>8, <2>9
<1>2. QED
  BY <1>1, NInductive, PTL

\* Sessions are stopped after a hang, or for numbers that were wrong at some
\* moment, and if -ks asks for it.
THEOREM StopEarnedSafety == Spec => []StopIsEarned
<1>1. FInv /\ Called /\ NInv /\ VerdictIsJustified => StopIsEarned
  <2>. SUFFICES ASSUME FInv, Called, NInv, VerdictIsJustified, step # "idle", pc = "critical"
                PROVE  right # Names
    BY DEF StopIsEarned, Called
  <2>1. culprits # {} /\ culprits \subseteq Names /\ culprits \subseteq DOMAIN nbrCFSum
    BY DEF NInv, Verdict, FInv, TypeOK, CheckTypeOK
  <2>2. cf.iterations >= 1 /\ cf.iterations \in Int
    BY <2>1, SettingFields DEF NInv, Sums, FInv, TypeOK, CheckTypeOK
  <2>3. culprits \cap right = {}
    BY <2>2 DEF VerdictIsJustified
  <2>4. QED
    BY <2>1, <2>3
<1>2. QED
  BY <1>1, NInductive, VerdictSafety, PTL

----------------------------------------------------------------------------
(* The contract with the tracker. *)

\* A step that leaves all this alone leaves the contract's variables alone.
LEMMA ContractFrame ==
    ASSUME UNCHANGED <<cf, pc, thread, nbrCFSum>>
    PROVE  UNCHANGED Contract!vars
<1>1. UNCHANGED <<Names, checkBar, verdictBar>>
  BY DEF Names, checkBar, verdictBar, Judging
<1>2. UNCHANGED resultBar
  BY DEF resultBar, Wrong, Average
<1>3. QED
  BY <1>1, <1>2 DEF Contract!vars

\* While the thread has not returned there is no result.
LEMMA ThreadFrame ==
    ASSUME ThreadStep, UNCHANGED pc
    PROVE  /\ verdictBar = "none" /\ verdictBar' = "none" /\ UNCHANGED Names
           /\ thread # "finished" => resultBar = {}
           /\ thread' # "finished" => resultBar' = {}
  BY DEF ThreadStep, verdictBar, Judging, Names, resultBar

\* The steps of feature_check are those the contract allows its thread.
LEMMA ThreadKeepsContract ==
    ASSUME TypeOK, Queries \/ ThreadEnds \/ Scheduled
    PROVE  [Contract!Next]_Contract!vars
<1>1. CASE InputError
  <2>1. /\ verdictBar = "none" /\ verdictBar' = "killed" /\ checkBar = "checking"
        /\ UNCHANGED <<Names, checkBar>>
    BY <1>1 DEF InputError, ThreadStep, Judging, verdictBar, checkBar, threadVars, Wanted, Names
  <2>2. UNCHANGED resultBar
    BY <1>1 DEF InputError, ThreadStep, threadVars, resultBar, Wrong, Average
  <2>3. QED
    BY <2>1, <2>2 DEF Contract!Next, Contract!Aborts
<1>2. CASE ThreadEnds
  <2>1. /\ checkBar = "querying" /\ checkBar' = "finished" /\ resultBar = {}
        /\ verdictBar = "none" /\ UNCHANGED <<Names, verdictBar>>
    BY <1>2, ThreadFrame DEF ThreadEnds, checkBar
  <2>2. resultBar' \subseteq DOMAIN nbrCFSum /\ DOMAIN nbrCFSum \subseteq Names
    BY <1>2 DEF ThreadEnds, resultBar, TypeOK, CheckTypeOK
  <2>3. Contract!Returns
    BY <2>1, <2>2 DEF Contract!Returns, Contract!Thread, Contract!Busy
  <2>4. QED
    BY <2>3 DEF Contract!Next
<1>3. CASE QueryFails
  <2>1. /\ checkBar \in Contract!Busy /\ checkBar' = "died" /\ UNCHANGED resultBar
        /\ verdictBar = "none" /\ UNCHANGED <<Names, verdictBar>>
    BY <1>3, ThreadFrame DEF QueryFails, checkBar, Querying, Contract!Busy
  <2>2. Contract!Dies
    BY <2>1 DEF Contract!Dies, Contract!Thread
  <2>3. QED
    BY <2>2 DEF Contract!Next
<1>4. CASE CheckInput
  <2>1. /\ checkBar = "checking" /\ checkBar' \in {"checking", "querying"} /\ UNCHANGED resultBar
        /\ verdictBar = "none" /\ UNCHANGED <<Names, verdictBar>>
    <3>1. thread \in {"view", "column", "hostColumn"}
      BY <1>4 DEF CheckInput, Wanted
    <3>2. thread' \in {"column", "hostColumn", "hosts", "count", "returning"}
      BY <1>4 DEF CheckInput, NextInput, Iterate
    <3>3. QED
      BY <1>4, <3>1, <3>2, ThreadFrame DEF CheckInput, checkBar
  <2>2. checkBar' = "querying" => Contract!InputIsRight
    BY <2>1 DEF Contract!InputIsRight, Contract!Thread, Contract!Busy
  <2>3. QED
    BY <2>1, <2>2 DEF Contract!Next, Contract!vars
<1>5. CASE ListHosts \/ CountRows \/ SelectRows \/ Scheduled
  <2>1. ThreadStep /\ UNCHANGED pc
    BY <1>5 DEF ListHosts, CountRows, SelectRows, Scheduled, TimerFires, Wake
  <2>2. thread # "finished" /\ thread' # "finished" /\ thread # "dead"
    BY <1>5 DEF ListHosts, CountRows, SelectRows, Scheduled, TimerFires, Wake, Sleep, Iterate
  <2>3. CASE thread' = "dead"
    <3>1. checkBar = "querying" /\ checkBar' = "died"
      BY <1>5, <2>3 DEF ListHosts, CountRows, SelectRows, Scheduled, TimerFires, Wake, Iterate, checkBar
    <3>2. Contract!Dies
      BY <2>1, <2>2, <3>1, ThreadFrame DEF Contract!Dies, Contract!Thread, Contract!Busy
    <3>3. QED
      BY <3>2 DEF Contract!Next
  <2>4. CASE thread' # "dead"
    <3>1. UNCHANGED checkBar
      BY <1>5, <2>4 DEF ListHosts, CountRows, SelectRows, Scheduled, TimerFires, Wake, Sleep, Iterate,
         checkBar
    <3>2. QED
      BY <2>1, <2>2, <3>1, ThreadFrame DEF Contract!vars
  <2>5. QED
    BY <2>3, <2>4
<1>6. QED
  BY <1>1, <1>2, <1>3, <1>4, <1>5 DEF Queries

\* The verdict of tracker() is one the contract allows.
LEMMA TrackerKeepsContract ==
    ASSUME TypeOK, Tick \/ Tracker
    PROVE  [Contract!Next]_Contract!vars
<1>0. UNCHANGED <<cf, thread, nbrCFSum>>
  BY DEF Tick, Tracker, JoinReturns, JudgeHang, JudgeNumbers, JudgeDead, threadVars
<1>1. UNCHANGED <<Names, checkBar, resultBar>>
  BY <1>0 DEF Names, checkBar, resultBar, Wrong, Average
<1>2. CASE Tick \/ JoinReturns
  BY <1>1, <1>2 DEF Tick, JoinReturns, verdictBar, Judging, Contract!vars
<1>3. CASE JudgeHang \/ JudgeNumbers \/ JudgeDead
  <2>1. verdictBar = "none" /\ verdictBar' = pc' /\ pc' \in Contract!Verdicts
    BY <1>3 DEF JudgeHang, JudgeNumbers, JudgeDead, verdictBar, Judging, Contract!Verdicts
  <2>2. Contract!Allowed(pc')
    <3>1. CASE JudgeHang
      BY <3>1 DEF JudgeHang, Alive, Querying, checkBar, Contract!Allowed, Contract!Busy
    <3>2. CASE JudgeNumbers
      BY <3>2 DEF JudgeNumbers, checkBar, resultBar, Contract!Allowed
    <3>3. CASE JudgeDead
      BY <3>3 DEF JudgeDead, checkBar, Contract!Allowed
    <3>4. QED
      BY <1>3, <3>1, <3>2, <3>3
  <2>3. Contract!Decide
    BY <1>1, <2>1, <2>2 DEF Contract!Decide
  <2>4. QED
    BY <2>3 DEF Contract!Next
<1>4. QED
  BY <1>2, <1>3 DEF Tracker

\* feature_check in its thread, and the verdict on it, implement FeatureContract
\* while sessions come and go and are disconnected: HanaSitter may take a check
\* for the contract's few steps (hanasitter.py:799-825).
THEOREM CheckContractKept == Spec => CheckKeepsContract
<1>1. Init => Contract!Init
  BY DEF Init, CheckInit, Contract!Init, checkBar, resultBar, verdictBar, Judging
<1>2. TypeOK /\ [Next]_vars => [Contract!Next]_Contract!vars
  <2>. SUFFICES ASSUME TypeOK, [Next]_vars PROVE [Contract!Next]_Contract!vars
    OBVIOUS
  <2>1. CASE Check
    BY <2>1, ThreadKeepsContract, TrackerKeepsContract DEF Check, CheckNext
  <2>2. CASE Rows \/ RecordThenStop \/ Stopping \/ Done \/ UNCHANGED vars
    <3>1. UNCHANGED <<cf, pc, thread, nbrCFSum>>
      BY <2>2 DEF Rows, RowChanges, RecordThenStop, Stopping, Done, vars, checkVars, threadVars
    <3>2. QED
      BY <3>1, ContractFrame
  <2>3. QED
    BY <2>1, <2>2 DEF Next
<1>3. QED
  BY <1>1, <1>2, FeatureTypeCorrect, PTL DEF Spec, CheckKeepsContract, Contract!Spec
=============================================================================
