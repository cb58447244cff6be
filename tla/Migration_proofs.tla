-------------------------- MODULE Migration_proofs --------------------------
(***************************************************************************)
(* The migration for any sessions, tables and parts: MIG_COUNT adds up,    *)
(* the log of a table loaded in one part is true, the tables that belong   *)
(* to one session are complete, and the locks cannot end in a deadlock.    *)
(***************************************************************************)
EXTENDS Migration, FiniteSetTheorems, TLAPS

\* What the sessions' variables are; the log's count needs the cardinalities.
SessionType ==
    /\ phase \in [Instances -> Scripts \cup {"done", "closed"}]
    /\ todo \in [Instances -> SUBSET (Parts \cup Tables)]
    /\ doing \in [Instances -> {"nothing"} \cup Inserting \cup {"indexing", "keying", "altering"}]
    /\ work \in [Instances -> Parts \cup Tables \cup {Nothing}]

RestType ==
    /\ result \in [Tables -> Results] /\ indexResult \in [Tables -> Results]
    /\ loaded \subseteq Chosen /\ failed \subseteq Chosen
    /\ indexed \subseteq Tables /\ keyed \subseteq Tables
    /\ spoiled \subseteq Tables /\ started \subseteq Tables
    /\ held \in [Instances -> SUBSET Locks] /\ pending \in [Instances -> SUBSET Chosen]

\* The script each statement belongs to.
ScriptOf(d) == IF d \in Inserting THEN "insert"
               ELSE IF d = "indexing" THEN "index" ELSE IF d = "keying" THEN "key" ELSE "alter"

\* A session works on what its cursor gives it, on each row once.
Located ==
    \A i \in Instances :
        /\ todo[i] \subseteq Cursor(i, phase[i])
        /\ doing[i] # "nothing" =>
            /\ phase[i] = ScriptOf(doing[i])
            /\ work[i] \in Cursor(i, phase[i])
            /\ work[i] \notin todo[i]

\* What a session's transaction holds follows from its statement: the log's
\* lock only between an UPDATE and its COMMIT, the table's from the load on,
\* neither while it waits for the table.
Transactions ==
    \A i \in Instances :
        /\ pending[i] = IF doing[i] \in {"counting", "counted"} THEN {work[i]} ELSE {}
        /\ \A t \in Tables :
            /\ <<"table", t>> \in held[i] =>
                doing[i] \in {"loading", "counting", "counted"} /\ t = Table(i)
            /\ <<"log", t>> \in held[i] =>
                doing[i] \in {"started", "counted", "failed"} /\ t = Table(i)

SInv == SessionType /\ RestType /\ Located /\ Transactions

LEMMA CursorType ==
    ASSUME NEW i \in Instances
    PROVE  /\ Cursor(i, "insert") = {p \in Chosen : InstanceOf[p] = i}
           /\ Cursor(i, "insert") \subseteq Parts
           /\ \A x \in {"index", "key"} :
                Cursor(i, x) = {TableOf[p] : p \in {q \in Chosen : InstanceOf[q] = i}}
           /\ \A x \in {"index", "key", "alter"} :
                /\ Cursor(i, x) \subseteq Tables
                /\ \A t \in Cursor(i, x) : \E p \in Parts : InstanceOf[p] = i /\ TableOf[p] = t
           /\ Cursor(i, "done") = {} /\ Cursor(i, "closed") = {}
  BY MigrationAssumption DEF Cursor

\* The steps by what they do to the session that takes them.
Begins(i) == StartLoad(i) \/ StartIndex(i) \/ StartKey(i) \/ StartAlter(i)
Skips(i) == IndexRefused(i) \/ KeyRefused(i)
Goings(i) == \/ LogStart(i) \/ CommitStart(i) \/ Load(i) \/ LoadEnds(i) \/ LogCount(i)
             \/ LoadFails(i) \/ LogFailure(i)
Ends(i) == \/ CommitLoad(i) \/ CommitFailure(i) \/ CreateIndex(i) \/ IndexFails(i)
           \/ AddKey(i) \/ KeyFails(i) \/ Alter(i)
Quits(i) == AlterRaises(i) \/ Dies(i)

LEMMA Kinds ==
    ASSUME NEW i \in Instances, Step(i) \/ Fails(i)
    PROVE  NextScript(i) \/ Goings(i) \/ Begins(i) \/ Skips(i) \/ Ends(i) \/ Quits(i)
  BY DEF Step, Fails, Begins, Goings, Skips, Ends, Quits

LEMMA SessionInit == Init => SInv
<1>1. Init => SessionType
  BY CursorType, MigrationAssumption DEF Init, SessionType, Scripts
<1>2. Init => RestType
  BY DEF Init, RestType, Results
<1>3. Init => Located /\ Transactions
  BY DEF Init, Located, Transactions
<1>4. QED
  BY <1>1, <1>2, <1>3 DEF SInv

\* What a session does to its own script, cursor and statement.
LEMMA BeginStep ==
    ASSUME SInv, NEW i \in Instances, Begins(i)
    PROVE  \E x \in todo[i], d \in {"starting", "indexing", "keying", "altering"} :
               /\ doing[i] = "nothing" /\ phase[i] = ScriptOf(d)
               /\ Begin(i, x, d)
  BY DEF Begins, StartLoad, StartIndex, StartKey, StartAlter, Idle, ScriptOf, Inserting

LEMMA GoStep ==
    ASSUME NEW i \in Instances, Goings(i)
    PROVE  \E d \in Inserting : doing[i] \in Inserting /\ Goes(i, d)
  BY DEF Goings, LogStart, CommitStart, Load, LoadEnds, LogCount, LoadFails, LogFailure, Inserting

LEMMA SessionStep ==
    ASSUME SInv, NEW i \in Instances, Step(i) \/ Fails(i)
    PROVE  SessionType' /\ Located'
<1>. USE DEF SInv, SessionType, Located
<1>1. CASE NextScript(i)
  <2>1. phase[i] \in Scripts /\ doing[i] = "nothing"
    BY <1>1 DEF NextScript, Idle
  <2>2. /\ Following[phase[i]] \in Scripts \cup {"done"}
        /\ Cursor(i, Following[phase[i]]) \subseteq Parts \cup Tables
    BY <2>1, CursorType DEF Following, Scripts
  <2>3. SessionType'
    BY <1>1, <2>1, <2>2 DEF NextScript
  <2>4. Located'
    BY <1>1, <2>1, <2>2 DEF NextScript
  <2>5. QED
    BY <2>3, <2>4
<1>2. CASE Goings(i)
  <2>1. PICK d \in Inserting : doing[i] \in Inserting /\ Goes(i, d)
    BY <1>2, GoStep
  <2>2. SessionType'
    BY <2>1 DEF Goes
  <2>3. Located'
    <3>1. d # "nothing" /\ doing[i] # "nothing"
      BY <2>1 DEF Inserting
    <3>2. QED
      BY <2>1, <3>1 DEF Goes, ScriptOf
  <2>4. QED
    BY <2>2, <2>3
<1>3. CASE Begins(i)
  <2>1. PICK x \in todo[i], d \in {"starting", "indexing", "keying", "altering"} :
               /\ doing[i] = "nothing" /\ phase[i] = ScriptOf(d)
               /\ Begin(i, x, d)
    BY <1>3, BeginStep
  <2>2. SessionType'
    BY <2>1 DEF Begin, Inserting
  <2>3. Located'
    BY <2>1 DEF Begin
  <2>4. QED
    BY <2>2, <2>3
<1>4. CASE Skips(i)
  <2>1. PICK x : Skip(i, x) /\ doing[i] = "nothing"
    BY <1>4 DEF Skips, IndexRefused, KeyRefused, Idle
  <2>2. SessionType'
    BY <2>1 DEF Skip
  <2>3. Located'
    BY <2>1 DEF Skip
  <2>4. QED
    BY <2>2, <2>3
<1>5. CASE Ends(i)
  <2>1. End(i)
    BY <1>5 DEF Ends, CommitLoad, CommitFailure, CreateIndex, IndexFails, AddKey, KeyFails, Alter
  <2>2. SessionType'
    BY <2>1 DEF End, Leave
  <2>3. Located'
    BY <2>1 DEF End, Leave
  <2>4. QED
    BY <2>2, <2>3
<1>6. CASE Quits(i)
  <2>1. PICK s \in {"done", "closed"} :
            /\ phase' = [phase EXCEPT ![i] = s]
            /\ Leave(i) /\ todo' = [todo EXCEPT ![i] = {}]
    BY <1>6 DEF Quits, AlterRaises, Dies
  <2>2. SessionType'
    BY <2>1 DEF Leave
  <2>3. Located'
    BY <2>1 DEF Leave
  <2>4. QED
    BY <2>2, <2>3
<1>7. QED
  BY <1>1, <1>2, <1>3, <1>4, <1>5, <1>6, Kinds

\* A statement is on a table of which the session has a part.
LEMMA SubjectIsMine ==
    ASSUME SInv, NEW i \in Instances, doing[i] # "nothing"
    PROVE  /\ \E p \in Parts : InstanceOf[p] = i /\ TableOf[p] = IF doing[i] \in Inserting
                                                    THEN TableOf[work[i]] ELSE work[i]
           /\ doing[i] \in Inserting =>
                work[i] \in Chosen /\ InstanceOf[work[i]] = i /\ TableOf[work[i]] \in Tables
           /\ doing[i] \in {"indexing", "keying", "altering"} => work[i] \in Tables
<1>1. phase[i] = ScriptOf(doing[i]) /\ work[i] \in Cursor(i, phase[i])
  BY DEF SInv, Located
<1>2. doing[i] \in Inserting \cup {"indexing", "keying", "altering"}
  BY DEF SInv, SessionType
<1>3. CASE doing[i] \in Inserting
  <2>1. phase[i] = "insert"
    BY <1>1, <1>3 DEF ScriptOf
  <2>2. work[i] \in Chosen /\ InstanceOf[work[i]] = i
    BY <1>1, <2>1, CursorType
  <2>3. QED
    BY <1>3, <2>2, MigrationAssumption DEF Inserting
<1>4. CASE doing[i] \in {"indexing", "keying", "altering"}
  <2>1. phase[i] \in {"index", "key", "alter"}
    BY <1>1, <1>4 DEF ScriptOf, Inserting
  <2>2. QED
    BY <1>1, <1>4, <2>1, CursorType DEF Inserting
<1>5. QED
  BY <1>2, <1>3, <1>4

\* The steps of a session's transaction.
LEMMA TransactionStep ==
    ASSUME SInv, NEW i \in Instances, Step(i) \/ Fails(i)
    PROVE  Transactions'
<1>. USE DEF Transactions, Table, data, transactions
<1>0. SessionType /\ RestType /\ Transactions
  BY DEF SInv
<1>1. ASSUME NEW j \in Instances \ {i}
      PROVE  doing'[j] = doing[j] /\ work'[j] = work[j] /\ held'[j] = held[j] /\ pending'[j] = pending[j]
  BY <1>0 DEF SessionType, RestType, Step, Fails, NextScript, StartLoad, LogStart, CommitStart, Load,
     LoadEnds, LogCount, CommitLoad, LoadFails, LogFailure, CommitFailure, StartIndex, IndexRefused,
     CreateIndex, IndexFails, StartKey, KeyRefused, AddKey, KeyFails, StartAlter, Alter, AlterRaises,
     Dies, Begin, Skip, Goes, Takes, Commit, Rollback, Releases, End, Leave
<1>. DEFINE Mine == /\ pending'[i] = IF doing'[i] \in {"counting", "counted"} THEN {work'[i]} ELSE {}
                    /\ \A t \in Tables :
                        /\ <<"table", t>> \in held'[i] =>
                            doing'[i] \in {"loading", "counting", "counted"} /\ t = TableOf[work'[i]]
                        /\ <<"log", t>> \in held'[i] =>
                            doing'[i] \in {"started", "counted", "failed"} /\ t = TableOf[work'[i]]
<1>. HIDE DEF Transactions
<1>mine. ASSUME Mine PROVE Transactions'
  <2>1. ASSUME NEW j \in Instances
        PROVE  /\ pending'[j] = IF doing'[j] \in {"counting", "counted"} THEN {work'[j]} ELSE {}
               /\ \A t \in Tables :
                   /\ <<"table", t>> \in held'[j] =>
                       doing'[j] \in {"loading", "counting", "counted"} /\ t = TableOf[work'[j]]
                   /\ <<"log", t>> \in held'[j] =>
                       doing'[j] \in {"started", "counted", "failed"} /\ t = TableOf[work'[j]]
    <3>1. CASE j = i
      BY <1>mine, <3>1
    <3>2. CASE j # i
      <4>1. doing'[j] = doing[j] /\ work'[j] = work[j] /\ held'[j] = held[j] /\ pending'[j] = pending[j]
        BY <1>1, <3>2
      <4>2. /\ pending[j] = IF doing[j] \in {"counting", "counted"} THEN {work[j]} ELSE {}
            /\ \A t \in Tables :
                /\ <<"table", t>> \in held[j] =>
                    doing[j] \in {"loading", "counting", "counted"} /\ t = TableOf[work[j]]
                /\ <<"log", t>> \in held[j] =>
                    doing[j] \in {"started", "counted", "failed"} /\ t = TableOf[work[j]]
        BY <1>0 DEF Transactions
      <4>3. QED
        BY <4>1, <4>2
    <3>3. QED
      BY <3>1, <3>2
  <2>2. QED
    BY <2>1 DEF Transactions
<1>2. CASE \/ CommitStart(i) \/ CommitLoad(i) \/ LoadFails(i) \/ CommitFailure(i) \/ Dies(i)
  <2>1. held'[i] = {} /\ pending'[i] = {}
    BY <1>0, <1>2 DEF RestType, CommitStart, CommitLoad, LoadFails, CommitFailure, Dies, Commit, Rollback, Releases
  <2>2. doing'[i] \notin {"counting", "counted"}
    BY <1>0, <1>2 DEF SessionType, CommitStart, CommitLoad, LoadFails, CommitFailure, Dies, Goes, End, Leave
  <2>3. Mine
    BY <2>1, <2>2
  <2>4. QED
    BY <1>mine, <2>3
<1>3. CASE LogStart(i) \/ Load(i) \/ LogCount(i) \/ LogFailure(i)
  <2>1. \/ UNCHANGED held \/ held'[i] = held[i] \cup {<<"log", Table(i)>>}
        \/ doing[i] = "waiting" /\ held'[i] = held[i] \cup {<<"table", Table(i)>>}
    BY <1>0, <1>3 DEF RestType, LogStart, Load, LogCount, LogFailure, Takes
  <2>2. /\ work' = work /\ pending' = pending
        /\ \/ doing[i] = "starting" /\ doing'[i] = "started"
           \/ doing[i] = "waiting" /\ doing'[i] = "loading" /\ held'[i] = held[i] \cup {<<"table", Table(i)>>}
           \/ doing[i] = "counting" /\ doing'[i] = "counted"
           \/ doing[i] = "failing" /\ doing'[i] = "failed"
    BY <1>0, <1>3 DEF SessionType, RestType, LogStart, Load, LogCount, LogFailure, Goes, Takes
  <2>3. Mine
    BY <1>0, <2>1, <2>2 DEF Transactions
  <2>4. QED
    BY <1>mine, <2>3
<1>4. CASE LoadEnds(i)
  <2>1. /\ held' = held /\ work' = work /\ doing[i] = "loading" /\ doing'[i] = "counting"
        /\ pending'[i] = pending[i] \cup {work[i]}
    BY <1>0, <1>4 DEF SessionType, RestType, LoadEnds, Goes
  <2>2. Mine
    BY <1>0, <2>1 DEF Transactions
  <2>3. QED
    BY <1>mine, <2>2
<1>5. CASE \/ NextScript(i) \/ Begins(i) \/ Skips(i) \/ CreateIndex(i) \/ IndexFails(i)
           \/ AddKey(i) \/ KeyFails(i) \/ Alter(i) \/ AlterRaises(i)
  <2>1. /\ held' = held /\ pending' = pending
        /\ doing[i] \in {"nothing", "indexing", "keying", "altering"}
        /\ doing'[i] \in {"nothing", "starting", "indexing", "keying", "altering"}
    BY <1>0, <1>5 DEF SessionType, NextScript, Begins, StartLoad, StartIndex, StartKey, StartAlter,
       Skips, IndexRefused, KeyRefused, CreateIndex, IndexFails, AddKey, KeyFails, Alter, AlterRaises,
       Idle, Begin, Skip, End, Leave
  <2>2. Mine
    BY <1>0, <2>1 DEF Transactions
  <2>3. QED
    BY <1>mine, <2>2
<1>6. QED
  BY <1>2, <1>3, <1>4, <1>5, Kinds DEF Goings, Ends, Quits

\* What a COMMIT adds: the part, at the end of its load, and nothing otherwise.
LEMMA CommitAdds ==
    ASSUME SInv, NEW i \in Instances
    PROVE  /\ CommitLoad(i) => loaded' = loaded \cup {work[i]}
           /\ CommitStart(i) \/ LoadFails(i) \/ CommitFailure(i) \/ Dies(i) => loaded' = loaded
<1>1. CommitLoad(i) => loaded' = loaded \cup {work[i]}
  BY DEF CommitLoad, Commit, SInv, Transactions
<1>2. CommitStart(i) \/ CommitFailure(i) => loaded' = loaded
  BY DEF CommitStart, CommitFailure, Commit, SInv, Transactions
<1>3. LoadFails(i) \/ Dies(i) => loaded' = loaded
  BY DEF LoadFails, Dies, Rollback
<1>4. QED
  BY <1>1, <1>2, <1>3

LEMMA GoKeeps ==
    ASSUME SInv, NEW i \in Instances, Goings(i)
    PROVE  UNCHANGED <<count, result, indexResult, loaded, indexed, keyed, failed, spoiled>>
  BY CommitAdds DEF Goings, LogStart, CommitStart, Load, LoadEnds, LogCount, LoadFails, LogFailure,
     joblog, schema, history

\* The log and the rows change at the end of a load only.
LEMMA Quiet ==
    ASSUME SInv, NEW i \in Instances, Step(i) \/ Fails(i), ~CommitLoad(i), ~CommitFailure(i)
    PROVE  UNCHANGED <<count, result, loaded, failed>>
<1>. USE DEF joblog, data, history
<1>1. CASE Goings(i)
  BY <1>1, GoKeeps
<1>2. CASE Dies(i)
  BY <1>2 DEF Dies, Rollback
<1>3. CASE ~Goings(i) /\ ~Dies(i)
  BY <1>3 DEF Goings, Step, Fails, NextScript, StartLoad, StartIndex, IndexRefused, CreateIndex,
     IndexFails, StartKey, KeyRefused, AddKey, KeyFails, StartAlter, Alter, AlterRaises
<1>4. QED
  BY <1>1, <1>2, <1>3

LEMMA RestStep ==
    ASSUME SInv, NEW i \in Instances, Step(i) \/ Fails(i)
    PROVE  RestType'
<1>. USE DEF RestType, Results, joblog, schema, history, data, transactions
<1>0. RestType /\ todo[i] \subseteq Parts \cup Tables
  BY DEF SInv, SessionType
<1>1. CASE CommitLoad(i)
  BY <1>0, <1>1, CommitAdds, SubjectIsMine DEF CommitLoad, Commit, Releases, Table, Inserting
<1>2. CASE CommitFailure(i)
  BY <1>0, <1>2, CommitAdds, SubjectIsMine DEF CommitFailure, Commit, Releases, Table, Inserting
<1>3. CASE IndexRefused(i)
  <2>1. \A t : [indexResult EXCEPT ![t] = "FAIL"] \in [Tables -> Results]
    BY <1>0
  <2>2. QED
    BY <1>0, <1>3, <2>1 DEF IndexRefused
<1>4. CASE CreateIndex(i)
  BY <1>0, <1>4, SubjectIsMine DEF CreateIndex
<1>5. CASE IndexFails(i)
  BY <1>0, <1>5, SubjectIsMine DEF IndexFails
<1>6. CASE AddKey(i)
  BY <1>0, <1>6, SubjectIsMine DEF AddKey
<1>7. CASE KeyFails(i)
  BY <1>0, <1>7, SubjectIsMine DEF KeyFails
<1>8. CASE AlterRaises(i)
  BY <1>0, <1>8, SubjectIsMine DEF AlterRaises
<1>9. CASE CommitStart(i)
  BY <1>0, <1>9, CommitAdds, SubjectIsMine DEF CommitStart, Commit, Releases, Table, Inserting
<1>10. CASE LogStart(i) \/ Load(i) \/ LogCount(i) \/ LogFailure(i)
  <2>1. Table(i) \in Tables
    BY <1>10, SubjectIsMine DEF LogStart, Load, LogCount, LogFailure, Table, Inserting
  <2>2. <<"log", Table(i)>> \in Locks /\ <<"table", Table(i)>> \in Locks
    BY <2>1 DEF Locks
  <2>3. held' \in [Instances -> SUBSET Locks]
    BY <1>0, <1>10, <2>2 DEF LogStart, Load, LogCount, LogFailure, Takes
  <2>4. QED
    BY <1>0, <1>10, <2>3 DEF LogStart, Load, LogCount, LogFailure
<1>11. CASE LoadEnds(i)
  BY <1>0, <1>11, SubjectIsMine DEF LoadEnds, Inserting
<1>12. CASE LoadFails(i) \/ Dies(i)
  BY <1>0, <1>12 DEF LoadFails, Dies, Rollback, Releases
<1>13. CASE \/ NextScript(i) \/ StartLoad(i) \/ StartIndex(i) \/ StartKey(i) \/ KeyRefused(i)
            \/ StartAlter(i) \/ Alter(i)
  BY <1>0, <1>13 DEF NextScript, StartLoad, StartIndex, StartKey, KeyRefused, StartAlter, Alter
<1>14. QED
  BY <1>1, <1>2, <1>3, <1>4, <1>5, <1>6, <1>7, <1>8, <1>9, <1>10, <1>11, <1>12, <1>13 DEF Step, Fails

----------------------------------------------------------------------------
(* The job log. *)

\* A row is loaded, or fails, once.
Fresh ==
    \A p \in loaded \cup failed :
        LET i == InstanceOf[p] IN
        phase[i] = "insert" => /\ p \notin todo[i]
                               /\ ~(doing[i] \in Inserting /\ work[i] = p)

\* After a failure the count starts again at -999.
CountBound ==
    \A t \in Tables : count[t] \in -999 .. Cardinality(PartsOf[t] \cap loaded)

LogInv == count \in [Tables -> Int] /\ Fresh /\ CountBound /\ CountAddsUp /\ OnePartIsLoggedTruly

\* A load of a part not loaded before adds one part of its table.
LEMMA LoadedParts ==
    ASSUME NEW t \in Tables, NEW S \in SUBSET Chosen, NEW p \in Chosen, p \notin S
    PROVE  /\ Cardinality(PartsOf[t] \cap S) \in Nat
           /\ Cardinality(PartsOf[t] \cap S) <= Cardinality(Parts)
           /\ Cardinality(PartsOf[t] \cap (S \cup {p})) =
                Cardinality(PartsOf[t] \cap S) + IF TableOf[p] = t THEN 1 ELSE 0
<1>1. IsFiniteSet(PartsOf[t] \cap S)
  <2>1. PartsOf[t] \cap S \subseteq Parts
    BY DEF PartsOf
  <2>2. QED
    BY <2>1, MigrationAssumption, FS_Subset
<1>2. Cardinality(PartsOf[t] \cap S) \in Nat
  BY <1>1, FS_CardinalityType
<1>3. Cardinality(PartsOf[t] \cap S) <= Cardinality(Parts)
  <2>1. PartsOf[t] \cap S \in SUBSET Parts
    BY DEF PartsOf
  <2>2. QED
    BY <2>1, MigrationAssumption, FS_Subset
<1>4. CASE TableOf[p] = t
  <2>1. PartsOf[t] \cap (S \cup {p}) = (PartsOf[t] \cap S) \cup {p}
    BY <1>4, MigrationAssumption DEF PartsOf
  <2>2. QED
    BY <1>1, <1>2, <1>3, <1>4, <2>1, FS_AddElement
<1>5. CASE TableOf[p] # t
  <2>1. PartsOf[t] \cap (S \cup {p}) = PartsOf[t] \cap S
    BY <1>5 DEF PartsOf
  <2>2. QED
    BY <1>2, <1>3, <1>5, <2>1
<1>6. QED
  BY <1>4, <1>5

LEMMA LogInit == Init => LogInv
<1>. SUFFICES ASSUME Init PROVE LogInv
  OBVIOUS
<1>1. \A t \in Tables : count[t] = 0 /\ Cardinality(PartsOf[t] \cap loaded) = 0
  BY FS_EmptySet DEF Init
<1>2. count \in [Tables -> Int]
  BY DEF Init
<1>3. Fresh
  BY DEF Init, Fresh
<1>4. CountBound /\ CountAddsUp
  BY <1>1 DEF CountBound, CountAddsUp
<1>5. OnePartIsLoggedTruly
  BY MigrationAssumption DEF Init, OnePartIsLoggedTruly
<1>6. QED
  BY <1>2, <1>3, <1>4, <1>5 DEF LogInv

\* Which rows are behind a session only grows.
LEMMA FreshStep ==
    ASSUME SInv, LogInv, NEW i \in Instances, Step(i) \/ Fails(i)
    PROVE  Fresh'
<1>. USE DEF LogInv, Fresh, schema, history, joblog, data, transactions
<1>0. /\ SessionType /\ RestType /\ Located
      /\ \A p \in loaded \cup failed : p \in Chosen /\ InstanceOf[p] \in Instances
  BY MigrationAssumption DEF SInv, RestType
<1>1. CASE NextScript(i)
  <2>1. phase[i] \in Scripts /\ Following[phase[i]] # "insert"
    BY <1>1 DEF NextScript, Idle, Scripts, Following
  <2>2. QED
    BY <1>0, <1>1, <2>1 DEF NextScript, SessionType
<1>2. CASE Goings(i)
  <2>1. PICK d \in Inserting : doing[i] \in Inserting /\ Goes(i, d)
    BY <1>2, GoStep
  <2>2. UNCHANGED <<loaded, failed>>
    BY <1>2, GoKeeps
  <2>3. QED
    BY <1>0, <2>1, <2>2 DEF Goes, SessionType
<1>3. CASE Begins(i)
  <2>1. PICK x \in todo[i], d \in {"starting", "indexing", "keying", "altering"} :
               /\ doing[i] = "nothing" /\ phase[i] = ScriptOf(d)
               /\ Begin(i, x, d)
    BY <1>3, BeginStep
  <2>2. UNCHANGED <<loaded, failed>>
    BY <1>3 DEF Begins, StartLoad, StartIndex, StartKey, StartAlter
  <2>3. QED
    BY <1>0, <2>1, <2>2 DEF Begin, SessionType
<1>4. CASE Skips(i)
  <2>1. PICK x : Skip(i, x) /\ doing[i] = "nothing"
    BY <1>4 DEF Skips, IndexRefused, KeyRefused, Idle
  <2>2. UNCHANGED <<loaded, failed>>
    BY <1>4 DEF Skips, IndexRefused, KeyRefused
  <2>3. QED
    BY <1>0, <2>1, <2>2 DEF Skip, SessionType
<1>5. CASE Ends(i)
  <2>1. End(i)
    BY <1>5 DEF Ends, CommitLoad, CommitFailure, CreateIndex, IndexFails, AddKey, KeyFails, Alter
  <2>2. \/ UNCHANGED <<loaded, failed>>
        \/ /\ doing[i] \in Inserting
           /\ loaded' \cup failed' = loaded \cup failed \cup {work[i]}
    BY <1>5, CommitAdds DEF Ends, CommitLoad, CommitFailure, CreateIndex, IndexFails, AddKey, KeyFails,
       Alter, Inserting
  <2>3. CASE UNCHANGED <<loaded, failed>>
    BY <1>0, <2>1, <2>3 DEF End, Leave, SessionType, Inserting
  <2>4. CASE /\ doing[i] \in Inserting
             /\ loaded' \cup failed' = loaded \cup failed \cup {work[i]}
    <3>1. InstanceOf[work[i]] = i /\ work[i] \notin todo[i]
      BY <1>0, <2>4, SubjectIsMine DEF Located, Inserting
    <3>2. QED
      BY <1>0, <2>1, <2>4, <3>1 DEF End, Leave, SessionType, Inserting
  <2>5. QED
    BY <2>2, <2>3, <2>4
<1>6. CASE Quits(i)
  <2>1. PICK s \in {"done", "closed"} :
            /\ phase' = [phase EXCEPT ![i] = s]
            /\ Leave(i) /\ todo' = [todo EXCEPT ![i] = {}]
            /\ UNCHANGED <<loaded, failed>>
    BY <1>6 DEF Quits, AlterRaises, Dies, Rollback
  <2>2. QED
    BY <1>0, <2>1 DEF Leave, SessionType
<1>7. QED
  BY <1>1, <1>2, <1>3, <1>4, <1>5, <1>6, Kinds

LEMMA LogStep ==
    ASSUME SInv, LogInv, NEW i \in Instances, Step(i) \/ Fails(i)
    PROVE  LogInv'
<1>. USE DEF schema, history, joblog, data, transactions
<1>0. /\ count \in [Tables -> Int] /\ result \in [Tables -> Results]
      /\ loaded \in SUBSET Chosen /\ Chosen \subseteq Parts /\ TableOf \in [Parts -> Tables]
  BY MigrationAssumption DEF SInv, RestType, LogInv
<1>1. CASE CommitLoad(i)
  <2>0. PICK p \in Chosen, t \in Tables :
           /\ p = work[i] /\ t = TableOf[p] /\ p \notin loaded \cup failed
           /\ loaded' = loaded \cup {p} /\ UNCHANGED failed
           /\ count' = [count EXCEPT ![t] = @ + 1]
           /\ result' = [result EXCEPT ![t] = "SUCCESS"]
    <3>1. /\ work[i] \in Chosen /\ TableOf[work[i]] \in Tables /\ InstanceOf[work[i]] = i
          /\ phase[i] = "insert"
      BY <1>1, SubjectIsMine DEF CommitLoad, SInv, Located, ScriptOf, Inserting
    <3>2. work[i] \notin loaded \cup failed
      BY <1>1, <3>1 DEF CommitLoad, LogInv, Fresh, Inserting
    <3>3. QED
      BY <1>1, <3>1, <3>2, CommitAdds DEF CommitLoad, Table
  <2>1. \A u \in Tables :
            /\ Cardinality(PartsOf[u] \cap loaded) \in Nat
            /\ Cardinality(PartsOf[u] \cap loaded') =
                 Cardinality(PartsOf[u] \cap loaded) + IF t = u THEN 1 ELSE 0
    BY <1>0, <2>0, LoadedParts
  <2>2. count' \in [Tables -> Int] /\ \A u \in Tables : count'[u] = count[u] + IF t = u THEN 1 ELSE 0
    BY <1>0, <2>0
  <2>3. CountBound'
    <3>1. SUFFICES ASSUME NEW u \in Tables
                   PROVE  count'[u] \in -999 .. Cardinality(PartsOf[u] \cap loaded')
      BY DEF CountBound, PartsOf
    <3>2. count[u] \in -999 .. Cardinality(PartsOf[u] \cap loaded)
      BY DEF LogInv, CountBound
    <3>3. QED
      BY <2>1, <2>2, <3>2
  <2>4. CountAddsUp'
    BY <2>0, <2>1, <2>2 DEF LogInv, CountAddsUp, PartsOf
  <2>5. OnePartIsLoggedTruly'
    <3>1. SUFFICES ASSUME NEW q \in Chosen, PartsOf[TableOf[q]] = {q}
                   PROVE  /\ result'[TableOf[q]] = "SUCCESS" <=> q \in loaded'
                          /\ result'[TableOf[q]] = "FAIL" <=> q \in failed'
      BY DEF OnePartIsLoggedTruly, PartsOf
    <3>2. TableOf[q] = t => q = p
      BY <1>0, <2>0, <3>1 DEF PartsOf
    <3>3. QED
      BY <1>0, <2>0, <3>1, <3>2 DEF LogInv, OnePartIsLoggedTruly
  <2>6. QED
    BY <2>2, <2>3, <2>4, <2>5, FreshStep DEF LogInv
<1>2. CASE CommitFailure(i)
  <2>0. PICK p \in Chosen, t \in Tables :
           /\ p = work[i] /\ t = TableOf[p] /\ p \notin loaded \cup failed
           /\ failed' = failed \cup {p} /\ UNCHANGED loaded
           /\ count' = [count EXCEPT ![t] = -999]
           /\ result' = [result EXCEPT ![t] = "FAIL"]
    <3>1. /\ work[i] \in Chosen /\ TableOf[work[i]] \in Tables /\ InstanceOf[work[i]] = i
          /\ phase[i] = "insert"
      BY <1>2, SubjectIsMine DEF CommitFailure, SInv, Located, ScriptOf, Inserting
    <3>2. work[i] \notin loaded \cup failed
      BY <1>2, <3>1 DEF CommitFailure, LogInv, Fresh, Inserting
    <3>3. QED
      BY <1>2, <3>1, <3>2, CommitAdds DEF CommitFailure, Table
  <2>1. \A u \in Tables : Cardinality(PartsOf[u] \cap loaded) \in Nat
    BY <1>0, <2>0, LoadedParts
  <2>2. /\ count' \in [Tables -> Int] /\ count'[t] = -999
        /\ \A u \in Tables \ {t} : count'[u] = count[u]
    BY <1>0, <2>0
  <2>3. CountBound'
    BY <2>0, <2>1, <2>2 DEF LogInv, CountBound, PartsOf
  <2>4. CountAddsUp'
    <3>1. p \in PartsOf[t] \cap failed'
      BY <1>0, <2>0 DEF PartsOf
    <3>2. QED
      BY <2>0, <2>2, <3>1 DEF LogInv, CountAddsUp, PartsOf
  <2>5. OnePartIsLoggedTruly'
    <3>1. SUFFICES ASSUME NEW q \in Chosen, PartsOf[TableOf[q]] = {q}
                   PROVE  /\ result'[TableOf[q]] = "SUCCESS" <=> q \in loaded'
                          /\ result'[TableOf[q]] = "FAIL" <=> q \in failed'
      BY DEF OnePartIsLoggedTruly, PartsOf
    <3>2. TableOf[q] = t => q = p
      BY <1>0, <2>0, <3>1 DEF PartsOf
    <3>3. QED
      BY <1>0, <2>0, <3>1, <3>2 DEF LogInv, OnePartIsLoggedTruly
  <2>6. QED
    BY <2>2, <2>3, <2>4, <2>5, FreshStep DEF LogInv
<1>3. CASE ~(CommitLoad(i) \/ CommitFailure(i))
  <2>1. UNCHANGED <<count, result, loaded, failed>>
    BY <1>3, Quiet
  <2>2. CountBound' /\ CountAddsUp' /\ OnePartIsLoggedTruly'
    BY <2>1 DEF LogInv, CountBound, CountAddsUp, OnePartIsLoggedTruly, PartsOf
  <2>3. QED
    BY <2>1, <2>2, FreshStep DEF LogInv
<1>4. QED
  BY <1>1, <1>2, <1>3

----------------------------------------------------------------------------
(* The tables that belong to one session. *)

Own(p) == \A q \in PartsOf[TableOf[p]] : InstanceOf[q] = InstanceOf[p]

\* How far session i is with part p of table t, which is its own: the rows,
\* the index and the key follow each other, and each is made once.
LoadStage(i, p, t) ==
    t \notin spoiled =>
        /\ phase[i] = "insert" =>
            \/ p \in todo[i] \cup loaded
            \/ doing[i] \in Inserting /\ work[i] = p
        /\ phase[i] \in {"index", "key", "alter", "done"} => p \in loaded
        /\ p \in loaded => result[t] = "SUCCESS"

IndexStage(i, t) ==
    /\ t \in indexed =>
        /\ phase[i] # "insert"
        /\ phase[i] = "index" => t \notin todo[i] /\ ~(doing[i] = "indexing" /\ work[i] = t)
    /\ t \notin spoiled =>
        /\ phase[i] = "index" =>
            t \in todo[i] \cup indexed \/ (doing[i] = "indexing" /\ work[i] = t)
        /\ phase[i] \in {"key", "alter", "done"} => t \in indexed
        /\ t \in indexed => indexResult[t] = "SUCCESS"

KeyStage(i, t) ==
    /\ t \in keyed =>
        /\ phase[i] \notin {"insert", "index"}
        /\ phase[i] = "key" => t \notin todo[i] /\ ~(doing[i] = "keying" /\ work[i] = t)
    /\ t \notin spoiled =>
        /\ phase[i] = "key" =>
            t \in todo[i] \cup keyed \/ (doing[i] = "keying" /\ work[i] = t)
        /\ phase[i] \in {"alter", "done"} => t \in keyed

Stage(p) == /\ LoadStage(InstanceOf[p], p, TableOf[p])
            /\ IndexStage(InstanceOf[p], TableOf[p])
            /\ KeyStage(InstanceOf[p], TableOf[p])

OwnInv == \A p \in Chosen : Own(p) => Stage(p)

LEMMA OwnInit == Init => OwnInv
<1>. SUFFICES ASSUME Init, NEW p \in Chosen PROVE Stage(p)
  BY DEF OwnInv
<1>1. InstanceOf[p] \in Instances /\ TableOf[p] \in Tables
  BY MigrationAssumption
<1>2. /\ phase[InstanceOf[p]] \in {"insert", "closed"} /\ p \notin loaded
      /\ phase[InstanceOf[p]] = "insert" => p \in todo[InstanceOf[p]]
  BY <1>1, CursorType DEF Init
<1>3. TableOf[p] \notin indexed /\ TableOf[p] \notin keyed
  BY DEF Init
<1>4. QED
  BY <1>2, <1>3 DEF Stage, LoadStage, IndexStage, KeyStage

\* Another session has nothing to do with such a table.
LEMMA Foreign ==
    ASSUME SInv, NEW p \in Chosen, Own(p), NEW j \in Instances, j # InstanceOf[p]
    PROVE  /\ phase[j] \in {"index", "key", "alter"} => TableOf[p] \notin todo[j]
           /\ doing[j] \in {"indexing", "keying", "altering"} => TableOf[p] # work[j]
           /\ doing[j] \in Inserting => TableOf[p] # Table(j)
           /\ ~Exclusive(j, TableOf[p]) /\ ~Shared(j, TableOf[p])
<1>1. \A q \in Parts : InstanceOf[q] = j => TableOf[q] # TableOf[p]
  BY MigrationAssumption DEF Own, PartsOf
<1>2. phase[j] \in {"index", "key", "alter"} => TableOf[p] \notin todo[j]
  BY <1>1, CursorType DEF SInv, Located
<1>3. doing[j] \in {"indexing", "keying", "altering"} => TableOf[p] # work[j]
  <2>1. doing[j] \in {"indexing", "keying", "altering"} => doing[j] # "nothing" /\ doing[j] \notin Inserting
    BY DEF Inserting
  <2>2. QED
    BY <1>1, <2>1, SubjectIsMine
<1>4. doing[j] \in Inserting => TableOf[p] # Table(j)
  <2>1. doing[j] \in Inserting => doing[j] # "nothing"
    BY DEF Inserting
  <2>2. QED
    BY <1>1, <2>1, SubjectIsMine DEF Table
<1>5. <<"table", TableOf[p]>> \notin held[j]
  <2>1. TableOf[p] \in Tables
    BY MigrationAssumption
  <2>2. QED
    BY <1>4, <2>1 DEF SInv, Transactions, Inserting
<1>6. QED
  BY <1>2, <1>3, <1>4, <1>5 DEF Exclusive, Shared

LEMMA Elsewhere ==
    ASSUME SInv, NEW p \in Chosen, Own(p), Stage(p),
           NEW j \in Instances, j # InstanceOf[p], Step(j) \/ Fails(j)
    PROVE  Stage(p)'
<1>. DEFINE i == InstanceOf[p]
            t == TableOf[p]
<1>. USE DEF schema, history, joblog, data, transactions
<1>0. i \in Instances /\ t \in Tables
  BY MigrationAssumption
<1>1. phase'[i] = phase[i] /\ todo'[i] = todo[i] /\ doing'[i] = doing[i] /\ work'[i] = work[i]
  BY <1>0 DEF SInv, SessionType, Step, Fails, NextScript, StartLoad, LogStart, CommitStart, Load,
     LoadEnds, LogCount, CommitLoad, LoadFails, LogFailure, CommitFailure, StartIndex, IndexRefused,
     CreateIndex, IndexFails, StartKey, KeyRefused, AddKey, KeyFails, StartAlter, Alter, AlterRaises,
     Dies, Begin, Skip, Goes, End, Leave
<1>2. spoiled \subseteq spoiled'
  <2>1. CASE Goings(j)
    BY <2>1, GoKeeps
  <2>2. CASE ~Goings(j)
    BY <2>2 DEF Goings, Step, Fails, NextScript, StartLoad, CommitLoad, CommitFailure, StartIndex,
       IndexRefused, CreateIndex, IndexFails, StartKey, KeyRefused, AddKey, KeyFails, StartAlter,
       Alter, AlterRaises, Dies
  <2>3. QED
    BY <2>1, <2>2
<1>3. result'[t] = result[t] /\ (p \in loaded' <=> p \in loaded)
  <2>1. CASE CommitLoad(j)
    <3>1. t # Table(j) /\ p # work[j]
      BY <2>1, Foreign DEF CommitLoad, Table, Inserting
    <3>2. QED
      BY <2>1, <3>1, <1>0, CommitAdds DEF CommitLoad, SInv, RestType
  <2>2. CASE CommitFailure(j)
    <3>1. t # Table(j)
      BY <2>2, Foreign DEF CommitFailure, Inserting
    <3>2. QED
      BY <2>2, <3>1, <1>0, CommitAdds DEF CommitFailure, SInv, RestType
  <2>3. CASE ~CommitLoad(j) /\ ~CommitFailure(j)
    BY <2>3, Quiet
  <2>4. QED
    BY <2>1, <2>2, <2>3
<1>4. indexResult'[t] = indexResult[t] /\ (t \in indexed' <=> t \in indexed)
  <2>1. CASE IndexRefused(j)
    <3>1. PICK u \in todo[j] : indexResult' = [indexResult EXCEPT ![u] = "FAIL"]
      BY <2>1 DEF IndexRefused
    <3>2. t # u
      BY <2>1, <3>1, Foreign DEF IndexRefused, Idle
    <3>3. QED
      BY <2>1, <3>1, <3>2, <1>0 DEF IndexRefused, SInv, RestType
  <2>2. CASE CreateIndex(j)
    <3>1. t # work[j]
      BY <2>2, Foreign DEF CreateIndex
    <3>2. QED
      BY <2>2, <3>1, <1>0 DEF CreateIndex, SInv, RestType
  <2>3. CASE IndexFails(j)
    <3>1. t # work[j]
      BY <2>3, Foreign DEF IndexFails
    <3>2. QED
      BY <2>3, <3>1, <1>0 DEF IndexFails, SInv, RestType
  <2>4. CASE Goings(j)
    BY <2>4, GoKeeps
  <2>5. CASE ~(IndexRefused(j) \/ CreateIndex(j) \/ IndexFails(j) \/ Goings(j))
    BY <2>5 DEF Goings, Step, Fails, NextScript, StartLoad, CommitLoad, CommitFailure, StartIndex,
       StartKey, KeyRefused, AddKey, KeyFails, StartAlter, Alter, AlterRaises, Dies
  <2>6. QED
    BY <2>1, <2>2, <2>3, <2>4, <2>5
<1>5. t \in keyed' <=> t \in keyed
  <2>1. CASE AddKey(j)
    BY <2>1, Foreign DEF AddKey
  <2>2. CASE Goings(j)
    BY <2>2, GoKeeps
  <2>3. CASE ~(AddKey(j) \/ Goings(j))
    BY <2>3 DEF Goings, Step, Fails, NextScript, StartLoad, CommitLoad, CommitFailure, StartIndex,
       IndexRefused, CreateIndex, IndexFails, StartKey, KeyRefused, KeyFails, StartAlter, Alter,
       AlterRaises, Dies
  <2>4. QED
    BY <2>1, <2>2, <2>3
<1>6. QED
  BY <1>1, <1>2, <1>3, <1>4, <1>5 DEF Stage, LoadStage, IndexStage, KeyStage

\* The steps of the session whose table it is.
LEMMA LoadStageStep ==
    ASSUME SInv, NEW p \in Chosen, Stage(p), NEW i \in Instances, i = InstanceOf[p],
           Step(i) \/ Fails(i)
    PROVE  LoadStage(i, p, TableOf[p])'
<1>. DEFINE t == TableOf[p]
<1>. USE DEF schema, history, joblog, data, transactions
<1>0. /\ t \in Tables /\ SessionType /\ RestType
      /\ LoadStage(i, p, t)
  BY MigrationAssumption DEF SInv, Stage
<1>1. CASE NextScript(i)
  <2>1. phase[i] \in Scripts /\ doing[i] = "nothing" /\ todo[i] = {} /\ phase'[i] = Following[phase[i]]
    BY <1>0, <1>1 DEF NextScript, Idle, SessionType
  <2>2. Following[phase[i]] # "insert" /\ phase[i] \in {"insert", "index", "key", "alter"}
    BY <2>1 DEF Following, Scripts
  <2>3. QED
    BY <1>0, <1>1, <2>1, <2>2 DEF NextScript, LoadStage, Inserting
<1>2. CASE Goings(i)
  <2>1. PICK d \in Inserting : doing[i] \in Inserting /\ Goes(i, d)
    BY <1>2, GoStep
  <2>2. QED
    BY <1>0, <1>2, <2>1, GoKeeps DEF Goes, LoadStage, SessionType
<1>3. CASE StartLoad(i)
  BY <1>0, <1>3 DEF StartLoad, Idle, Begin, LoadStage, SessionType, Inserting
<1>4. CASE StartIndex(i) \/ StartKey(i) \/ StartAlter(i)
  BY <1>0, <1>4 DEF StartIndex, StartKey, StartAlter, Idle, Begin, LoadStage, SessionType
<1>5. CASE Skips(i)
  BY <1>0, <1>5 DEF Skips, IndexRefused, KeyRefused, Idle, Skip, LoadStage, SessionType
<1>6. CASE CommitLoad(i)
  <2>1. work[i] \in Chosen /\ Table(i) \in Tables /\ phase[i] = "insert"
    BY <1>6, SubjectIsMine DEF CommitLoad, SInv, Located, ScriptOf, Table, Inserting
  <2>2. result'[t] = IF Table(i) = t THEN "SUCCESS" ELSE result[t]
    BY <1>0, <1>6, <2>1 DEF CommitLoad, RestType
  <2>3. loaded' = loaded \cup {work[i]}
    BY <1>6, CommitAdds
  <2>4. QED
    BY <1>0, <1>6, <2>1, <2>2, <2>3 DEF CommitLoad, End, Leave, LoadStage, SessionType, Table
<1>7. CASE CommitFailure(i)
  <2>1. work[i] \in Chosen /\ Table(i) \in Tables
    BY <1>7, SubjectIsMine DEF CommitFailure, Table, Inserting
  <2>2. CASE Table(i) = t
    BY <1>7, <2>2 DEF CommitFailure, LoadStage
  <2>3. CASE Table(i) # t
    <3>1. result'[t] = result[t] /\ loaded' = loaded
      BY <1>0, <1>7, <2>1, <2>3, CommitAdds DEF CommitFailure, RestType
    <3>2. QED
      BY <1>0, <1>7, <2>3, <3>1 DEF CommitFailure, End, Leave, LoadStage, SessionType, Table
  <2>4. QED
    BY <2>2, <2>3
<1>8. CASE CreateIndex(i) \/ IndexFails(i) \/ AddKey(i) \/ KeyFails(i) \/ Alter(i)
  BY <1>0, <1>8 DEF CreateIndex, IndexFails, AddKey, KeyFails, Alter, End, Leave, LoadStage, SessionType, Inserting
<1>9. CASE AlterRaises(i)
  <2>1. phase[i] = "alter"
    BY <1>9 DEF AlterRaises, Idle, SInv, Located, ScriptOf, Inserting
  <2>2. QED
    BY <1>0, <1>9, <2>1 DEF AlterRaises, LoadStage, SessionType
<1>10. CASE Dies(i)
  BY <1>0, <1>10 DEF Dies, Rollback, Leave, LoadStage, SessionType
<1>11. QED
  BY <1>1, <1>2, <1>3, <1>4, <1>5, <1>6, <1>7, <1>8, <1>9, <1>10
  DEF Step, Fails, Goings, Skips

LEMMA IndexStageStep ==
    ASSUME SInv, NEW p \in Chosen, Own(p), Stage(p), NEW i \in Instances, i = InstanceOf[p],
           Step(i) \/ Fails(i)
    PROVE  IndexStage(i, TableOf[p])'
<1>. DEFINE t == TableOf[p]
<1>. USE DEF schema, history, joblog, data, transactions
<1>0. /\ t \in Tables /\ SessionType /\ RestType
      /\ IndexStage(i, t)
  BY MigrationAssumption DEF SInv, Stage
<1>1. CASE NextScript(i)
  <2>1. phase[i] \in Scripts /\ doing[i] = "nothing" /\ todo[i] = {} /\ phase'[i] = Following[phase[i]]
    BY <1>0, <1>1 DEF NextScript, Idle, SessionType
  <2>2. /\ Following[phase[i]] # "insert"
        /\ phase[i] \in {"insert", "index", "key", "alter"}
        /\ Following[phase[i]] = "index" <=> phase[i] = "insert"
        /\ Following[phase[i]] \in {"key", "alter", "done"} => phase[i] \in {"index", "key", "alter"}
    BY <2>1 DEF Following, Scripts
  <2>3. t \in Cursor(i, "index")
    BY CursorType
  <2>4. Following[phase[i]] = "index" => t \in todo'[i]
    BY <1>0, <1>1, <2>3 DEF NextScript, SessionType
  <2>5. doing' = doing /\ UNCHANGED <<indexed, indexResult, spoiled>>
    BY <1>1 DEF NextScript
  <2>6. QED
    BY <1>0, <2>1, <2>2, <2>4, <2>5 DEF IndexStage
<1>2. CASE StartLoad(i) \/ StartKey(i) \/ StartAlter(i)
  BY <1>0, <1>2 DEF StartLoad, StartKey, StartAlter, Idle, Begin, IndexStage, SessionType
<1>3. CASE StartIndex(i)
  BY <1>0, <1>3 DEF StartIndex, Idle, Begin, IndexStage, SessionType
<1>4. CASE KeyRefused(i)
  BY <1>0, <1>4 DEF KeyRefused, Idle, Skip, IndexStage, SessionType
<1>5. CASE IndexRefused(i)
  <2>1. PICK u \in todo[i] : /\ ~NoExclusive(i, u) \/ u \in indexed
                             /\ indexResult' = [indexResult EXCEPT ![u] = "FAIL"]
                             /\ Skip(i, u)
    BY <1>5 DEF IndexRefused
  <2>2. phase[i] = "index"
    BY <1>5 DEF IndexRefused, Idle
  <2>3. NoExclusive(i, t)
    BY Foreign DEF NoExclusive
  <2>4. u # t
    BY <1>0, <2>1, <2>2, <2>3 DEF IndexStage
  <2>5. QED
    BY <1>0, <1>5, <2>1, <2>4 DEF IndexRefused, Skip, IndexStage, SessionType, RestType
<1>6. CASE CreateIndex(i)
  <2>1. phase[i] = "index" /\ work[i] \notin todo[i] /\ work[i] \in Tables
    BY <1>6, SubjectIsMine DEF CreateIndex, SInv, Located, ScriptOf, Inserting
  <2>2. indexResult'[t] = IF work[i] # t THEN indexResult[t]
                          ELSE IF t \in indexed THEN "FAIL" ELSE "SUCCESS"
    BY <1>0, <1>6, <2>1 DEF CreateIndex, RestType
  <2>3. QED
    BY <1>0, <1>6, <2>1, <2>2 DEF CreateIndex, End, Leave, IndexStage, SessionType
<1>7. CASE IndexFails(i)
  <2>1. phase[i] = "index" /\ work[i] \in Tables
    BY <1>7, SubjectIsMine DEF IndexFails, SInv, Located, ScriptOf, Inserting
  <2>2. work[i] # t => indexResult'[t] = indexResult[t]
    BY <1>0, <1>7, <2>1 DEF IndexFails, RestType
  <2>3. QED
    BY <1>0, <1>7, <2>1, <2>2 DEF IndexFails, End, Leave, IndexStage, SessionType
<1>8. CASE CommitLoad(i) \/ CommitFailure(i) \/ AddKey(i) \/ KeyFails(i) \/ Alter(i)
  BY <1>0, <1>8 DEF CommitLoad, CommitFailure, AddKey, KeyFails, Alter, End, Leave, IndexStage, SessionType
<1>9. CASE AlterRaises(i)
  <2>1. phase[i] = "alter"
    BY <1>9 DEF AlterRaises, Idle, SInv, Located, ScriptOf, Inserting
  <2>2. QED
    BY <1>0, <1>9, <2>1 DEF AlterRaises, IndexStage, SessionType
<1>10. CASE Dies(i)
  BY <1>0, <1>10 DEF Dies, Leave, IndexStage, SessionType
<1>11. CASE Goings(i)
  <2>1. PICK d \in Inserting : doing[i] \in Inserting /\ Goes(i, d)
    BY <1>11, GoStep
  <2>2. doing[i] \notin {"indexing", "keying"} /\ d \notin {"indexing", "keying"}
    BY <2>1 DEF Inserting
  <2>3. QED
    BY <1>0, <1>11, <2>1, <2>2, GoKeeps DEF Goes, IndexStage, SessionType
<1>12. QED
  BY <1>1, <1>2, <1>3, <1>4, <1>5, <1>6, <1>7, <1>8, <1>9, <1>10, <1>11 DEF Step, Fails, Goings

LEMMA KeyStageStep ==
    ASSUME SInv, NEW p \in Chosen, Own(p), Stage(p), NEW i \in Instances, i = InstanceOf[p],
           Step(i) \/ Fails(i)
    PROVE  KeyStage(i, TableOf[p])'
<1>. DEFINE t == TableOf[p]
<1>. USE DEF schema, history, joblog, data, transactions
<1>0. /\ t \in Tables /\ SessionType /\ RestType
      /\ KeyStage(i, t)
  BY MigrationAssumption DEF SInv, Stage
<1>1. CASE NextScript(i)
  <2>1. phase[i] \in Scripts /\ doing[i] = "nothing" /\ todo[i] = {} /\ phase'[i] = Following[phase[i]]
    BY <1>0, <1>1 DEF NextScript, Idle, SessionType
  <2>2. /\ phase[i] \in {"insert", "index", "key", "alter"}
        /\ phase[i] \notin {"insert", "index"} => Following[phase[i]] \notin {"insert", "index", "key"}
        /\ Following[phase[i]] = "key" <=> phase[i] = "index"
        /\ Following[phase[i]] \in {"alter", "done"} => phase[i] \in {"key", "alter"}
    BY <2>1 DEF Following, Scripts
  <2>3. t \in Cursor(i, "key")
    BY CursorType
  <2>4. Following[phase[i]] = "key" => t \in todo'[i]
    BY <1>0, <1>1, <2>3 DEF NextScript, SessionType
  <2>5. doing' = doing /\ UNCHANGED <<keyed, spoiled>>
    BY <1>1 DEF NextScript
  <2>6. QED
    BY <1>0, <2>1, <2>2, <2>4, <2>5 DEF KeyStage
<1>2. CASE StartLoad(i) \/ StartIndex(i) \/ StartAlter(i)
  BY <1>0, <1>2 DEF StartLoad, StartIndex, StartAlter, Idle, Begin, KeyStage, SessionType
<1>3. CASE StartKey(i)
  BY <1>0, <1>3 DEF StartKey, Idle, Begin, KeyStage, SessionType
<1>4. CASE IndexRefused(i)
  BY <1>0, <1>4 DEF IndexRefused, Idle, Skip, KeyStage, SessionType
<1>5. CASE KeyRefused(i)
  <2>1. PICK u \in todo[i] : (~NoLock(i, u) \/ u \in keyed) /\ Skip(i, u)
    BY <1>5 DEF KeyRefused
  <2>2. phase[i] = "key" /\ UNCHANGED <<keyed, spoiled>>
    BY <1>5 DEF KeyRefused, Idle
  <2>3. NoLock(i, t)
    BY Foreign DEF NoLock
  <2>4. u # t
    BY <1>0, <2>1, <2>2, <2>3 DEF KeyStage
  <2>5. QED
    BY <1>0, <2>1, <2>2, <2>4 DEF Skip, KeyStage, SessionType
<1>6. CASE AddKey(i)
  <2>1. phase[i] = "key" /\ work[i] \notin todo[i]
    BY <1>6 DEF AddKey, SInv, Located, ScriptOf, Inserting
  <2>2. QED
    BY <1>0, <1>6, <2>1 DEF AddKey, End, Leave, KeyStage, SessionType
<1>7. CASE KeyFails(i)
  BY <1>0, <1>7 DEF KeyFails, End, Leave, KeyStage, SessionType
<1>8. CASE CommitLoad(i) \/ CommitFailure(i) \/ CreateIndex(i) \/ IndexFails(i) \/ Alter(i)
  BY <1>0, <1>8 DEF CommitLoad, CommitFailure, CreateIndex, IndexFails, Alter, End, Leave, KeyStage, SessionType
<1>9. CASE AlterRaises(i)
  <2>1. phase[i] = "alter"
    BY <1>9 DEF AlterRaises, Idle, SInv, Located, ScriptOf, Inserting
  <2>2. QED
    BY <1>0, <1>9, <2>1 DEF AlterRaises, KeyStage, SessionType
<1>10. CASE Dies(i)
  BY <1>0, <1>10 DEF Dies, Leave, KeyStage, SessionType
<1>11. CASE Goings(i)
  <2>1. PICK d \in Inserting : doing[i] \in Inserting /\ Goes(i, d)
    BY <1>11, GoStep
  <2>2. doing[i] \notin {"indexing", "keying"} /\ d \notin {"indexing", "keying"}
    BY <2>1 DEF Inserting
  <2>3. QED
    BY <1>0, <1>11, <2>1, <2>2, GoKeeps DEF Goes, KeyStage, SessionType
<1>12. QED
  BY <1>1, <1>2, <1>3, <1>4, <1>5, <1>6, <1>7, <1>8, <1>9, <1>10, <1>11 DEF Step, Fails, Goings

LEMMA OwnStep ==
    ASSUME SInv, OwnInv, NEW i \in Instances, Step(i) \/ Fails(i)
    PROVE  OwnInv'
<1>1. SUFFICES ASSUME NEW p \in Chosen, Own(p) PROVE Stage(p)'
  BY DEF OwnInv, Own, PartsOf
<1>2. Stage(p)
  BY <1>1 DEF OwnInv
<1>3. CASE i = InstanceOf[p]
  BY <1>1, <1>2, <1>3, LoadStageStep, IndexStageStep, KeyStageStep DEF Stage
<1>4. CASE i # InstanceOf[p]
  BY <1>1, <1>2, <1>4, Elsewhere
<1>5. QED
  BY <1>3, <1>4

----------------------------------------------------------------------------
IInv == SInv /\ LogInv /\ OwnInv

LEMMA Inductive == Spec => []IInv
<1>1. Init => IInv
  BY SessionInit, LogInit, OwnInit DEF IInv
<1>2. IInv /\ [Next]_vars => IInv'
  <2>. SUFFICES ASSUME IInv, [Next]_vars PROVE IInv'
    OBVIOUS
  <2>1. ASSUME NEW i \in Instances, Step(i) \/ Fails(i) PROVE IInv'
    BY <2>1, SessionStep, TransactionStep, RestStep, LogStep, OwnStep DEF IInv, SInv
  <2>2. CASE UNCHANGED vars
    <3>1. UNCHANGED <<phase, todo, doing, work, count, result, indexResult, started, loaded, held,
                      pending, indexed, keyed, failed, spoiled>>
      BY <2>2 DEF vars, sessions, joblog, schema, history, data, transactions
    <3>2. SInv'
      BY <3>1 DEF IInv, SInv, SessionType, RestType, Located, Transactions, Table
    <3>3. LogInv'
      BY <3>1 DEF IInv, LogInv, Fresh, CountBound, CountAddsUp, OnePartIsLoggedTruly
    <3>4. OwnInv'
      BY <3>1 DEF IInv, OwnInv, Own, Stage, LoadStage, IndexStage, KeyStage
    <3>5. QED
      BY <3>2, <3>3, <3>4 DEF IInv
  <2>3. QED
    BY <2>1, <2>2 DEF Next, Over
<1>3. QED
  BY <1>1, <1>2, PTL DEF Spec

\* Every variable keeps its type, MIG_COUNT its range: -999 at the least,
\* the number of parts at the most.
THEOREM MigrationTypeCorrect == Spec => []TypeOK
<1>1. IInv => TypeOK
  <2>. SUFFICES ASSUME IInv PROVE TypeOK
    OBVIOUS
  <2>1. \A t \in Tables : /\ Cardinality(PartsOf[t] \cap loaded) \in Nat
                          /\ Cardinality(PartsOf[t] \cap loaded) <= Cardinality(Parts)
    <3>1. SUFFICES ASSUME NEW t \in Tables
                   PROVE  /\ Cardinality(PartsOf[t] \cap loaded) \in Nat
                          /\ Cardinality(PartsOf[t] \cap loaded) <= Cardinality(Parts)
      OBVIOUS
    <3>2. PartsOf[t] \cap loaded \subseteq Parts
      BY DEF PartsOf
    <3>3. QED
      BY <3>2, MigrationAssumption, FS_Subset, FS_CardinalityType
  <2>2. Cardinality(Parts) \in Nat
    BY MigrationAssumption, FS_CardinalityType
  <2>3. count \in [Tables -> -999 .. Cardinality(Parts)]
    <3>1. \A t \in Tables : count[t] \in -999 .. Cardinality(Parts)
      <4>1. SUFFICES ASSUME NEW t \in Tables PROVE count[t] \in -999 .. Cardinality(Parts)
        OBVIOUS
      <4>2. count[t] \in -999 .. Cardinality(PartsOf[t] \cap loaded)
        BY DEF IInv, LogInv, CountBound
      <4>3. QED
        BY <2>1, <2>2, <4>2
    <3>2. count \in [Tables -> Int]
      BY DEF IInv, LogInv
    <3>3. QED
      BY <3>1, <3>2
  <2>4. QED
    BY <2>3 DEF IInv, SInv, SessionType, RestType, TypeOK
<1>2. QED
  BY <1>1, Inductive, PTL

\* However many sessions load the parts of a table, and in whatever order,
\* their counts are added and none is lost.
THEOREM CountSafety == Spec => []CountAddsUp
<1>1. IInv => CountAddsUp
  BY DEF IInv, LogInv
<1>2. QED
  BY <1>1, Inductive, PTL

\* The log of a table that is loaded in one part is true.
THEOREM OnePartSafety == Spec => []OnePartIsLoggedTruly
<1>1. IInv => OnePartIsLoggedTruly
  BY DEF IInv, LogInv
<1>2. QED
  BY <1>1, Inductive, PTL

\* No other session takes from a session's own table its rows, its index or
\* its key, nor what the logs say of it.
THEOREM OwnTableSafety == Spec => []OwnTablesAreComplete
<1>1. IInv => OwnTablesAreComplete
  <2>. SUFFICES ASSUME IInv, NEW p \in Chosen, Own(p),
                       phase[InstanceOf[p]] \in {"alter", "done"}, TableOf[p] \notin spoiled
                PROVE  /\ p \in loaded /\ TableOf[p] \in indexed /\ TableOf[p] \in keyed
                       /\ result[TableOf[p]] = "SUCCESS" /\ indexResult[TableOf[p]] = "SUCCESS"
    BY DEF OwnTablesAreComplete, Own
  <2>1. Stage(p)
    BY DEF IInv, OwnInv
  <2>2. QED
    BY <2>1 DEF Stage, LoadStage, IndexStage, KeyStage
<1>2. QED
  BY <1>1, Inductive, PTL

\* Whoever has the log's lock waits for nothing, and whoever has a table's
\* waits for a log's at most: there is no circle.
THEOREM DeadlockFree == Spec => []NoDeadlock
<1>1. IInv => NoDeadlock
  <2>. SUFFICES ASSUME IInv, NEW S \in SUBSET Instances, S # {},
                       \A i \in S : \E j \in S : WaitsFor(i, j)
                PROVE  FALSE
    BY DEF NoDeadlock, Waiting
  <2>1. ASSUME NEW i \in S, NEW j \in S, WaitsFor(i, j)
        PROVE  \/ doing[j] \in {"started", "counted", "failed", "indexing", "keying", "altering"}
               \/ doing[i] = "waiting" /\ doing[j] \in {"loading", "counting"}
    <3>1. i \in Instances /\ j \in Instances /\ Transactions
      BY DEF IInv, SInv
    <3>2. doing[i] \in {"starting", "counting", "failing", "waiting"}
      BY <2>1 DEF WaitsFor
    <3>3. Table(i) \in Tables
      BY <3>1, <3>2, SubjectIsMine DEF IInv, Table, Inserting
    <3>4. QED
      BY <2>1, <3>1, <3>3 DEF WaitsFor, Transactions, Exclusive, Shared
  <2>2. \A j \in S : doing[j] \in {"starting", "counting", "failing", "waiting"}
    BY DEF WaitsFor
  <2>3. ASSUME NEW i \in S PROVE \E j \in S : doing[i] = "waiting" /\ doing[j] = "counting"
    BY <2>1, <2>2
  <2>4. QED
    BY <2>3
<1>2. QED
  BY <1>1, Inductive, PTL
=============================================================================
