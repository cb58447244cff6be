----------------------------- MODULE Migration -----------------------------
(***************************************************************************)
(* The Oracle migration: sqlplus sessions, one per INST_ID, run side by    *)
(* side, each loading its rows of MSJ_MIG_TABLE over a database link, then *)
(* creating the indexes and primary keys of the tables it has loaded from, *)
(* then setting them to LOGGING.  A table may be loaded in several parts   *)
(* (TABLE_NAME, MIG_SQL), by several sessions.  MSJ_MIG_JOB_LOG has a row  *)
(* for each part, and every UPDATE is of all the rows of the table, in the *)
(* same order: they are one row here, and one lock.  A statement is a step *)
(* in which it gets its lock and one in which it ends.  MIG_COUNT is       *)
(* counted in loads; a table has one index.  Left out: dates but for their *)
(* being set, the texts of the statements, the LOGGING attributes of step  *)
(* 4, the statistics of step 5, an UPDATE that fails in the exception      *)
(* handler, and the row locks of MSJ_MIG_INDEX_LOG, which no session has   *)
(* while it waits.                                                         *)
(***************************************************************************)
EXTENDS Integers, FiniteSets

CONSTANTS
    Instances,   \* the INST_IDs
    Teams,       \* those an operator opens a session for
    Tables,
    Parts,       \* the rows of MSJ_MIG_TABLE
    Chosen,      \* those whose MIG_TYPE is 'A' or null
    TableOf, InstanceOf,
    Nothing      \* the subject of a session that runs no statement

ASSUME MigrationAssumption ==
    /\ IsFiniteSet(Parts) /\ Chosen \subseteq Parts
    /\ Tables \cap Parts = {}
    /\ Teams \subseteq SUBSET Instances
    /\ TableOf \in [Parts -> Tables]
    /\ InstanceOf \in [Parts -> Instances]

VARIABLES
    phase, todo, doing, work,    \* each session: script, cursor, statement and its subject
    count, result,               \* MSJ_MIG_JOB_LOG, by table
    indexResult,                 \* MSJ_MIG_INDEX_LOG, by table
    started,                     \* tables whose MIG_START_DT is committed
    loaded,                      \* parts whose load is committed
    held, pending,               \* each session's transaction: locks, parts inserted
    indexed, keyed,              \* tables with index and key
    failed, spoiled              \* history: parts not loaded, tables whose load, index or key failed

sessions == <<phase, todo, doing, work>>
joblog == <<count, result>>
schema == <<indexed, keyed>>
history == <<failed, spoiled>>
transactions == <<held, pending>>
data == <<started, loaded, transactions>>
vars == <<sessions, joblog, indexResult, data, schema, history>>

\* 1_Insert.sql to 4_Alter_Table_Index.sql, in the order of Com.sql.
Scripts == {"insert", "index", "key", "alter"}
Results == {"none", "SUCCESS", "FAIL"}

\* The cursors: an INST_ID's rows to be loaded, the tables of those, and the
\* tables of all its rows.
Cursor(i, script) ==
    CASE script = "insert" -> {p \in Chosen : InstanceOf[p] = i}
      [] script \in {"index", "key"} -> {TableOf[p] : p \in {q \in Chosen : InstanceOf[q] = i}}
      [] script = "alter" -> {TableOf[p] : p \in {q \in Parts : InstanceOf[q] = i}}
      [] OTHER -> {}

Init ==
    /\ \E team \in Teams : phase = [i \in Instances |-> IF i \in team THEN "insert" ELSE "closed"]
    /\ todo = [i \in Instances |-> Cursor(i, phase[i])]
    /\ doing = [i \in Instances |-> "nothing"]
    /\ work = [i \in Instances |-> Nothing]
    /\ count = [t \in Tables |-> 0]
    /\ result = [t \in Tables |-> "none"] /\ indexResult = [t \in Tables |-> "none"]
    /\ started = {} /\ loaded = {} /\ indexed = {} /\ keyed = {}
    /\ held = [i \in Instances |-> {}]
    /\ pending = [i \in Instances |-> {}]
    /\ failed = {} /\ spoiled = {}

----------------------------------------------------------------------------
(* Locks: a direct-path load excludes every other statement on its table   *)
(* up to the end of the transaction, ADD CONSTRAINT and ALTER while they   *)
(* run, and CREATE INDEX excludes those.  An UPDATE of the log excludes    *)
(* those of other sessions up to the end of the transaction.               *)

Locks == {"table", "log"} \X Tables

Exclusive(i, t) == <<"table", t>> \in held[i] \/ (doing[i] \in {"keying", "altering"} /\ work[i] = t)
Shared(i, t) == doing[i] = "indexing" /\ work[i] = t

NoExclusive(i, t) == \A j \in Instances \ {i} : ~Exclusive(j, t)
NoLock(i, t) == \A j \in Instances \ {i} : ~Exclusive(j, t) /\ ~Shared(j, t)
LogFree(i, t) == \A j \in Instances \ {i} : <<"log", t>> \notin held[j]

Idle(i, script) == phase[i] = script /\ doing[i] = "nothing"

Begin(i, x, what) ==
    /\ work' = [work EXCEPT ![i] = x]
    /\ todo' = [todo EXCEPT ![i] = @ \ {x}]
    /\ doing' = [doing EXCEPT ![i] = what]
    /\ UNCHANGED phase

Skip(i, x) == todo' = [todo EXCEPT ![i] = @ \ {x}] /\ UNCHANGED <<phase, doing, work>>

Leave(i) ==
    /\ doing' = [doing EXCEPT ![i] = "nothing"]
    /\ work' = [work EXCEPT ![i] = Nothing]

End(i) == Leave(i) /\ UNCHANGED <<phase, todo>>

Following == [insert |-> "index", index |-> "key", key |-> "alter", alter |-> "done"]

\* EXIT WHEN CUR1%NOTFOUND, and Com.sql runs the next script.
NextScript(i) ==
    /\ \E script \in Scripts : Idle(i, script)
    /\ todo[i] = {}
    /\ phase' = [phase EXCEPT ![i] = Following[@]]
    /\ todo' = [todo EXCEPT ![i] = Cursor(i, Following[phase[i]])]
    /\ UNCHANGED <<doing, work, joblog, indexResult, data, schema, history>>

----------------------------------------------------------------------------
(* PR_MIG_INSERT.  What a transaction does to the log is seen with its     *)
(* COMMIT, and is a part of that step.                                     *)

Table(i) == TableOf[work[i]]

Goes(i, next) == doing' = [doing EXCEPT ![i] = next] /\ UNCHANGED <<phase, todo, work>>
Takes(i, kind) == held' = [held EXCEPT ![i] = @ \cup {<<kind, Table(i)>>}]

Releases(i) ==
    /\ held' = [held EXCEPT ![i] = {}]
    /\ pending' = [pending EXCEPT ![i] = {}]

\* Mutant: the session commits once, after its last part.
Commit_AtEnd(i) ==
    IF todo[i] = {} THEN loaded' = loaded \cup pending[i] /\ Releases(i)
    ELSE UNCHANGED <<loaded, transactions>>

Commit(i) == loaded' = loaded \cup pending[i] /\ Releases(i)

Rollback(i) == Releases(i) /\ UNCHANGED loaded

StartLoad(i) ==
    /\ Idle(i, "insert")
    /\ \E p \in todo[i] : Begin(i, p, "starting")
    /\ UNCHANGED <<joblog, indexResult, data, schema, history>>

\* MIG_START_DT of the rows that have none yet.
LogStart(i) ==
    /\ doing[i] = "starting"
    /\ \/ Table(i) \in started /\ UNCHANGED held
       \/ Table(i) \notin started /\ LogFree(i, Table(i)) /\ Takes(i, "log")
    /\ Goes(i, "started")
    /\ UNCHANGED <<joblog, indexResult, started, loaded, pending, schema, history>>

CommitStart(i) ==
    /\ doing[i] = "started"
    /\ started' = started \cup {Table(i)}
    /\ Commit(i)
    /\ Goes(i, "waiting")
    /\ UNCHANGED <<joblog, indexResult, schema, history>>

\* The load waits for the lock of its table.
Load(i) ==
    /\ doing[i] = "waiting"
    /\ NoLock(i, Table(i))
    /\ Takes(i, "table")
    /\ Goes(i, "loading")
    /\ UNCHANGED <<joblog, indexResult, started, loaded, pending, schema, history>>

LoadEnds(i) ==
    /\ doing[i] = "loading"
    /\ pending' = [pending EXCEPT ![i] = @ \cup {work[i]}]
    /\ Goes(i, "counting")
    /\ UNCHANGED <<joblog, indexResult, started, loaded, held, schema, history>>

LogCount(i) ==
    /\ doing[i] = "counting"
    /\ LogFree(i, Table(i))
    /\ Takes(i, "log")
    /\ Goes(i, "counted")
    /\ UNCHANGED <<joblog, indexResult, started, loaded, pending, schema, history>>

\* Mutant: the count of the part replaces the one of the parts before.
CommitLoad_Overwrites(i) ==
    /\ doing[i] = "counted"
    /\ count' = [count EXCEPT ![Table(i)] = 1]
    /\ result' = [result EXCEPT ![Table(i)] = "SUCCESS"]
    /\ Commit(i)
    /\ End(i)
    /\ UNCHANGED <<indexResult, started, schema, history>>

\* MIG_COUNT = NVL(MIG_COUNT, 0) + ..., JOB_RESULT = 'SUCCESS'
CommitLoad(i) ==
    /\ doing[i] = "counted"
    /\ count' = [count EXCEPT ![Table(i)] = @ + 1]
    /\ result' = [result EXCEPT ![Table(i)] = "SUCCESS"]
    /\ Commit(i)
    /\ End(i)
    /\ UNCHANGED <<indexResult, started, schema, history>>

\* Mutant: no ROLLBACK in the exception handler.
LoadFails_Keeps(i) ==
    /\ doing[i] \in {"starting", "waiting", "loading", "counting"}
    /\ Goes(i, "failing")
    /\ UNCHANGED <<joblog, indexResult, data, schema, history>>

\* WHEN OTHERS: ROLLBACK, whichever statement it was, running or waiting.
LoadFails(i) ==
    /\ doing[i] \in {"starting", "waiting", "loading", "counting"}
    /\ Rollback(i)
    /\ Goes(i, "failing")
    /\ UNCHANGED <<joblog, indexResult, started, schema, history>>

LogFailure(i) ==
    /\ doing[i] = "failing"
    /\ LogFree(i, Table(i))
    /\ Takes(i, "log")
    /\ Goes(i, "failed")
    /\ UNCHANGED <<joblog, indexResult, started, loaded, pending, schema, history>>

\* Mutant: -999 is added.
CommitFailure_Adds(i) ==
    /\ doing[i] = "failed"
    /\ count' = [count EXCEPT ![Table(i)] = @ - 999]
    /\ result' = [result EXCEPT ![Table(i)] = "FAIL"]
    /\ failed' = failed \cup {work[i]} /\ spoiled' = spoiled \cup {Table(i)}
    /\ Commit(i)
    /\ End(i)
    /\ UNCHANGED <<indexResult, started, schema>>

CommitFailure(i) ==
    /\ doing[i] = "failed"
    /\ count' = [count EXCEPT ![Table(i)] = -999]
    /\ result' = [result EXCEPT ![Table(i)] = "FAIL"]
    /\ failed' = failed \cup {work[i]} /\ spoiled' = spoiled \cup {Table(i)}
    /\ Commit(i)
    /\ End(i)
    /\ UNCHANGED <<indexResult, started, schema>>

----------------------------------------------------------------------------
(* PR_MIG_CREATE_INDEX: DDL does not wait for a lock, it fails. *)

StartIndex(i) ==
    /\ Idle(i, "index")
    /\ \E t \in todo[i] : NoExclusive(i, t) /\ t \notin indexed /\ Begin(i, t, "indexing")
    /\ UNCHANGED <<joblog, indexResult, data, schema, history>>

IndexRefused(i) ==
    /\ Idle(i, "index")
    /\ \E t \in todo[i] :
        /\ ~NoExclusive(i, t) \/ t \in indexed
        /\ indexResult' = [indexResult EXCEPT ![t] = "FAIL"]
        /\ Skip(i, t)
    /\ UNCHANGED <<joblog, data, schema, history>>

CreateIndex(i) ==
    /\ doing[i] = "indexing"
    /\ indexed' = indexed \cup {work[i]}
    /\ indexResult' = [indexResult EXCEPT ![work[i]] = IF work[i] \in indexed THEN "FAIL" ELSE "SUCCESS"]
    /\ End(i)
    /\ UNCHANGED <<joblog, data, keyed, history>>

IndexFails(i) ==
    /\ doing[i] = "indexing"
    /\ indexResult' = [indexResult EXCEPT ![work[i]] = "FAIL"]
    /\ spoiled' = spoiled \cup {work[i]}
    /\ End(i)
    /\ UNCHANGED <<joblog, data, schema, failed>>

----------------------------------------------------------------------------
(* PR_MIG_CREATE_PK swallows its errors, PR_MIG_ALTER_TABLE_INDEX does not. *)

StartKey(i) ==
    /\ Idle(i, "key")
    /\ \E t \in todo[i] : NoLock(i, t) /\ t \notin keyed /\ Begin(i, t, "keying")
    /\ UNCHANGED <<joblog, indexResult, data, schema, history>>

KeyRefused(i) ==
    /\ Idle(i, "key")
    /\ \E t \in todo[i] : (~NoLock(i, t) \/ t \in keyed) /\ Skip(i, t)
    /\ UNCHANGED <<joblog, indexResult, data, schema, history>>

AddKey(i) ==
    /\ doing[i] = "keying"
    /\ keyed' = keyed \cup {work[i]}
    /\ End(i)
    /\ UNCHANGED <<joblog, indexResult, data, indexed, history>>

\* Mutant: no exception handler, the keys of the other tables are left out.
KeyFails_Raises(i) ==
    /\ doing[i] = "keying"
    /\ spoiled' = spoiled \cup {work[i]}
    /\ Leave(i)
    /\ todo' = [todo EXCEPT ![i] = {}]
    /\ UNCHANGED <<phase, joblog, indexResult, data, schema, failed>>

KeyFails(i) ==
    /\ doing[i] = "keying"
    /\ spoiled' = spoiled \cup {work[i]}
    /\ End(i)
    /\ UNCHANGED <<joblog, indexResult, data, schema, failed>>

StartAlter(i) ==
    /\ Idle(i, "alter")
    /\ \E t \in todo[i] : NoLock(i, t) /\ Begin(i, t, "altering")
    /\ UNCHANGED <<joblog, indexResult, data, schema, history>>

Alter(i) ==
    /\ doing[i] = "altering"
    /\ End(i)
    /\ UNCHANGED <<joblog, indexResult, data, schema, history>>

\* The exception leaves the loop: the tables that follow are not altered.
AlterRaises(i) ==
    /\ \/ doing[i] = "altering"
       \/ Idle(i, "alter") /\ \E t \in todo[i] : ~NoLock(i, t)
    /\ phase' = [phase EXCEPT ![i] = "done"]
    /\ Leave(i)
    /\ todo' = [todo EXCEPT ![i] = {}]
    /\ UNCHANGED <<joblog, indexResult, data, schema, history>>

\* Mutant: Oracle does not notice, and the locks stay.
Dies_KeepsLocks(i) ==
    /\ phase[i] \in Scripts
    /\ phase' = [phase EXCEPT ![i] = "closed"]
    /\ Leave(i)
    /\ todo' = [todo EXCEPT ![i] = {}]
    /\ UNCHANGED <<joblog, indexResult, data, schema, history>>

\* The terminal is lost: Oracle rolls back what the session had not committed.
Dies(i) ==
    /\ phase[i] \in Scripts
    /\ phase' = [phase EXCEPT ![i] = "closed"]
    /\ Leave(i)
    /\ todo' = [todo EXCEPT ![i] = {}]
    /\ Rollback(i)
    /\ UNCHANGED <<joblog, indexResult, started, schema, history>>

Step(i) ==
    /\ phase[i] \in Scripts
    /\ \/ NextScript(i)
       \/ StartLoad(i) \/ LogStart(i) \/ CommitStart(i) \/ Load(i) \/ LoadEnds(i)
       \/ LogCount(i) \/ CommitLoad(i) \/ LogFailure(i) \/ CommitFailure(i)
       \/ StartIndex(i) \/ IndexRefused(i) \/ CreateIndex(i)
       \/ StartKey(i) \/ KeyRefused(i) \/ AddKey(i)
       \/ StartAlter(i) \/ Alter(i) \/ AlterRaises(i)

Fails(i) == LoadFails(i) \/ IndexFails(i) \/ KeyFails(i) \/ Dies(i)

Over == (\A i \in Instances : phase[i] \in {"done", "closed"}) /\ UNCHANGED vars

Next == (\E i \in Instances : Step(i) \/ Fails(i)) \/ Over

\* A session goes on, and a statement that has its lock ends.  That one
\* fails, which would also end its waiting, is never owed.
Spec == Init /\ [][Next]_vars /\ \A i \in Instances : WF_vars(Step(i))

----------------------------------------------------------------------------
Inserting == {"starting", "started", "waiting", "loading", "counting", "counted", "failing", "failed"}

TypeOK ==
    /\ phase \in [Instances -> Scripts \cup {"done", "closed"}]
    /\ todo \in [Instances -> SUBSET (Parts \cup Tables)]
    /\ doing \in [Instances -> {"nothing"} \cup Inserting \cup {"indexing", "keying", "altering"}]
    /\ work \in [Instances -> Parts \cup Tables \cup {Nothing}]
    /\ count \in [Tables -> -999 .. Cardinality(Parts)]
    /\ result \in [Tables -> Results] /\ indexResult \in [Tables -> Results]
    /\ started \subseteq Tables /\ loaded \subseteq Chosen /\ failed \subseteq Chosen
    /\ indexed \subseteq Tables /\ keyed \subseteq Tables
    /\ spoiled \subseteq Tables
    /\ held \in [Instances -> SUBSET Locks] /\ pending \in [Instances -> SUBSET Chosen]

PartsOf == [t \in Tables |-> {p \in Parts : TableOf[p] = t}]

\* As long as no load of a table fails, MIG_COUNT is what all its parts have
\* loaded, from whichever sessions, and never what one of them has.
CountAddsUp ==
    \A t \in Tables :
        PartsOf[t] \cap failed = {} => count[t] = Cardinality(PartsOf[t] \cap loaded)

\* The log of a table that is loaded in one part can be trusted whatever
\* happens to the load: SUCCESS means the rows are there, FAIL that not one is.
OnePartIsLoggedTruly ==
    \A p \in Chosen :
        PartsOf[TableOf[p]] = {p} =>
            /\ result[TableOf[p]] = "SUCCESS" <=> p \in loaded
            /\ result[TableOf[p]] = "FAIL" <=> p \in failed

\* Sessions disturb each other through tables they share only: a table all
\* parts of which belong to one session has its rows, index and key, and
\* both logs say so, once that session is past its third script, unless a
\* load, index or key of this very table has failed.
OwnTablesAreComplete ==
    \A p \in Chosen :
        LET t == TableOf[p] IN
        /\ \A q \in PartsOf[t] : InstanceOf[q] = InstanceOf[p]
        /\ phase[InstanceOf[p]] \in {"alter", "done"}
        /\ t \notin spoiled
        => /\ p \in loaded
           /\ t \in indexed /\ t \in keyed
           /\ result[t] = "SUCCESS" /\ indexResult[t] = "SUCCESS"

\* A session waits for the lock that another has.
WaitsFor(i, j) ==
    /\ i # j
    /\ \/ /\ \/ doing[i] = "starting" /\ Table(i) \notin started
             \/ doing[i] \in {"counting", "failing"}
          /\ <<"log", Table(i)>> \in held[j]
       \/ /\ doing[i] = "waiting"
          /\ Exclusive(j, Table(i)) \/ Shared(j, Table(i))

Waiting == {i \in Instances : \E j \in Instances : WaitsFor(i, j)}

\* The locks are taken one after the other, the log's, the table's, the log's
\* again, by sessions that cross each other on the same tables; the COMMIT
\* between keeps them from waiting in a circle, which Oracle would break with
\* an ORA-00060 that is logged as the failure of a load.
NoDeadlock ==
    \A S \in SUBSET Waiting :
        S # {} => \E i \in S : \A j \in S : ~WaitsFor(i, j)

\* No session waits for ever for a lock, were it that of a lost session.
SessionsFinish == <>(\A i \in Instances : phase[i] \in {"done", "closed"})

\* What MSJ_MIG_JOB_LOG.sql and the usage guide say of JOB_RESULT: SUCCESS
\* after a success, an error code after a failure.
FailureIsLogged ==
    \A p \in failed : result[TableOf[p]] = "FAIL"
=============================================================================
