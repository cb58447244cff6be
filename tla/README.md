# Verification of DBA_scripts

The repository is a database administrator's collection: SQL statement
collections for six database products, a few shell and Python utilities, and
two real programs. **HANASitter** (`src/SAP HANA 2.0/hanasitter/.../hanasitter.py`,
Python 2, 1539 lines) is a watchdog that pings SAP HANA, checks its critical
features, records traces when HANA hangs, and can disconnect sessions. The
**Oracle migration** (`src/Oracle/Database 19c/3. Migration`, PL/SQL) loads
tables from another database in parallel sessions that share their logs. The
project models both; line numbers without a file are lines of `hanasitter.py`.

## Inventory

### HANASitter

| Component | State | Operations | Interacts with |
|---|---|---|---|
| `main` loop (1511-1533) | flags, `hdbcons`, exit path | temporary folders, online check, tracker call, sleeps, ctrl-c and exception handling | tracker, `HDBCONS` |
| `tracker` (772-840) | `recorded`, `offline`, `chid`, the feature thread, `hdbcons.hostsForRecording` | one round: CPU check, ping, feature checks, recording, `stop_session`, housekeeping | everything below |
| `hana_ping` / `ping_db` (430-459) | `hanging`, `pinged`, `offline`, `lifetime`, shared `output[0]`, a Timer thread per attempt | start thread, join with timeout, sample liveness, read the output, retry, give up | `hdbsql` |
| `feature_check` (580-620) | shared `nbrCFsPerHost[0]`, running sums | check views and columns, count, average | `hdbsql`, `os._exit` from the thread |
| `cpu_too_high` (530-553) | none | run `sar`, compare the average | `sar` |
| `record` (703-770) | which recorder ran how often | recording modes 1, 2 and 3 (pool of processes) | recorders |
| recorders (623-701) | files in the output folder | gstack, kernel profiler, call stacks, run time dumps | `hdbcons`, `gstack` |
| `stop_session` (555-576) | sessions of HANA | look up, disconnect, verify | `hdbsql` |
| `HDBCONS` (265-313) | `hostsForRecording`, temporary folders | create and remove the temporary folders | file system |
| housekeeping (486-498) | files of the output and log folder | delete what is older than the retention | `find` |
| `log`, `EmailNotification` (218-233, 853-873) | log file of the day | append, send a mail | `mailx` |
| command line and configuration file (875-1441) | the flags | parse, validate, reject | `os._exit` |
| topology discovery (247-259, 500-528, 1119-1202) | tenants, ports, hosts | read `daemon.ini`, `hdbuserstore`, `landscape` | file system, `sapcontrol` |

**How they interact.** Everything runs in one process. The main thread calls
the rest as functions, except that each ping attempt and each feature check is
a `Timer` thread which the main thread joins with a timeout. When the timeout
passes, the thread is abandoned and runs on. Threads and main thread share a
one-element list, without a lock. Recording mode 3 forks a pool of processes.
`os._exit` may be called from any thread; exceptions in a thread only end the
thread; exceptions in the main thread reach `main`, which removes the temporary
folders and calls `sys.exit`, which waits for every thread left.

**What is hard.** Reading shared state at different moments (448-453), verdicts
that outlive their round (`hostsForRecording`, 827), threads that die (816) or
never end (806, 1520), synchronous database calls without a timeout on exactly
the path taken when the database hangs (829-830), failing shell commands on
every path, and file names with one-second resolution.

**What makes it correct.** A ping's verdict is justified and comes in bounded
time. A recording covers the hosts that were found guilty, once per round, and
is complete before sessions are disconnected. A round ends without a recording
only if every feature was found harmless. A hang that lasts is recorded. Threads
do not pile up in the hanging database. Temporary folders exist when the kernel
profiler needs them and are gone after an exit. A program told to exit exits.

### Oracle migration

| Component | State | Operations | Interacts with |
|---|---|---|---|
| the sessions of `Com.sql` | the script each is at, its cursor | run `1_Insert.sql` to `4_Alter_Table_Index.sql` one after the other, per `INST_ID` | one another, by locks and logs |
| `PR_MIG_FETCH`, `PR_MIG_INSERT` | `MSJ_MIG_JOB_LOG`, a row for each part, updated by table | direct-path load of each part of a table, count and result, rollback and -999 | `MSJ_MIG_TABLE`, the tables |
| `PR_MIG_INDEX_FETCH`, `PR_MIG_CREATE_INDEX` | `MSJ_MIG_INDEX_LOG` | create the index, log it | the loads of other sessions |
| `PR_MIG_PK_FETCH`, `PR_MIG_CREATE_PK` | none | add the primary key, swallow errors | the same |
| `PR_MIG_ALTER_TABLE_INDEX` | none | set table and indexes to LOGGING, no handler | the same |

**What is hard.** A table may be split into parts that different sessions load,
while its log is updated as a whole; loads exclude each other until they commit,
and so do the updates of the log before and after the load, by sessions that may
cross each other on several tables; DDL does not wait for a lock but fails; any
statement may fail, also while it waits, and a terminal may be lost between any
two commits. **What makes it correct.** Counts add up over the sessions, the log
says what is in the table, sessions that share no table do not disturb one
another, no sessions wait in a circle, and none waits for ever.

### The rest of the repository

| Component | What it is | Treatment |
|---|---|---|
| GCP log scripts (`GCP Cloud Shell`) | one export and one dump command each, for an operator | not modelled: no state and no error handling of their own |
| Redshift deployment (`CICD`) | straight-line scripts that turn a text into files | not modelled: what they do is the formatting of text |
| Shell scripts (Oracle export and backup) | one command after the other, retention by file age | not modelled: no branch to explore |
| Python utilities | replace strings in files and file names | not modelled: the first does not compile (an unbalanced quote in line 9), the path of the second has escapes and names no directory |
| SQL collections (HANA, MySQL, Oracle, PostgreSQL, SQL Server, Redshift) | read-only queries and DDL samples | not modelled: nothing of their own changes state |
| Documents, traces, images, zip files | data | not modelled |

## Modules

| Module | Role |
|---|---|
| `PingContract` | what one call of `hana_ping` promises `tracker` |
| `HanaPing` | `hana_ping` and `ping_db`, caller and Timer thread step by step; implements `PingContract` |
| `HanaSitter` | `main`'s loop and `tracker`, with the feature threads, failures and exits; uses a ping as `PingContract` allows it |
| `RecordContract` | what one call of `record` promises `tracker` |
| `Recorder` | `record` in its three modes and the four recorders; implements `RecordContract` |
| `FeatureContract` | what one check of a critical feature promises `tracker` |
| `FeatureCheck` | `feature_check` in its Timer thread, and the verdict of `tracker` on it |
| `StopSession` | `stop_session` over sessions that come and go |
| `CriticalFeature` | one critical feature: `FeatureCheck`, the recording it causes, `StopSession`; implements `FeatureContract` |
| `SitterConfig` | how `main` arrives at its settings: defaults, file, command line, checks |
| `Topology` | how `main` finds the database it watches |
| `Startup` | `main` up to its loop: `Topology` in its place in `SitterConfig` |
| `Migration` | the sessions of the Oracle migration |
| `MCHanaSitter`, `MCRecorder`, `MCCriticalFeature`, `MCStartup`, `MCMigration` | instances for TLC |
| `HanaPing_proofs`, `HanaSitter_proofs`, `Recorder_proofs`, `Feature_proofs`, `Settings_proofs`, `Startup_proofs`, `Migration_proofs` | theorems |

The modules compose by contract. `HanaSitter` treats a ping as the five actions
`PingOk`, `PingHangs`, `PingOffline`, `PingAborts` and `PingRaises`, which are the
verdicts of `PingContract`; `HanaPing` is shown to have no others. It treats a recording as
a set of hosts that grows until it is complete (`RecordHost`, `RecordEnds`) or
ends in an exception (`RecordFails`), which is `RecordContract` with the types
and numbers forgotten; `Recorder` is shown to keep it. Of a feature check it has the two phases of the
thread, its result and its ways to end, each with the verdict `FeatureContract`
allows for it; `CriticalFeature`, which opens `feature_check` and `stop_session`
over the same set of sessions, is shown to keep that contract. Between the answer
of HANA and the verdict that follows from it, `HanaSitter` lets HANA not change:
nothing else of the tracker happens there, and what HANA does meanwhile may as
well happen right after. `Startup` replaces
the one step `Discover` of `SitterConfig` by the steps of `Topology`, and is
shown to implement `SitterConfig`; what it lets through are the flags
`HanaSitter` and `Recorder` assume (`RecordingIsWellDefined`: `-rp` is an order
of the four types, host mode has several hosts and no gstack).

### HanaPing

`pc` walks through the loop of `hana_ping` (443-458): start the thread, `join`,
sample `is_alive` (448), read `output[0]` (449), decide. `thread` and `output`
belong to `ping_db`; `thread = "returning"` is the time between the assignment
of the row and the end of the thread, in which 448 and 449 can disagree. The
database changes at any moment. An output of fewer than three lines raises
(`ReadRaises`, 450). Time is counted in pauses of `ping_timeout/10.`.
`Tenths` is 10 in the code and in the runs, and arbitrary in the proofs;
the additions of `pause` in floating point are taken as exact.

### HanaSitter

| Code | Model |
|---|---|
| the statement the main thread is at | `pc` |
| flags | `cfg`, a record of those that change the control flow |
| `hdbcons.hostsForRecording`, `recorded` | variables of the same name |
| the Timer thread of 806 and `nbrCFsPerHost[0]` | `check`, `result` |
| threads abandoned by `join` | `zombies`, counted by what they wait for |
| `hdbcons.temp_host_output_dirs` that exist | `tempDirs` |
| `sys.exit()` in `main` | `Raise` then `Exit`, which waits for the threads |
| `os._exit(1)` from any thread | `Kill` |
| HANA, `sapcontrol`, `hdbnsutil` | `hana` and the guards `Answers`, `Refuses` |

The online check is a command that counts services (413-416) and may say no in
any state of HANA: `NotOnline` does not look at `hana`, and `Online` only at whether
it is a secondary. `harmless` is
history: the features of the round that were counted and not found wrong. `CtrlC`
leaves the thread it interrupts behind, that of a ping as well as that of a
feature. `StopSession` ends or raises once HANA answers, and waits until then.

A command that may fail has an action for the failure, with the exception
handling of `main`. `log` with `sendEmail` is part of each alarm. A mail is sent
before the recording, and so its failure ends the program without one
(`MailFails`). In host mode the culprits come from the HOST column of a
monitoring view, which may name hosts this database does not use.

### Recorder

`i` and `pos` are the two loop variables of modes 1 and 2, in whichever order
they are nested; in mode 3 `pos` tells whether `pool.map` waits. `active` and
`hostsLeft` are the recorder calls under way, `count` those that have
returned. A file is identified by type and host while its second lasts: `fresh`
holds the names of the current second, `NextSecond` empties it, and `lost`
remembers a name that was written twice. Between two recordings that sleep a
second or more, `NextSecond` must have happened; this is the only fact about
time the model has. After a failure in mode 3 the other processes go on until
the exit of the program ends them (`Terminate`).

### CriticalFeature

| Code | Model |
|---|---|
| a session of HANA, as the monitoring view has it | `row`: not there yet, there, matching the where clause, gone |
| `crit_feature` with `-if`, `-ks`, `-tf`, `-hm`, `-lf` | `cf` |
| the statement of `feature_check` its thread waits for | `thread`, `iteration`, `pending` |
| `nbrCFSum` | the same: a function on the hosts counted |
| `time.sleep(interval)`, `t.join(...)` | `wake`, `waited`, in delays of the `Timer` (0.1 s) |
| `hostsWithWrongNbrCFs` | `culprits` |
| `connIds`, `connId` and the lines logged in `stop_session` | the same, and `report` |

Each query of `feature_check` and `stop_session` is a step, and the sessions
move between any two (`RowChanges`). `busy`, `wrong`, `right` and `lasting` are
history: how long HANA was asked something, which numbers were wrong or right at
every moment so far, which sessions have matched since `stop_session` was called.
Time does not pass a thread whose sleep is over (`Due`), since the operating
system wakes it. A query that raises ends the thread (`QueryFails`, then
`JudgeDead`); wrong input ends the process (`InputError`).

### Startup

A setting is the list of its items, and a line of the file or an argument is a
flag with items and the character between them; formats inside an item are
`IntOf`, `Emails` and `Limits`. `ReadLine` is one line of 989-1032,
`ReadCommandLine` 1034-1117. The checks are actions in the order of the code,
each with the outcomes *rejected* (a message and `os._exit`), *crashed* (a Python
exception) and *unavailable* (an exception because HANA is down); where a check
of one stage rejects before and another after the statement that raises,
`Verdict` has both. `Topology` reads `daemon.ini` line by line, as
`tenant_names_and_ports` does; `hdbuserstore`, `HDB info`, `sapcontrol` and the
lock files are fields of `system`, and its field `databases`, what really runs,
is seen by the properties only.

### Migration

| Code | Model |
|---|---|
| the script of `Com.sql` a session is at | `phase`; `closed` before its terminal is opened, or after it is lost |
| the sessions an operator opens | `Teams`, one of which is run |
| the open cursor of a `FETCH` procedure | `todo` |
| the statement that runs, and on what | `doing`, `work` |
| `MIG_COUNT`, `JOB_RESULT`, `INDEX_LOG` | `count`, `result`, `indexResult` |
| `MIG_START_DT` is set | `started` |
| committed rows, indexes and keys | `loaded`, `indexed`, `keyed` |
| the transaction of a session: its locks, its rows not yet committed | `held`, `pending` |

`PR_MIG_INSERT` is modelled statement by statement: the UPDATE of the start date
(`LogStart`, 29) with its COMMIT (30), the direct-path load that waits for the
table and has it until the end of the transaction (32), the UPDATE of the count
(35) with its COMMIT (36), and the handler: ROLLBACK (39), the UPDATE of the failure
(41) and its COMMIT (42). The UPDATEs wait for the rows of the log. `MSJ_MIG_JOB_LOG`
has a row for each part (`msj_migration_solution_preparation.sql:260`), and every
UPDATE is of all rows of a table, so that they are one lock and one value here. An
index, key or alteration that finds the table locked is refused (ORA-00054).
`IndexFails` logs, `KeyFails` swallows, `AlterRaises` leaves the loop. `Dies` is a
terminal lost at any moment; Oracle then rolls back.

## Runs

| Run | States | What it shows |
|---|---|---|
| `hanaping_contract` | 359 thousand | verdicts are earned, bounded and final; the refinement of `PingContract` |
| `sitter_safety` | 619 thousand | type correctness and six safety properties under all 128 flag settings considered |
| `sitter_live` | 15 thousand | a hang that lasts while the tracker watches is recorded, exits end once HANA responds |
| `recorder_modes` | 277 thousand | order, files, contract and termination of the three modes |
| `feature` | 686 thousand | verdicts and hangs are justified while rows change, sessions that last are tried, reports made after asking are true, check and stop come to an end; the refinement of `FeatureContract` |
| `startup` | 140 thousand | settings come from their source, what starts can record, wrong combinations are rejected, the database of the key is found; the refinement of `SitterConfig` |
| `migration` | 1.2 million | counts, logs and tables agree, sessions never wait in a circle, and every session ends |
| `hanaping_both`, `sitter_no_host`, `sitter_offline`, `startup_delimiter`, `migration_log` | until the first counterexample | the findings below |

**Bounds.** `Tenths = 10` is the code's own number. Two hosts are enough to
tell none, one and all of them apart, and a third name, `standby`, is a host of
a view that the database does not use. Two features distinguish the checks
before and after the one that alarms, and one of them may kill sessions. Two
abandoned threads (`MaxZombies`) are one more than a sitter that exits can leave
behind, so that a violation of `OneLeftover` is reachable; a sitter with
`-ar >= 0` stops being explored beyond two. The proofs have no such bound on
hosts, features and requests, and hold for every `MaxZombies`. The recorder runs
have up to three recordings of a type, two orders of `-rp`, no, one or both
hosts, and types whose numbers differ or are zero. Host mode, which alone can
narrow the hosts, refuses `-ng`; the requests respect that. `CHECK_DEADLOCK` is
off where the program ends: a call returns, or the process exits.

`feature` has a session on each of two hosts, so that a host can be empty, right
or wrong independently of the other; zero, one and two iterations, of which two
are needed for a number to change between counts and for an average to be
truncated; limits that one and two rows reach, as maximum and as minimum; and
timeouts of up to two Timer delays with intervals of up to one, which puts the
deadline before, at and after every moment the thread can end. `-if` and `-tf` may
be negative, as the checks of `main` let them (1342, 1385): a sleep of less than
nothing then ends the thread, and with a negative number of iterations nothing is
counted; `VerdictIsJustified` and `HangIsEarned` except those. `startup` has up to two
lines in the file and two arguments, hence every pair of one flag's values and
every override, against one system; and 104 systems (one, two or no tenants,
both orders of the lists, both layouts of `daemon.ini`, isolated or not, a key
that names the local host or not, and broken ones) against the command lines
that let them through. `migration` runs one of two teams of two sessions. The first
has a table they both load, one of whose parts is not chosen, and a table of one
session alone: waiting, being refused and losing a session all happen. The second
has a part for each session of each of two tables, which is what it takes for locks
to be taken crosswise. The proofs have no bound on any of these.

**Fairness.** `HanaPing`: the caller is scheduled and time passes (`WF`); the
thread owes nothing, because `hdbsql` need not come back. `HanaSitter`: weak
fairness of the main thread, and strong fairness of the threads, since a query is
answered only while HANA answers, which may be now and then. `HanaChanges` and
`CtrlC` have none. `sapcontrol`, `hdbnsutil`, `sar`, `mailx` and the recording
commands are assumed to come back; HANA's queries are not. `Recorder`: the same
assumption for `hdbcons` and `gstack`, and a clock that runs. `CriticalFeature`:
weak fairness of the tracker, of time and of timers and sleeps that are over;
nothing makes HANA answer, so that `CheckReturns` rests on the timeout alone.
`StopReturns` states its assumption itself, that `stop_session` gets answers,
because no timeout guards it. `Migration`: weak fairness of each session's step:
a session goes on, and a statement that has its lock ends. Failing (`Fails`) is not
a part of that step: a session that waits is not owed an error that would end its
waiting, so that `SessionsFinish` rests on the locks being given back. `Dies` has no
fairness either; that a lost session loses its locks is Oracle's. `Startup` has no liveness property.

## Findings

Each is a run that ends in a counterexample to what a document, comment or
message of the repository says.

| Run | Where | What |
|---|---|---|
| `hanaping_both` | 448-453 | a row that arrives between the two reads, right at the timeout, makes a ping "both pinged and hanging", and the program ends itself |
| `sitter_no_host` | 825-828 | in host mode a feature check that hangs has no guilty host: nothing is recorded of a hanging database |
| `sitter_offline` | 816 | HANA offline during a feature check ends the program by an `AttributeError` |
| `startup_delimiter` | 991 | the delimiter that `-cd` sets in a configuration file is reset by the next line and never reaches its `-cf` |
| `migration_log` | `PR_MIG_INSERT.sql:35` | a table loaded in parts is logged as SUCCESS although a part failed, if another is loaded afterwards; its count is then -999 plus the rows |

More properties of what a document says are stated at the end of their modules;
each is refuted when it is added to the run named here:

| Property (run) | Where | What |
|---|---|---|
| `CpuAndPingCoverEveryHost` (`sitter_safety`) | 827 | the narrowed hosts stay in force for later CPU and ping alarms |
| `ExitsAfterRecording` (`sitter_live`) | 1520 | after recording a hang the program does not exit while HANA hangs |
| `TracksAgain` (`sitter_live` with `MCRestartConfigs`) | 829-830 | `stop_session` waits for the HANA that hangs, and `-ar` never gets its turn |
| `HealthyRoundGoesOn` (`sitter_safety`) | 489 | `-odr` with an empty output folder of its own ends the program in its first healthy round |
| `ReportedProfilesExist` (`recorder_modes`) | 645-653 | only the last of five commands decides whether a kernel profile counts as made |
| `ReportsAreTrue` (`feature`) | 573-574 | the bare `except` takes any failure of ALTER SYSTEM DISCONNECT SESSION, and logs of a session that may still be connected that it "got disconnected by itself before HANASitter tried" |
| `LogsFollowOutput` (`startup`) | 1090-1097 | `--help` (100) says that `-od` and `-odr` hold for the logs as well if `-ol` and `-olr` are not given; those have defaults of their own (907, 909), and with `-od` alone the logs go to `/tmp/hanasitter_output` |
| `SwitchesWorkOnCli` (`startup`) | 1101, 1113 | `-so` and `-hc` go through `int()` on the command line: `true` and `false`, as `--help` has them, raise |

Noted while reading, without a property: `tracker` does not go back to the online
check after a healthy round (774, against 21-22 of `--help`); an online check
without any service, 0 of 0, passes (414); with `-ir 0` two dumps of one host in
a second share a file name (685). A start while HANA is down ends in an
`IndexError` (1159), although `--help` (13) has it wait. An average of 30.9 is
not more than 30 (619, against 50-51). The where clause of `stop_session` has no
host: in host mode it disconnects sessions of the hosts that were fine as well
(558). A negative interval in `-if` is accepted and ends every check by an
exception, a negative number of iterations counts nothing (1342, 1385). The errors for `-ens` and `-enm` without `-en` are
under the test for `-en` and cannot occur (1429). `-hm` looks at `-ng` while it is
a text, so that `-ng 0` is refused (1280). `sar` gets number and interval
swapped (539). With `-so true`, mode 3 logs each recording twice (753). A table
that two sessions share may end without its index, for nothing tries again
(`PR_MIG_CREATE_INDEX.sql:37`), a primary key that could not be added is in no
log (`PR_MIG_CREATE_PK.sql:20`), and one ALTER that fails leaves the tables after
it at NOLOGGING (`PR_MIG_ALTER_TABLE_INDEX.sql:31`).

## Proofs

TLAPS proves the following for every value of the constants that meets the
assumptions `TenthsAssumption` (a ping timeout has at least one pause),
`SitterAssumption` and `RequestAssumption` (flags and requests have the form
the command line gives them), `FeatureAssumption` (finitely many sessions, each
on a host; `-lf` excludes `-hm`), `ConfigAssumption` (lines are flags with texts;
the texts of the defaults occur, and `IntOf` reads the numerals among them as
`int()` does) and `LandscapeAssumption` (the types of what HANA's files and
commands say), and `MigrationAssumption` (finitely many parts, each of a table
and a session). Every safety invariant, action property and refinement of the
passing runs is stated by a theorem, the type invariants included.

**HanaPing.** `VerdictIsEarned` and `BoundedPing` are not inductive: that a
verdict `hang` has waited, and that an `ok` has a row, is decided several steps
before the verdict. The invariant adds a phase that says which local variable is
current at which `pc`, what evidence it has, and that the elapsed time is covered
by `lifetime` attempts. `ContractKept` maps `answered` to `output` and
`refusals` to `lifetime` plus the refusal that is not yet counted.

**HanaSitter.** The properties speak of the end of a recording or a round; the
invariant joins to `TypeOK` what leads there. `ThreadPhase`: a feature thread
lives only while the main thread joins it. `RoundPhase`: where `recorded` is
settled. `HostPhase`: what `hostsForRecording` and `covered` are during and after
a recording, by its `reason`. `FeaturePhase`: as long as nothing is recorded, the
features before `chid` are those that were found harmless in this round; each
enters `harmless` by the verdict on it, so that the invariant is about all the
features of the round and not about the thread of the last. `LeftoverPhase`: with an exit after
the first recording no thread has been abandoned before it. `TempDirPhase`:
folders follow `pc`. Each has a lemma with one step for each action.
`RecordsTheCulprits`,
`EvidenceBeforeKill`, `RoundIsComplete`, `OneLeftover`, `TempDirsFollow` and
`OneRecordingPerRound` follow.

**Recorder.** `Mode1`, `Mode2` and `Mode3` state how many calls of each type have
returned at each value of the loop variables, in terms of the place in `-rp`;
`HostPhase` says which hosts a call still owes; `FreshPhase`, that a name is in
use only by the call under way or by a recorder that does not sleep; `Returned`,
that nothing is missing at the end. `RecordingOrder` and `PacedFilesSurvive`
follow, and so does `RecordContractKept`: a host done is one step of
`RecordContract`, every other step of the loops and recorders leaves its two sets
alone.

**CriticalFeature.** `HangIsEarned` needs `Time`: during a query, the time waited is
the delay of the Timer, the time HANA was busy and one interval for each
iteration behind; asleep, it is less than an interval more. `VerdictIsJustified` needs `Sums`: the sum for a host that was
wrong (right) all the time lies beyond (within) the limit times the number of
counts that went into it, and a lemma on division carries this through the
truncated average, for a positive number of iterations; that a negative interval
stops the thread at its first sleep is `SleepKeepsTime`. `CheckedReportsAreTrue` and
`NoneIsMissed` need that a session gone
stays gone and that a lasting session is listed, pending, at hand or reported;
`StopIsEarned` needs where `stop_session` can be called from (`Called`). The two
parts of the state are proved apart, and the steps of one keep the invariants of
the other.

`CheckContractKept` maps the input checks and the counts to the contract's two
phases, and `result` to the culprits from the moment the thread ends; sleeps,
time, sessions and `stop_session` are stutters.

**Settings** (`Settings_proofs`, about `SitterConfig`). Every theorem rests on one
invariant. `ConfigInv` is what each stage adds (`ModeChecked`, `PrioChecked`,
`HostModeChecked`): the checks of `-rp` let an item outside 1 to 4 pass, and only
the look-up in `Announce` that then raises keeps the program from starting with
it; four different items of 1 to 4 are all four. This gives
`RecordingIsWellDefined`. `SourceInv` says of every stage of the two passes which
flags have been read so far and from where: while the file is read, a setting is
that of its last line before `next`, and after `ReadCommandLine` that of its first
argument if there is one. First and last exist by `Least` and `Greatest`, the
lemmas on sets of positions. `EverySettingHasItsSource` follows. For
`WrongCombinationsAreRejected` the lemma `Origin` leads each item of a setting back
to a line, an argument or a default of the form documented, if all are;
`PriorityItems`, `CpuItems` and `FeatureItems` say what that means for the three
flags with lists, and `ChecksCrash` goes through the checks one by one: none raises
on such items, but for `-so` and `-hc` of the command line.

**Startup.** `CompositionRefines`: the steps of `Topology` map to stutters of
`SitterConfig` but the last, which maps to `Discover`. The three theorems on settings
carry over by the refinement. `HalvesStayAligned` is inductive once the lists that
are read are known to be sequences (`Shape`, which also gives `TypeOK`).
`FindsTheDatabase` is `DatabaseIsIdentified` under the hypothesis `Coherent(system)`:
`daemon.ini`, `HDB info` and the locks describe what runs, with a section, a line
or a lock for each database and ports by SAP's numbering. This is what HANA owes the
sitter, and without it the property is false; it bounds neither the number of
tenants and hosts nor the order or the other lines of the files. The run `startup`
checks by an `ASSUME` that every system in it that is not meant to be broken is
coherent. The invariant `Progress` follows the discovery: `Reading` says that the
sections before `line` are the tenants found so far, with the halves of their ports
(`SectionsAreRead`), and what of the open section has been seen (`OpenSection`);
`TenantsAreRight`, that names and ports after the last line are those of the
databases, whichever list they are from; `TargetIsRight`, that the tenant whose
SQL port the key has is the right one, for no two databases of a coherent system
share an SQL port (`SqlPorts`).

**Migration.** `Located` ties what a session does to its script and its own
parts; `Fresh`, that a part not yet loaded is in no log, so that one load counts
once; `CountBound`, that a table's count is at most the parts loaded.
`Transactions` says what a session's transaction holds at each statement of
`PR_MIG_INSERT`; a COMMIT therefore adds the part that was loaded and nothing else
(`CommitAdds`). `DeadlockFree` follows from it without further induction: whoever
has the lock of the log is at a COMMIT and waits for nothing, whoever has a table is
loading or waits for the log, so that a circle would need a session that waits for
a table and is counting.
`OwnTablesAreComplete` needs `Stage`: for a table of one session, what its log,
rows, index and key are at each script, for as long as no statement on it failed.
Steps of other sessions leave each of its facts alone (`Elsewhere`).

**Only model-checked.** The liveness properties `PingReturns`, `HangIsRecorded`,
`ExitsOnceHanaResponds`, `RecordReturns`, `CheckReturns`, `StopReturns` and
`SessionsFinish`: they need reasoning about fairness and `ENABLED`, which is out of
the prover's reach. So is that the contracts have every verdict that `HanaSitter`
relies on: it compares two next-state relations by what they enable, and is left
to the reader of the modules.

## What is left out

- The text of the log, of mails and of the recordings; the log file itself
  (`log` failing to write ends the program like a failing mail).
- A `rm` that fails in `clear()`, and a second ctrl-c while the program exits.
- In Python 2 a waiting `pool.map` and a bare `except` can swallow ctrl-c. The
  model's ctrl-c need not happen, so this adds no behaviour.
- The text of the where clause (326-367): `CriticalFeature` has rows that match it.
- Two sitters on one host, whose temporary folders have the same name if they
  start in the same second (303), and the strings of the `hdbcons` commands.
- A slip in one of the flags: they are read by hand, one `if` each, once from the
  file (956-1032) and once from the command line (1034-1117). The model has one rule
  for all, which is what the two lists do flag by flag, as a comparison of them
  shows; `EverySettingHasItsSource` is about the order of the sources.
- The syntax of a line of the configuration file, and creating the folders of
  `-od` and `-ol`.
- A failover while HANASitter runs: hosts and ports are read once (1187).
- Of the migration: dates but for `MIG_START_DT` being set, the texts of the
  statements, the LOGGING attributes, an UPDATE that fails in the exception handler
  itself, the row locks of `MSJ_MIG_INDEX_LOG`, which no session has while it waits,
  and the statistics of step 5, whose script is not in the repository.
- Changes of the system clock.
