----------------------------- MODULE HanaSitter -----------------------------
(***************************************************************************)
(* The main loop of hanasitter.py and its tracker(): online check, CPU     *)
(* check, ping, critical features, recording, housekeeping, and the ways   *)
(* the program stops.                                                      *)
(*                                                                         *)
(* The main thread is the program counter pc.  A ping or feature check     *)
(* runs in a Timer thread that the main thread abandons when join() times  *)
(* out; the abandoned threads (zombies) run on, and sys.exit() waits for   *)
(* them.  os._exit() does not, and skips hdbcons.clear() too.              *)
(***************************************************************************)
EXTENDS Integers, FiniteSets

CONSTANTS
    Hosts,        \* hdbcons.hosts, the hosts this database uses
    ViewHosts,    \* the names the HOST column of a monitoring view can show
    NumFeatures,  \* len(critical_features)
    Configs,      \* the flag settings considered
    MaxZombies    \* bound: threads left behind at the same time

Features == 1 .. NumFeatures

ConfigType ==
    [hostMode: BOOLEAN,    \* -hm
     exitAfter: BOOLEAN,   \* after_recorded < 0
     ping: BOOLEAN,        \* ping_timeout != 0
     cpu: BOOLEAN,         \* the CPU check is used
     mail: BOOLEAN,        \* -en
     valid: BOOLEAN,       \* HANA accepts the views, columns and conditions of -cf
     kprof: BOOLEAN,       \* num_kprofs != 0
     cleanOut: BOOLEAN,    \* -odr >= 0 and an output directory of its own
     kill: SUBSET Features \* -ks
    ]

ASSUME SitterAssumption ==
    /\ NumFeatures \in Nat
    /\ MaxZombies \in Nat
    /\ Configs \subseteq ConfigType

VARIABLES
    cfg, hana,
    pc,                 \* main thread
    chid,               \* number of the feature check reached in this round
    check,              \* the Timer thread of the feature check under way
    result,             \* hosts whose number of critical features is wrong
    recorded, reason,   \* of the current tracker() call; why record() ran
    covered,            \* hosts the latest record() has recorded
    hostsForRecording,  \* hdbcons.hostsForRecording
    zombies,            \* abandoned threads by what they wait for
    tempDirs, outEmpty, \* temporary folders; the output directory is empty
    exitCause,
    harmless            \* history: features whose check of this round
                        \* counted no wrong number, whatever was made of it

world == <<cfg, hana>>
round == <<chid, check, result, harmless>>
recording == <<recorded, reason, covered, hostsForRecording>>
disk == <<tempDirs, outEmpty>>
vars == <<world, pc, round, recording, zombies, disk, exitCause>>

\* "secondary": the services run, but this site does not own the database.
HanaStates == {"up", "hanging", "down", "secondary"}
Answers == hana = "up"
Refuses == hana \in {"down", "secondary"}

ZombieKinds == {"ping", "checking", "querying"}
NoZombies == [k \in ZombieKinds |-> 0]
Leftover == zombies["ping"] + zombies["checking"] + zombies["querying"]
Abandon(kind) ==
    /\ Leftover < MaxZombies
    /\ zombies' = [zombies EXCEPT ![kind] = @ + 1]

Busy == {"checking", "querying"}       \* a feature thread that is alive
Checks == {"none", "finished", "died"} \cup Busy
Ended == {"stopping", "exited", "killed"}
Phases == {"start", "online", "break", "cpu", "ping", "feature", "join",
           "record", "kill", "house", "return"} \cup Ended
Reasons == {"none", "cpu", "ping", "hang", "feature"}
Causes == {"none", "ctrl-c", "mkdir", "online check", "sar", "ping", "recorded",
           "mail", "recorder", "feature thread", "stop_session", "clean_outputs"}

Init ==
    /\ cfg \in Configs
    /\ hana \in HanaStates
    /\ pc = "start"
    /\ chid = 0 /\ check = "none" /\ result = {}
    /\ recorded = FALSE /\ reason = "none" /\ covered = {}
    /\ hostsForRecording = Hosts
    /\ zombies = NoZombies
    /\ tempDirs = {} /\ outEmpty = TRUE
    /\ exitCause = "none"
    /\ harmless = {}

HanaChanges ==
    /\ pc \notin {"exited", "killed"}
    /\ hana' \in HanaStates \ {hana}
    /\ UNCHANGED <<cfg, pc, round, recording, zombies, disk, exitCause>>

----------------------------------------------------------------------------
(* Ways to stop. *)

\* Mutant: hdbcons.clear() forgotten.
Raise_NoClear(cause) ==
    /\ pc' = "stopping"
    /\ exitCause' = cause
    /\ UNCHANGED disk

\* An exception reaches main(): hdbcons.clear(), then sys.exit().
Raise(cause) ==
    /\ pc' = "stopping"
    /\ exitCause' = cause
    /\ tempDirs' = {}
    /\ UNCHANGED outEmpty

\* os._exit(1), from whichever thread: no thread and no cleanup survives it.
Kill ==
    /\ pc' = "killed"
    /\ check' = "none"
    /\ zombies' = NoZombies
    /\ UNCHANGED <<world, chid, result, harmless, recording, disk, exitCause>>

\* The thread that is joined, of a feature check or of a ping, is left behind.
CtrlC ==
    /\ pc \notin Ended
    /\ Raise("ctrl-c")
    /\ \/ check \in Busy /\ Abandon(check)
       \/ pc = "ping" /\ cfg.ping /\ Abandon("ping")
       \/ check \notin Busy /\ UNCHANGED zombies
    /\ check' = "none"
    /\ UNCHANGED <<world, chid, result, harmless, recording>>

\* The interpreter joins every thread that is not a daemon before it exits.
Exit ==
    /\ pc = "stopping" /\ Leftover = 0
    /\ pc' = "exited"
    /\ UNCHANGED <<world, round, recording, zombies, disk, exitCause>>

----------------------------------------------------------------------------
(* main(): temporary folders, online check, tracker, pause. *)

MakeTempDir ==
    /\ pc = "start" /\ cfg.kprof
    /\ \E h \in Hosts \ tempDirs : tempDirs' = tempDirs \cup {h}
    /\ UNCHANGED <<world, pc, round, recording, zombies, outEmpty, exitCause>>

\* mkdir fails (the folder exists, its parent does not, no permission).
MakeTempDirFails ==
    /\ pc = "start" /\ cfg.kprof /\ Hosts \ tempDirs # {}
    /\ Raise("mkdir")
    /\ UNCHANGED <<world, round, recording, zombies>>

\* The local host is not part of cdtrace, and -hc asks for it.
HostCheckFails ==
    /\ pc = "start" /\ cfg.kprof /\ tempDirs = {}
    /\ Kill

Started ==
    /\ pc = "start"
    /\ cfg.kprof => tempDirs = Hosts
    /\ pc' = "online"
    /\ UNCHANGED <<world, round, recording, zombies, disk, exitCause>>

\* is_online and not is_secondary: the tracker is called.  A sapcontrol that
\* finds no service at all reports 0 running ones of 0: HANA that is down may
\* pass for online.
Online ==
    /\ pc = "online" /\ hana # "secondary"
    /\ recorded' = FALSE
    /\ pc' = "cpu"
    /\ UNCHANGED <<world, round, reason, covered, hostsForRecording, zombies, disk, exitCause>>

\* is_online compares the services that are GREEN with all of them: one that
\* is yellow, starting or counted twice makes it false, whatever HANA does.
NotOnline ==
    /\ pc = "online"
    /\ pc' = "break"
    /\ UNCHANGED <<world, round, recording, zombies, disk, exitCause>>

\* sapcontrol or hdbnsutil is missing.
OnlineCheckFails ==
    /\ pc = "online"
    /\ Raise("online check")
    /\ UNCHANGED <<world, round, recording, zombies>>

BreakEnds ==
    /\ pc = "break"
    /\ pc' = "online"
    /\ UNCHANGED <<world, round, recording, zombies, disk, exitCause>>

\* Mutant: the negative after_recorded is not looked at.
AfterRecording_Sleeps ==
    /\ pc = "return"
    /\ pc' = "online"
    /\ UNCHANGED <<world, round, recording, zombies, disk, exitCause>>

\* tracker() returned with a recording: exit, or sleep after_recorded.
AfterRecording ==
    /\ pc = "return"
    /\ IF cfg.exitAfter
       THEN Raise("recorded")
       ELSE pc' = "online" /\ UNCHANGED <<disk, exitCause>>
    /\ UNCHANGED <<world, round, recording, zombies>>

----------------------------------------------------------------------------
(* tracker(): what may call record(). *)

Record(why) ==
    /\ pc' = "record"
    /\ reason' = why
    /\ covered' = {}
    /\ UNCHANGED recorded

\* An alarm is logged with sendEmail before record() is called: the mail
\* command may fail, and its exception passes the recording by.
MailFails ==
    /\ cfg.mail
    /\ Raise("mail")
    /\ UNCHANGED <<recorded, reason, covered>>

Alarm(why) ==
    \/ Record(why) /\ UNCHANGED <<disk, exitCause>>
    \/ MailFails

CpuFine ==
    /\ pc = "cpu"
    /\ pc' = "ping"
    /\ UNCHANGED <<world, round, recording, zombies, disk, exitCause>>

CpuTooHigh ==
    /\ pc = "cpu" /\ cfg.cpu
    /\ Alarm("cpu")
    /\ UNCHANGED <<world, round, hostsForRecording, zombies>>

\* sar is missing, or prints something that is not a number.
CpuCheckFails ==
    /\ pc = "cpu" /\ cfg.cpu
    /\ \/ Raise("sar") /\ UNCHANGED <<world, round, recording, zombies>>
       \/ Kill

\* hana_ping, as PingContract promises it.
PingOk ==
    /\ pc = "ping"
    /\ cfg.ping => Answers
    /\ pc' = "feature"
    /\ chid' = 0 /\ harmless' = {}
    /\ UNCHANGED <<world, check, result, recording, zombies, disk, exitCause>>

PingHangs ==
    /\ pc = "ping" /\ cfg.ping
    /\ Abandon("ping")
    /\ Alarm("ping")
    /\ UNCHANGED <<world, round, hostsForRecording>>

\* return [recorded, offline]
PingOffline ==
    /\ pc = "ping" /\ cfg.ping /\ Refuses
    /\ \/ pc' = "online" /\ UNCHANGED <<disk, exitCause, recorded, reason, covered>>
       \/ MailFails
    /\ UNCHANGED <<world, round, hostsForRecording, zombies>>

PingAborts ==
    /\ pc = "ping" /\ cfg.ping /\ Answers
    /\ Kill

\* hdbsql printed fewer than three lines: splitlines(1)[2] raises.
PingRaises ==
    /\ pc = "ping" /\ cfg.ping /\ Answers
    /\ Raise("ping")
    /\ UNCHANGED <<world, round, recording, zombies>>

\* Mutant: the features after the one that was recorded are checked too.
FeatureStart_NoRecordedTest ==
    /\ pc = "feature" /\ chid < NumFeatures
    /\ chid' = chid + 1
    /\ check' = "checking"
    /\ result' = {}
    /\ pc' = "join"
    /\ UNCHANGED <<world, harmless, recording, zombies, disk, exitCause>>

\* Mutant: one feature too many.
FeatureStart_OneTooMany ==
    /\ pc = "feature" /\ ~recorded /\ chid <= NumFeatures
    /\ chid' = chid + 1
    /\ check' = "checking"
    /\ result' = {}
    /\ pc' = "join"
    /\ UNCHANGED <<world, harmless, recording, zombies, disk, exitCause>>

\* for cf in critical_features: if not recorded: start the Timer thread.
FeatureStart ==
    /\ pc = "feature" /\ ~recorded /\ chid < NumFeatures
    /\ chid' = chid + 1
    /\ check' = "checking"
    /\ result' = {}
    /\ pc' = "join"
    /\ UNCHANGED <<world, harmless, recording, zombies, disk, exitCause>>

FeaturesDone ==
    /\ pc = "feature"
    /\ recorded \/ chid = NumFeatures
    /\ pc' = "house"
    /\ UNCHANGED <<world, round, recording, zombies, disk, exitCause>>

\* Mutant: narrows without host mode, where the only "host" is ''.
Narrow_Always(culprits) == hostsForRecording' = culprits

\* if host_mode: hdbcons.hostsForRecording = hostsWithWrongNbrCFs
Narrow(culprits) ==
    hostsForRecording' = IF cfg.hostMode THEN culprits ELSE hostsForRecording

\* Mutant: a feature check that hangs is passed over.
FeatureTimesOut_Ignored ==
    /\ pc = "join" /\ check \in Busy
    /\ Abandon(check)
    /\ check' = "none"
    /\ pc' = "feature"
    /\ UNCHANGED <<world, chid, result, harmless, recording, disk, exitCause>>

FeatureTimesOut ==
    /\ pc = "join" /\ check \in Busy
    /\ Abandon(check)
    /\ check' = "none"
    /\ \/ Record("hang") /\ Narrow({}) /\ UNCHANGED <<disk, exitCause>>
       \/ MailFails /\ UNCHANGED hostsForRecording
    /\ UNCHANGED <<world, chid, result, harmless>>

FeatureFine ==
    /\ pc = "join" /\ check = "finished" /\ result = {}
    /\ pc' = "feature"
    /\ UNCHANGED <<world, round, recording, zombies, disk, exitCause>>

FeatureCritical ==
    /\ pc = "join" /\ check = "finished" /\ result # {}
    /\ \/ Record("feature") /\ Narrow(result) /\ UNCHANGED <<disk, exitCause>>
       \/ MailFails /\ UNCHANGED hostsForRecording
    /\ UNCHANGED <<world, round, zombies>>

\* Mutant: a feature check that died counts as fine.
FeatureDied_Swallowed ==
    /\ pc = "join" /\ check = "died"
    /\ pc' = "feature"
    /\ UNCHANGED <<world, round, recording, zombies, disk, exitCause>>

\* The thread died of an exception: nbrCFsPerHost[0] is still -1, and
\* -1.items() raises in the main thread.
FeatureDied ==
    /\ pc = "join" /\ check = "died"
    /\ Raise("feature thread")
    /\ UNCHANGED <<world, round, recording, zombies>>

----------------------------------------------------------------------------
(* record(), stop_session() and housekeeping. *)

RecordHost ==
    /\ pc = "record"
    /\ \E h \in (Hosts \cap hostsForRecording) \ covered : covered' = covered \cup {h}
    /\ outEmpty' = FALSE
    /\ UNCHANGED <<world, pc, round, recorded, reason, hostsForRecording, zombies, tempDirs, exitCause>>

\* A recorder raises (no log directory, pgrep finds no indexserver).
RecordFails ==
    /\ pc = "record"
    /\ Raise("recorder")
    /\ UNCHANGED <<world, round, recording, zombies>>

\* Mutant: nobody waits for the recorders of the other hosts.
RecordEnds_NoWait ==
    /\ pc = "record"
    /\ recorded' = TRUE
    /\ pc' = IF reason \in {"cpu", "ping"} THEN "house"
             ELSE IF chid \in cfg.kill THEN "kill" ELSE "feature"
    /\ UNCHANGED <<world, round, reason, covered, hostsForRecording, zombies, disk, exitCause>>

RecordEnds ==
    /\ pc = "record"
    /\ Hosts \cap hostsForRecording = covered
    /\ recorded' = TRUE
    /\ pc' = IF reason \in {"cpu", "ping"} THEN "house"
             ELSE IF chid \in cfg.kill THEN "kill" ELSE "feature"
    /\ UNCHANGED <<world, round, reason, covered, hostsForRecording, zombies, disk, exitCause>>

\* stop_session queries HANA in the main thread, without a timeout.  A query
\* outside its try that fails, for whatever reason, raises.
StopSession ==
    /\ pc = "kill"
    /\ \/ Answers /\ pc' = "feature" /\ UNCHANGED <<disk, exitCause>>
       \/ (Answers \/ Refuses) /\ Raise("stop_session")
    /\ UNCHANGED <<world, round, recording, zombies>>

\* clean_outputs: find <dir>/* fails on an empty directory.
HouseKeep ==
    /\ pc = "house"
    /\ cfg.cleanOut => ~outEmpty
    /\ outEmpty' \in IF cfg.cleanOut THEN BOOLEAN ELSE {outEmpty}
    /\ pc' = IF recorded THEN "return" ELSE "cpu"
    /\ UNCHANGED <<world, round, recording, zombies, tempDirs, exitCause>>

HouseKeepFails ==
    /\ pc = "house" /\ cfg.cleanOut /\ outEmpty
    /\ Raise("clean_outputs")
    /\ UNCHANGED <<world, round, recording, zombies>>

----------------------------------------------------------------------------
(* Threads. *)

\* feature_check of the check under way: the views and columns, the counts.
ThreadChecks ==
    /\ check = "checking" /\ Answers
    /\ \/ /\ check' = "querying"
          /\ UNCHANGED <<world, pc, chid, result, harmless, recording, zombies, disk, exitCause>>
       \/ ~cfg.valid /\ Kill

\* Without host mode there is a single count, kept under the name ''.
CulpritSets == IF cfg.hostMode THEN SUBSET ViewHosts ELSE {{}, {"anywhere"}}

ThreadCounts ==
    /\ check = "querying" /\ Answers /\ cfg.valid
    /\ check' = "finished"
    /\ result' \in CulpritSets
    /\ harmless' = IF result' = {} THEN harmless \cup {chid} ELSE harmless
    /\ UNCHANGED <<world, pc, chid, recording, zombies, disk, exitCause>>

\* hdbsql fails: HANA refuses the connection, or the condition of -cf.
ThreadDies ==
    /\ \/ check \in Busy /\ Refuses
       \/ check = "querying" /\ Answers /\ ~cfg.valid
    /\ check' = "died"
    /\ UNCHANGED <<world, pc, chid, result, harmless, recording, zombies, disk, exitCause>>

\* Mutant: a query that HANA refuses is tried again until it answers.
ZombieEnds_Retries(kind) ==
    /\ zombies[kind] > 0
    /\ kind # "checking" /\ Answers
    /\ zombies' = [zombies EXCEPT ![kind] = @ - 1]
    /\ UNCHANGED <<world, pc, round, recording, disk, exitCause>>

ZombieEnds(kind) ==
    /\ zombies[kind] > 0
    /\ \/ kind # "checking" /\ Answers
       \/ Refuses
    /\ zombies' = [zombies EXCEPT ![kind] = @ - 1]
    /\ UNCHANGED <<world, pc, round, recording, disk, exitCause>>

ZombieChecks ==
    /\ zombies["checking"] > 0 /\ Answers
    /\ \/ /\ zombies' = [zombies EXCEPT !["checking"] = @ - 1, !["querying"] = @ + 1]
          /\ UNCHANGED <<world, pc, round, recording, disk, exitCause>>
       \/ ~cfg.valid /\ Kill

----------------------------------------------------------------------------
Main ==
    \/ MakeTempDir \/ MakeTempDirFails \/ HostCheckFails \/ Started
    \/ Online \/ NotOnline \/ OnlineCheckFails \/ BreakEnds \/ AfterRecording
    \/ CpuFine \/ CpuTooHigh \/ CpuCheckFails
    \/ PingOk \/ PingHangs \/ PingOffline \/ PingAborts \/ PingRaises
    \/ FeatureStart \/ FeaturesDone
    \/ FeatureTimesOut \/ FeatureFine \/ FeatureCritical \/ FeatureDied
    \/ RecordHost \/ RecordFails \/ RecordEnds
    \/ StopSession \/ HouseKeep \/ HouseKeepFails \/ Exit

Threads == ThreadChecks \/ ThreadCounts \/ ThreadDies
           \/ ZombieChecks \/ \E kind \in ZombieKinds : ZombieEnds(kind)

Next == Main \/ Threads \/ HanaChanges \/ CtrlC

\* The operating system schedules every thread, and a query returns if HANA
\* answers (or refuses) again and again.  Nobody has to press ctrl-c, and
\* HANA need not recover.
Fairness == WF_vars(Main) /\ SF_vars(Threads)

Spec == Init /\ [][Next]_vars /\ Fairness

----------------------------------------------------------------------------
TypeOK ==
    /\ cfg \in Configs
    /\ hana \in HanaStates
    /\ pc \in Phases
    /\ chid \in 0 .. NumFeatures
    /\ check \in Checks
    /\ result \subseteq ViewHosts \cup {"anywhere"}
    /\ recorded \in BOOLEAN
    /\ reason \in Reasons
    /\ covered \subseteq Hosts
    /\ hostsForRecording \subseteq Hosts \cup ViewHosts \cup {"anywhere"}
    /\ zombies \in [ZombieKinds -> Nat]
    /\ tempDirs \subseteq Hosts
    /\ outEmpty \in BOOLEAN
    /\ exitCause \in Causes
    /\ harmless \subseteq Features

\* A recording that a feature check asked for covers the hosts that check
\* found guilty and no other; without host mode it covers every host.  The
\* verdict passes through the thread's result, hostsForRecording and the
\* recorders, and survives until the next record().
RecordsTheCulprits ==
    recorded /\ reason = "feature" =>
        covered = IF cfg.hostMode THEN Hosts \cap result ELSE Hosts

\* -ks disconnects sessions only once the evidence is complete, and only for
\* a feature whose check asked for the recording.
EvidenceBeforeKill ==
    pc = "kill" =>
        /\ recorded /\ reason \in {"hang", "feature"}
        /\ covered = Hosts \cap hostsForRecording
        /\ chid \in cfg.kill
        /\ reason = "feature" => result # {}

\* The tracker goes on to the next round without a recording only if each of
\* its features, not just the last, was counted in this round and no number
\* was wrong: no alarm, death or hang of an earlier check is passed over.
RoundIsComplete == pc = "house" /\ ~recorded => harmless = Features

\* If it exits after the first recording, HANASitter leaves at most one
\* thread behind, however often HANA hangs: nothing piles up in the database.
OneLeftover == cfg.exitAfter => Leftover + (IF check \in Busy THEN 1 ELSE 0) <= 1

\* The kernel profiler never runs without its temporary folders, and every
\* regular exit, also by an exception or ctrl-c, has removed them.
TempDirsFollow ==
    /\ pc = "record" /\ cfg.kprof => tempDirs = Hosts
    /\ pc \in {"stopping", "exited"} => tempDirs = {}

\* A recording, once complete, is the only one of its round: no later check
\* of the round overwrites what was covered or narrows the hosts again.
OneRecordingPerRound ==
    [][recorded /\ recorded' =>
         covered' = covered /\ hostsForRecording' = hostsForRecording]_vars

Gone == pc \in Ended

\* The tracker is watching, nothing has been recorded.
Watching == ~recorded /\ pc \in {"cpu", "ping", "feature", "join", "house"}

\* A tracker that watches while HANA hangs for good goes on to record every
\* host, or HANASitter has stopped.  Without -hm only: there the recording of
\* a feature check that hangs covers no host.  And only once tracker() runs:
\* as long as is_online says no, HANASitter does not look at HANA at all.
HangIsRecorded ==
    ~cfg.hostMode /\ (cfg.ping \/ NumFeatures > 0) =>
        (Watching ~> \/ hana # "hanging"
                     \/ recorded /\ covered = Hosts
                     \/ Gone)

\* Once HANA has stopped hanging for good, a HANASitter that is exiting exits.
ExitsOnceHanaResponds ==
    <>[](hana # "hanging") => (pc = "stopping" ~> pc \in {"exited", "killed"})

----------------------------------------------------------------------------
(* What the documentation says and the code does not do. *)

\* hanasitter.py:16: "If it is not, it will record."
EveryRecordingCoversAHost == recorded => covered # {}

\* hanasitter.py:270: "at first assume all, also true unloss host_mode", and
\* 160 and 163: a CPU or ping alarm cannot be tied to a host.
CpuAndPingCoverEveryHost ==
    recorded /\ reason \in {"cpu", "ping"} => covered = Hosts

\* hanasitter.py:57: "if negative it exits".
ExitsAfterRecording ==
    (pc = "stopping" /\ exitCause = "recorded") ~> pc = "exited"

\* hanasitter.py:132: "after recording it will sleep for one hour before it
\* starts to track again", if -ar is not negative.
TracksAgain ==
    (recorded /\ ~cfg.exitAfter) ~> (pc = "online" \/ Gone)

\* hanasitter.py:795: "exit the tracker if HANA turns offline during
\* tracking", to be tried again after -oi seconds.
OfflineIsSurvived == exitCause = "feature thread" => ~cfg.valid \/ ~cfg.ping

\* hanasitter.py:21: after all was good it starts "all over".
HealthyRoundGoesOn == exitCause = "clean_outputs" => recorded
=============================================================================
