------------------------- MODULE HanaSitter_proofs --------------------------
(***************************************************************************)
(* The main loop and tracker for any number of hosts and critical          *)
(* features and any set of flag settings.                                  *)
(***************************************************************************)
EXTENDS HanaSitter, TLAPS

\* Threads: a feature thread runs only while the main thread joins it.
ThreadPhase == check \in Busy => pc = "join"

\* recorded is false from the start of a round to the end of record().
RoundPhase ==
    /\ pc \in {"cpu", "ping", "join", "record"} => ~recorded
    /\ pc \in {"kill", "return"} => recorded

\* Which hosts the running and the last record() are about.
HostPhase ==
    /\ ~cfg.hostMode => hostsForRecording = Hosts
    /\ pc = "record" => covered \subseteq Hosts \cap hostsForRecording
    /\ pc = "record" /\ reason = "feature" =>
          result # {} /\ (cfg.hostMode => hostsForRecording = result)
    /\ recorded => covered = Hosts \cap hostsForRecording
    /\ recorded /\ reason = "feature" /\ cfg.hostMode => hostsForRecording = result
    /\ pc = "kill" =>
          /\ chid \in cfg.kill
          /\ reason \in {"hang", "feature"}
          /\ reason = "feature" => result # {}
    /\ pc = "record" => reason # "none"

\* Which features have been counted and found harmless in this round.
FeaturePhase ==
    /\ pc = "feature" /\ ~recorded => harmless = 1 .. chid
    /\ pc = "join" =>
          /\ chid > 0
          /\ check # "finished" => harmless = 1 .. chid - 1
          /\ check = "finished" /\ result = {} => harmless = 1 .. chid
    /\ pc = "house" /\ ~recorded => harmless = Features

\* With an exit after the first recording, no thread has been abandoned
\* before that recording, and at most one by it.
LeftoverPhase ==
    cfg.exitAfter =>
        /\ Leftover <= 1
        /\ pc \notin {"record"} \cup Ended /\ ~recorded => Leftover = 0
        /\ pc \in {"start", "online", "break"} => ~recorded

TempDirPhase ==
    /\ cfg.kprof /\ pc \notin {"start"} \cup Ended => tempDirs = Hosts
    /\ pc \in {"stopping", "exited"} => tempDirs = {}

IInv == /\ TypeOK /\ ThreadPhase /\ RoundPhase /\ HostPhase
        /\ FeaturePhase /\ LeftoverPhase /\ TempDirPhase

\* The number of a feature check stays within -cf.
LEMMA FeatureRange ==
    /\ 0 \in 0 .. NumFeatures
    /\ \A n \in 0 .. NumFeatures : n < NumFeatures => n + 1 \in 0 .. NumFeatures
  BY SitterAssumption

\* Abandoning a thread adds one to the threads left over.
LEMMA AbandonStep ==
    ASSUME NEW kind \in ZombieKinds, Abandon(kind),
           zombies \in [ZombieKinds -> Nat]
    PROVE  /\ zombies' \in [ZombieKinds -> Nat]
           /\ Leftover' = Leftover + 1
  BY DEF Abandon, Leftover, ZombieKinds

\* Every step keeps the types.
LEMMA TypeStep ==
    ASSUME TypeOK, ThreadPhase, FeaturePhase, [Next]_vars
    PROVE  TypeOK'
<1>. USE SitterAssumption DEF TypeOK, ZombieKinds, HanaStates, world, round, recording, disk, NoZombies
<1>1. CASE MakeTempDir
  BY <1>1 DEF MakeTempDir
<1>2. CASE MakeTempDirFails
  BY <1>2 DEF MakeTempDirFails, Raise, Phases, Ended, Causes
<1>3. CASE HostCheckFails
  BY <1>3 DEF HostCheckFails, Kill, Phases, Ended, Checks, Busy
<1>4. CASE Started
  BY <1>4 DEF Started, Phases, Ended
<1>5. CASE Online
  BY <1>5 DEF Online, Phases, Ended
<1>6. CASE NotOnline
  BY <1>6 DEF NotOnline, Phases, Ended
<1>7. CASE BreakEnds
  BY <1>7 DEF BreakEnds, Phases, Ended
<1>8. CASE AfterRecording
  BY <1>8 DEF AfterRecording, Raise, Phases, Ended, Causes
<1>9. CASE CpuFine
  BY <1>9 DEF CpuFine, Phases, Ended
<1>10. CASE CpuTooHigh
  BY <1>10 DEF CpuTooHigh, Alarm, Record, MailFails, Raise, Phases, Ended, Reasons, Causes
<1>11. CASE PingOk
  BY <1>11, FeatureRange DEF PingOk, Phases, Ended
<1>12. CASE PingHangs
  BY <1>12, AbandonStep DEF PingHangs, Alarm, Record, MailFails, Raise, Phases, Ended, Reasons, Causes
<1>13. CASE PingOffline
  BY <1>13 DEF PingOffline, MailFails, Raise, Phases, Ended, Causes
<1>14. CASE PingAborts
  BY <1>14 DEF PingAborts, Kill, Phases, Ended, Checks, Busy
<1>15. CASE FeatureStart
  BY <1>15, FeatureRange DEF FeatureStart, Phases, Ended, Checks, Busy
<1>16. CASE FeaturesDone
  BY <1>16 DEF FeaturesDone, Phases, Ended
<1>17. CASE FeatureTimesOut
  BY <1>17, AbandonStep DEF FeatureTimesOut, Record, Narrow, MailFails, Raise, Phases, Ended, Checks, Busy, Reasons, Causes
<1>18. CASE FeatureFine
  BY <1>18 DEF FeatureFine, Phases, Ended
<1>19. CASE FeatureCritical
  BY <1>19 DEF FeatureCritical, Record, Narrow, MailFails, Raise, Phases, Ended, Reasons, Causes
<1>20. CASE FeatureDied
  BY <1>20 DEF FeatureDied, Raise, Phases, Ended, Causes
<1>21. CASE RecordHost
  BY <1>21 DEF RecordHost
<1>22. CASE RecordFails
  BY <1>22 DEF RecordFails, Raise, Phases, Ended, Causes
<1>23. CASE RecordEnds
  BY <1>23 DEF RecordEnds, Phases, Ended
<1>24. CASE StopSession
  BY <1>24 DEF StopSession, Raise, Phases, Ended, Causes
<1>25. CASE HouseKeep
  BY <1>25 DEF HouseKeep, Phases, Ended
<1>26. CASE HouseKeepFails
  BY <1>26 DEF HouseKeepFails, Raise, Phases, Ended, Causes
<1>27. CASE Exit
  BY <1>27 DEF Exit, Phases, Ended
<1>28. CASE ThreadChecks
  BY <1>28 DEF ThreadChecks, Kill, Phases, Ended, Checks, Busy
<1>29. CASE ThreadCounts
  <2>1. chid \in Features
    BY <1>29 DEF ThreadCounts, ThreadPhase, FeaturePhase, Features, Busy
  <2>2. QED
    BY <1>29, <2>1 DEF ThreadCounts, CulpritSets, Checks, Busy
<1>30. CASE ThreadDies
  BY <1>30 DEF ThreadDies, Checks, Busy
<1>31. CASE ZombieChecks
  BY <1>31 DEF ZombieChecks, Kill, Phases, Ended, Checks, Busy
<1>32. ASSUME NEW kind \in ZombieKinds, ZombieEnds(kind) PROVE TypeOK'
  BY <1>32 DEF ZombieEnds
<1>33. CASE HanaChanges
  BY <1>33 DEF HanaChanges
<1>34. CASE CtrlC
  BY <1>34, AbandonStep DEF CtrlC, Raise, Phases, Ended, Checks, Busy, Causes
<1>35. CASE CpuCheckFails
  <2>1. CASE Raise("sar") /\ UNCHANGED <<world, round, recording, zombies>>
    BY <2>1 DEF Raise, Phases, Ended, Causes
  <2>2. CASE Kill
    BY <2>2 DEF Kill, Phases, Ended, Checks, Busy
  <2>3. QED
    BY <1>35, <2>1, <2>2 DEF CpuCheckFails
<1>36. CASE OnlineCheckFails
  BY <1>36 DEF OnlineCheckFails, Raise, Phases, Ended, Causes
<1>37. CASE PingRaises
  BY <1>37 DEF PingRaises, Raise, Phases, Ended, Causes
<1>38. CASE UNCHANGED vars
  BY <1>38 DEF vars
<1>39. QED
  BY <1>1, <1>2, <1>3, <1>4, <1>5, <1>6, <1>7, <1>8, <1>9, <1>10, <1>11,
     <1>12, <1>13, <1>14, <1>15, <1>16, <1>17, <1>18, <1>19, <1>20,
     <1>21, <1>22, <1>23, <1>24, <1>25, <1>26, <1>27, <1>28, <1>29,
     <1>30, <1>31, <1>32, <1>33, <1>34, <1>35, <1>36, <1>37,
     <1>38 DEF Next, Main, Threads

\* Every step keeps the thread and the round in phase with pc.
LEMMA PhaseStep ==
    ASSUME ThreadPhase, RoundPhase, [Next]_vars
    PROVE  (ThreadPhase /\ RoundPhase)'
<1>. USE SitterAssumption DEF ThreadPhase, RoundPhase, Busy, Ended, world, round, recording, disk
<1>1. CASE MakeTempDir
  BY <1>1 DEF MakeTempDir
<1>2. CASE MakeTempDirFails
  BY <1>2 DEF MakeTempDirFails, Raise
<1>3. CASE HostCheckFails
  BY <1>3 DEF HostCheckFails, Kill
<1>4. CASE Started
  BY <1>4 DEF Started
<1>5. CASE Online
  BY <1>5 DEF Online
<1>6. CASE NotOnline
  BY <1>6 DEF NotOnline
<1>7. CASE BreakEnds
  BY <1>7 DEF BreakEnds
<1>8. CASE AfterRecording
  BY <1>8 DEF AfterRecording, Raise
<1>9. CASE CpuFine
  BY <1>9 DEF CpuFine
<1>10. CASE CpuTooHigh
  BY <1>10 DEF CpuTooHigh, Alarm, Record, MailFails, Raise
<1>11. CASE PingOk
  BY <1>11 DEF PingOk
<1>12. CASE PingHangs
  BY <1>12 DEF PingHangs, Alarm, Record, MailFails, Raise, Abandon
<1>13. CASE PingOffline
  BY <1>13 DEF PingOffline, MailFails, Raise
<1>14. CASE PingAborts
  BY <1>14 DEF PingAborts, Kill
<1>15. CASE FeatureStart
  BY <1>15 DEF FeatureStart
<1>16. CASE FeaturesDone
  BY <1>16 DEF FeaturesDone
<1>17. CASE FeatureTimesOut
  BY <1>17 DEF FeatureTimesOut, Abandon, Record, Narrow, MailFails, Raise
<1>18. CASE FeatureFine
  BY <1>18 DEF FeatureFine
<1>19. CASE FeatureCritical
  BY <1>19 DEF FeatureCritical, Record, Narrow, MailFails, Raise
<1>20. CASE FeatureDied
  BY <1>20 DEF FeatureDied, Raise
<1>21. CASE RecordHost
  BY <1>21 DEF RecordHost
<1>22. CASE RecordFails
  BY <1>22 DEF RecordFails, Raise
<1>23. CASE RecordEnds
  BY <1>23 DEF RecordEnds
<1>24. CASE StopSession
  BY <1>24 DEF StopSession, Raise
<1>25. CASE HouseKeep
  BY <1>25 DEF HouseKeep
<1>26. CASE HouseKeepFails
  BY <1>26 DEF HouseKeepFails, Raise
<1>27. CASE Exit
  BY <1>27 DEF Exit
<1>28. CASE ThreadChecks
  BY <1>28 DEF ThreadChecks, Kill
<1>29. CASE ThreadCounts
  BY <1>29 DEF ThreadCounts, CulpritSets
<1>30. CASE ThreadDies
  BY <1>30 DEF ThreadDies
<1>31. CASE ZombieChecks
  BY <1>31 DEF ZombieChecks, Kill
<1>32. ASSUME NEW kind \in ZombieKinds, ZombieEnds(kind) PROVE (ThreadPhase /\ RoundPhase)'
  BY <1>32 DEF ZombieEnds
<1>33. CASE HanaChanges
  BY <1>33 DEF HanaChanges
<1>34. CASE CtrlC
  BY <1>34 DEF CtrlC, Raise, Abandon
<1>35. CASE CpuCheckFails
  BY <1>35 DEF CpuCheckFails, Raise, Kill
<1>36. CASE OnlineCheckFails
  BY <1>36 DEF OnlineCheckFails, Raise
<1>37. CASE PingRaises
  BY <1>37 DEF PingRaises, Raise
<1>38. CASE UNCHANGED vars
  BY <1>38 DEF vars
<1>39. QED
  BY <1>1, <1>2, <1>3, <1>4, <1>5, <1>6, <1>7, <1>8, <1>9, <1>10, <1>11,
     <1>12, <1>13, <1>14, <1>15, <1>16, <1>17, <1>18, <1>19, <1>20,
     <1>21, <1>22, <1>23, <1>24, <1>25, <1>26, <1>27, <1>28, <1>29,
     <1>30, <1>31, <1>32, <1>33, <1>34, <1>35, <1>36, <1>37,
     <1>38 DEF Next, Main, Threads

\* Every step keeps covered and hostsForRecording in step with the verdict.
LEMMA HostStep ==
    ASSUME reason \in Reasons, ThreadPhase, RoundPhase, HostPhase, [Next]_vars
    PROVE  HostPhase'
<1>. USE SitterAssumption DEF ThreadPhase, RoundPhase, HostPhase, Reasons, Busy, Ended, world, round, recording, disk
<1>1. CASE MakeTempDir
  BY <1>1 DEF MakeTempDir
<1>2. CASE MakeTempDirFails
  BY <1>2 DEF MakeTempDirFails, Raise
<1>3. CASE HostCheckFails
  BY <1>3 DEF HostCheckFails, Kill
<1>4. CASE Started
  BY <1>4 DEF Started
<1>5. CASE Online
  BY <1>5 DEF Online
<1>6. CASE NotOnline
  BY <1>6 DEF NotOnline
<1>7. CASE BreakEnds
  BY <1>7 DEF BreakEnds
<1>8. CASE AfterRecording
  BY <1>8 DEF AfterRecording, Raise
<1>9. CASE CpuFine
  BY <1>9 DEF CpuFine
<1>10. CASE CpuTooHigh
  BY <1>10 DEF CpuTooHigh, Alarm, Record, MailFails, Raise
<1>11. CASE PingOk
  BY <1>11 DEF PingOk
<1>12. CASE PingHangs
  BY <1>12 DEF PingHangs, Alarm, Record, MailFails, Raise, Abandon
<1>13. CASE PingOffline
  BY <1>13 DEF PingOffline, MailFails, Raise
<1>14. CASE PingAborts
  BY <1>14 DEF PingAborts, Kill
<1>15. CASE FeatureStart
  BY <1>15 DEF FeatureStart
<1>16. CASE FeaturesDone
  BY <1>16 DEF FeaturesDone
<1>17. CASE FeatureTimesOut
  BY <1>17 DEF FeatureTimesOut, Abandon, Record, Narrow, MailFails, Raise
<1>18. CASE FeatureFine
  BY <1>18 DEF FeatureFine
<1>19. CASE FeatureCritical
  BY <1>19 DEF FeatureCritical, Record, Narrow, MailFails, Raise
<1>20. CASE FeatureDied
  BY <1>20 DEF FeatureDied, Raise
<1>21. CASE RecordHost
  BY <1>21 DEF RecordHost
<1>22. CASE RecordFails
  BY <1>22 DEF RecordFails, Raise
<1>23. CASE RecordEnds
  BY <1>23 DEF RecordEnds
<1>24. CASE StopSession
  BY <1>24 DEF StopSession, Raise
<1>25. CASE HouseKeep
  BY <1>25 DEF HouseKeep
<1>26. CASE HouseKeepFails
  BY <1>26 DEF HouseKeepFails, Raise
<1>27. CASE Exit
  BY <1>27 DEF Exit
<1>28. CASE ThreadChecks
  BY <1>28 DEF ThreadChecks, Kill
<1>29. CASE ThreadCounts
  BY <1>29 DEF ThreadCounts, CulpritSets
<1>30. CASE ThreadDies
  BY <1>30 DEF ThreadDies
<1>31. CASE ZombieChecks
  BY <1>31 DEF ZombieChecks, Kill
<1>32. ASSUME NEW kind \in ZombieKinds, ZombieEnds(kind) PROVE HostPhase'
  BY <1>32 DEF ZombieEnds
<1>33. CASE HanaChanges
  BY <1>33 DEF HanaChanges
<1>34. CASE CtrlC
  BY <1>34 DEF CtrlC, Raise, Abandon
<1>35. CASE CpuCheckFails
  BY <1>35 DEF CpuCheckFails, Raise, Kill
<1>36. CASE OnlineCheckFails
  BY <1>36 DEF OnlineCheckFails, Raise
<1>37. CASE PingRaises
  BY <1>37 DEF PingRaises, Raise
<1>38. CASE UNCHANGED vars
  BY <1>38 DEF vars
<1>39. QED
  BY <1>1, <1>2, <1>3, <1>4, <1>5, <1>6, <1>7, <1>8, <1>9, <1>10, <1>11,
     <1>12, <1>13, <1>14, <1>15, <1>16, <1>17, <1>18, <1>19, <1>20,
     <1>21, <1>22, <1>23, <1>24, <1>25, <1>26, <1>27, <1>28, <1>29,
     <1>30, <1>31, <1>32, <1>33, <1>34, <1>35, <1>36, <1>37,
     <1>38 DEF Next, Main, Threads

\* Every step keeps the progress through the critical features.
LEMMA FeatureStep ==
    ASSUME ThreadPhase, RoundPhase, FeaturePhase, chid \in Nat, [Next]_vars
    PROVE  FeaturePhase'
<1>. USE SitterAssumption DEF ThreadPhase, RoundPhase, FeaturePhase, Busy, Ended, world, round, recording, disk
<1>1. CASE MakeTempDir
  BY <1>1 DEF MakeTempDir
<1>2. CASE MakeTempDirFails
  BY <1>2 DEF MakeTempDirFails, Raise
<1>3. CASE HostCheckFails
  BY <1>3 DEF HostCheckFails, Kill
<1>4. CASE Started
  BY <1>4 DEF Started
<1>5. CASE Online
  BY <1>5 DEF Online
<1>6. CASE NotOnline
  BY <1>6 DEF NotOnline
<1>7. CASE BreakEnds
  BY <1>7 DEF BreakEnds
<1>8. CASE AfterRecording
  BY <1>8 DEF AfterRecording, Raise
<1>9. CASE CpuFine
  BY <1>9 DEF CpuFine
<1>10. CASE CpuTooHigh
  BY <1>10 DEF CpuTooHigh, Alarm, Record, MailFails, Raise
<1>11. CASE PingOk
  BY <1>11 DEF PingOk
<1>12. CASE PingHangs
  BY <1>12 DEF PingHangs, Alarm, Record, MailFails, Raise, Abandon
<1>13. CASE PingOffline
  BY <1>13 DEF PingOffline, MailFails, Raise
<1>14. CASE PingAborts
  BY <1>14 DEF PingAborts, Kill
<1>15. CASE FeatureStart
  <2>1. (chid + 1) - 1 = chid /\ chid + 1 > 0
    OBVIOUS
  <2>2. harmless' = 1 .. chid /\ chid' = chid + 1
    BY <1>15 DEF FeatureStart
  <2>3. harmless' = 1 .. chid' - 1 /\ chid' > 0
    BY <2>1, <2>2
  <2>4. QED
    BY <1>15, <2>3 DEF FeatureStart
<1>16. CASE FeaturesDone
  BY <1>16 DEF FeaturesDone, Features
<1>17. CASE FeatureTimesOut
  BY <1>17 DEF FeatureTimesOut, Abandon, Record, Narrow, MailFails, Raise
<1>18. CASE FeatureFine
  BY <1>18 DEF FeatureFine
<1>19. CASE FeatureCritical
  BY <1>19 DEF FeatureCritical, Record, Narrow, MailFails, Raise
<1>20. CASE FeatureDied
  BY <1>20 DEF FeatureDied, Raise
<1>21. CASE RecordHost
  BY <1>21 DEF RecordHost
<1>22. CASE RecordFails
  BY <1>22 DEF RecordFails, Raise
<1>23. CASE RecordEnds
  BY <1>23 DEF RecordEnds
<1>24. CASE StopSession
  BY <1>24 DEF StopSession, Raise
<1>25. CASE HouseKeep
  BY <1>25 DEF HouseKeep
<1>26. CASE HouseKeepFails
  BY <1>26 DEF HouseKeepFails, Raise
<1>27. CASE Exit
  BY <1>27 DEF Exit
<1>28. CASE ThreadChecks
  BY <1>28 DEF ThreadChecks, Kill
<1>29. CASE ThreadCounts
  <2>1. pc = "join" /\ pc' = "join" /\ chid' = chid /\ check' = "finished"
    BY <1>29 DEF ThreadCounts
  <2>2. harmless = 1 .. chid - 1
    BY <1>29, <2>1 DEF ThreadCounts
  <2>3. result' = {} => harmless' = 1 .. chid
    BY <1>29, <2>1, <2>2 DEF ThreadCounts
  <2>4. QED
    BY <2>1, <2>3
<1>30. CASE ThreadDies
  BY <1>30 DEF ThreadDies
<1>31. CASE ZombieChecks
  BY <1>31 DEF ZombieChecks, Kill
<1>32. ASSUME NEW kind \in ZombieKinds, ZombieEnds(kind) PROVE FeaturePhase'
  BY <1>32 DEF ZombieEnds
<1>33. CASE HanaChanges
  BY <1>33 DEF HanaChanges
<1>34. CASE CtrlC
  BY <1>34 DEF CtrlC, Raise, Abandon
<1>35. CASE CpuCheckFails
  BY <1>35 DEF CpuCheckFails, Raise, Kill
<1>36. CASE OnlineCheckFails
  BY <1>36 DEF OnlineCheckFails, Raise
<1>37. CASE PingRaises
  BY <1>37 DEF PingRaises, Raise
<1>38. CASE UNCHANGED vars
  BY <1>38 DEF vars
<1>39. QED
  BY <1>1, <1>2, <1>3, <1>4, <1>5, <1>6, <1>7, <1>8, <1>9, <1>10, <1>11,
     <1>12, <1>13, <1>14, <1>15, <1>16, <1>17, <1>18, <1>19, <1>20,
     <1>21, <1>22, <1>23, <1>24, <1>25, <1>26, <1>27, <1>28, <1>29,
     <1>30, <1>31, <1>32, <1>33, <1>34, <1>35, <1>36, <1>37,
     <1>38 DEF Next, Main, Threads

\* Every step keeps the number of abandoned threads in bounds.
LEMMA LeftoverStep ==
    ASSUME zombies \in [ZombieKinds -> Nat], ThreadPhase, RoundPhase, LeftoverPhase, [Next]_vars
    PROVE  LeftoverPhase'
<1>. USE SitterAssumption DEF ThreadPhase, RoundPhase, LeftoverPhase, Leftover, ZombieKinds, NoZombies, Busy, Ended, world, round, recording, disk
<1>1. CASE MakeTempDir
  BY <1>1 DEF MakeTempDir
<1>2. CASE MakeTempDirFails
  BY <1>2 DEF MakeTempDirFails, Raise
<1>3. CASE HostCheckFails
  BY <1>3 DEF HostCheckFails, Kill
<1>4. CASE Started
  BY <1>4 DEF Started
<1>5. CASE Online
  BY <1>5 DEF Online
<1>6. CASE NotOnline
  BY <1>6 DEF NotOnline
<1>7. CASE BreakEnds
  BY <1>7 DEF BreakEnds
<1>8. CASE AfterRecording
  BY <1>8 DEF AfterRecording, Raise
<1>9. CASE CpuFine
  BY <1>9 DEF CpuFine
<1>10. CASE CpuTooHigh
  BY <1>10 DEF CpuTooHigh, Alarm, Record, MailFails, Raise
<1>11. CASE PingOk
  BY <1>11 DEF PingOk
<1>12. CASE PingHangs
  BY <1>12, AbandonStep DEF PingHangs, Alarm, Record, MailFails, Raise
<1>13. CASE PingOffline
  BY <1>13 DEF PingOffline, MailFails, Raise
<1>14. CASE PingAborts
  BY <1>14 DEF PingAborts, Kill
<1>15. CASE FeatureStart
  BY <1>15 DEF FeatureStart
<1>16. CASE FeaturesDone
  BY <1>16 DEF FeaturesDone
<1>17. CASE FeatureTimesOut
  BY <1>17, AbandonStep DEF FeatureTimesOut, Record, Narrow, MailFails, Raise
<1>18. CASE FeatureFine
  BY <1>18 DEF FeatureFine
<1>19. CASE FeatureCritical
  BY <1>19 DEF FeatureCritical, Record, Narrow, MailFails, Raise
<1>20. CASE FeatureDied
  BY <1>20 DEF FeatureDied, Raise
<1>21. CASE RecordHost
  BY <1>21 DEF RecordHost
<1>22. CASE RecordFails
  BY <1>22 DEF RecordFails, Raise
<1>23. CASE RecordEnds
  BY <1>23 DEF RecordEnds
<1>24. CASE StopSession
  BY <1>24 DEF StopSession, Raise
<1>25. CASE HouseKeep
  BY <1>25 DEF HouseKeep
<1>26. CASE HouseKeepFails
  BY <1>26 DEF HouseKeepFails, Raise
<1>27. CASE Exit
  BY <1>27 DEF Exit
<1>28. CASE ThreadChecks
  BY <1>28 DEF ThreadChecks, Kill
<1>29. CASE ThreadCounts
  BY <1>29 DEF ThreadCounts, CulpritSets
<1>30. CASE ThreadDies
  BY <1>30 DEF ThreadDies
<1>31. CASE ZombieChecks
  BY <1>31 DEF ZombieChecks, Kill
<1>32. ASSUME NEW kind \in ZombieKinds, ZombieEnds(kind) PROVE LeftoverPhase'
  BY <1>32 DEF ZombieEnds
<1>33. CASE HanaChanges
  BY <1>33 DEF HanaChanges
<1>34. CASE CtrlC
  BY <1>34, AbandonStep DEF CtrlC, Raise
<1>35. CASE CpuCheckFails
  BY <1>35 DEF CpuCheckFails, Raise, Kill
<1>36. CASE OnlineCheckFails
  BY <1>36 DEF OnlineCheckFails, Raise
<1>37. CASE PingRaises
  BY <1>37 DEF PingRaises, Raise
<1>38. CASE UNCHANGED vars
  BY <1>38 DEF vars
<1>39. QED
  BY <1>1, <1>2, <1>3, <1>4, <1>5, <1>6, <1>7, <1>8, <1>9, <1>10, <1>11,
     <1>12, <1>13, <1>14, <1>15, <1>16, <1>17, <1>18, <1>19, <1>20,
     <1>21, <1>22, <1>23, <1>24, <1>25, <1>26, <1>27, <1>28, <1>29,
     <1>30, <1>31, <1>32, <1>33, <1>34, <1>35, <1>36, <1>37,
     <1>38 DEF Next, Main, Threads

\* Every step keeps the temporary folders in phase with pc.
LEMMA TempDirStep ==
    ASSUME TempDirPhase, [Next]_vars
    PROVE  TempDirPhase'
<1>. USE SitterAssumption DEF TempDirPhase, Ended, Busy, world, round, recording, disk
<1>1. CASE MakeTempDir
  BY <1>1 DEF MakeTempDir
<1>2. CASE MakeTempDirFails
  BY <1>2 DEF MakeTempDirFails, Raise
<1>3. CASE HostCheckFails
  BY <1>3 DEF HostCheckFails, Kill
<1>4. CASE Started
  BY <1>4 DEF Started
<1>5. CASE Online
  BY <1>5 DEF Online
<1>6. CASE NotOnline
  BY <1>6 DEF NotOnline
<1>7. CASE BreakEnds
  BY <1>7 DEF BreakEnds
<1>8. CASE AfterRecording
  BY <1>8 DEF AfterRecording, Raise
<1>9. CASE CpuFine
  BY <1>9 DEF CpuFine
<1>10. CASE CpuTooHigh
  BY <1>10 DEF CpuTooHigh, Alarm, Record, MailFails, Raise
<1>11. CASE PingOk
  BY <1>11 DEF PingOk
<1>12. CASE PingHangs
  BY <1>12 DEF PingHangs, Alarm, Record, MailFails, Raise, Abandon
<1>13. CASE PingOffline
  BY <1>13 DEF PingOffline, MailFails, Raise
<1>14. CASE PingAborts
  BY <1>14 DEF PingAborts, Kill
<1>15. CASE FeatureStart
  BY <1>15 DEF FeatureStart
<1>16. CASE FeaturesDone
  BY <1>16 DEF FeaturesDone
<1>17. CASE FeatureTimesOut
  BY <1>17 DEF FeatureTimesOut, Abandon, Record, Narrow, MailFails, Raise
<1>18. CASE FeatureFine
  BY <1>18 DEF FeatureFine
<1>19. CASE FeatureCritical
  BY <1>19 DEF FeatureCritical, Record, Narrow, MailFails, Raise
<1>20. CASE FeatureDied
  BY <1>20 DEF FeatureDied, Raise
<1>21. CASE RecordHost
  BY <1>21 DEF RecordHost
<1>22. CASE RecordFails
  BY <1>22 DEF RecordFails, Raise
<1>23. CASE RecordEnds
  BY <1>23 DEF RecordEnds
<1>24. CASE StopSession
  BY <1>24 DEF StopSession, Raise
<1>25. CASE HouseKeep
  BY <1>25 DEF HouseKeep
<1>26. CASE HouseKeepFails
  BY <1>26 DEF HouseKeepFails, Raise
<1>27. CASE Exit
  BY <1>27 DEF Exit
<1>28. CASE ThreadChecks
  BY <1>28 DEF ThreadChecks, Kill
<1>29. CASE ThreadCounts
  BY <1>29 DEF ThreadCounts, CulpritSets
<1>30. CASE ThreadDies
  BY <1>30 DEF ThreadDies
<1>31. CASE ZombieChecks
  BY <1>31 DEF ZombieChecks, Kill
<1>32. ASSUME NEW kind \in ZombieKinds, ZombieEnds(kind) PROVE TempDirPhase'
  BY <1>32 DEF ZombieEnds
<1>33. CASE HanaChanges
  BY <1>33 DEF HanaChanges
<1>34. CASE CtrlC
  BY <1>34 DEF CtrlC, Raise, Abandon
<1>35. CASE CpuCheckFails
  BY <1>35 DEF CpuCheckFails, Raise, Kill
<1>36. CASE OnlineCheckFails
  BY <1>36 DEF OnlineCheckFails, Raise
<1>37. CASE PingRaises
  BY <1>37 DEF PingRaises, Raise
<1>38. CASE UNCHANGED vars
  BY <1>38 DEF vars
<1>39. QED
  BY <1>1, <1>2, <1>3, <1>4, <1>5, <1>6, <1>7, <1>8, <1>9, <1>10, <1>11,
     <1>12, <1>13, <1>14, <1>15, <1>16, <1>17, <1>18, <1>19, <1>20,
     <1>21, <1>22, <1>23, <1>24, <1>25, <1>26, <1>27, <1>28, <1>29,
     <1>30, <1>31, <1>32, <1>33, <1>34, <1>35, <1>36, <1>37,
     <1>38 DEF Next, Main, Threads

\* All the parts together hold at the start and after every step.
LEMMA Inductive == Spec => []IInv
<1>1. Init => IInv
  <2>. SUFFICES ASSUME Init PROVE IInv
    OBVIOUS
  <2>1. TypeOK
    <3>1. zombies \in [ZombieKinds -> Nat]
      BY DEF Init, NoZombies
    <3>2. QED
      BY <3>1, FeatureRange DEF Init, TypeOK, Phases, Checks, Reasons, Causes
  <2>2. Leftover = 0
    BY DEF Init, Leftover, NoZombies, ZombieKinds
  <2>3. ThreadPhase /\ RoundPhase /\ HostPhase
    BY DEF Init, ThreadPhase, RoundPhase, HostPhase, Busy
  <2>4. FeaturePhase /\ TempDirPhase
    BY DEF Init, FeaturePhase, TempDirPhase, Ended
  <2>5. LeftoverPhase
    BY <2>2 DEF Init, LeftoverPhase, Ended
  <2>6. QED
    BY <2>1, <2>3, <2>4, <2>5 DEF IInv
<1>2. IInv /\ [Next]_vars => IInv'
  <2>. SUFFICES ASSUME IInv, [Next]_vars PROVE IInv'
    OBVIOUS
  <2>1. reason \in Reasons /\ chid \in Nat /\ zombies \in [ZombieKinds -> Nat]
    BY SitterAssumption DEF IInv, TypeOK
  <2>2. TypeOK'
    BY TypeStep DEF IInv
  <2>3. (ThreadPhase /\ RoundPhase)'
    BY PhaseStep DEF IInv
  <2>4. HostPhase'
    BY <2>1, HostStep DEF IInv
  <2>5. FeaturePhase'
    BY <2>1, FeatureStep DEF IInv
  <2>6. LeftoverPhase'
    BY <2>1, LeftoverStep DEF IInv
  <2>7. TempDirPhase'
    BY TempDirStep DEF IInv
  <2>8. QED
    BY <2>2, <2>3, <2>4, <2>5, <2>6, <2>7 DEF IInv
<1>3. QED
  BY <1>1, <1>2, PTL DEF Spec

\* The variables keep their types (TypeOK), in particular a verdict never
\* names anything but a host of a monitoring view.
THEOREM TypeCorrect == Spec => []TypeOK
<1>1. IInv => TypeOK
  BY DEF IInv
<1>2. QED
  BY <1>1, Inductive, PTL

\* A recording covers exactly the hosts the feature check found guilty
\* (RecordsTheCulprits), for any hosts, views, features and flags.
THEOREM CulpritsRecorded == Spec => []RecordsTheCulprits
<1>1. IInv => RecordsTheCulprits
  BY DEF IInv, HostPhase, RecordsTheCulprits
<1>2. QED
  BY <1>1, Inductive, PTL

\* Sessions are disconnected only after a complete recording that their own
\* feature check asked for (EvidenceBeforeKill).
THEOREM EvidenceSafety == Spec => []EvidenceBeforeKill
<1>1. IInv => EvidenceBeforeKill
  BY DEF IInv, RoundPhase, HostPhase, EvidenceBeforeKill
<1>2. QED
  BY <1>1, Inductive, PTL

\* No round ends without a recording before each of its features, from the
\* first to the last, has been counted and found harmless (RoundIsComplete).
THEOREM RoundSafety == Spec => []RoundIsComplete
<1>1. IInv => RoundIsComplete
  BY DEF IInv, FeaturePhase, RoundIsComplete
<1>2. QED
  BY <1>1, Inductive, PTL

\* A HANASitter that exits after its first recording leaves at most one
\* thread behind (OneLeftover), however large the bound on the model's
\* abandoned threads.
THEOREM LeftoverBound == Spec => []OneLeftover
<1>1. IInv => OneLeftover
  <2>. SUFFICES ASSUME IInv, cfg.exitAfter
                PROVE  Leftover + (IF check \in Busy THEN 1 ELSE 0) <= 1
    BY DEF OneLeftover
  <2>1. Leftover \in Nat /\ Leftover <= 1
    BY DEF IInv, TypeOK, LeftoverPhase, Leftover, ZombieKinds
  <2>2. check \in Busy => Leftover = 0
    BY DEF IInv, ThreadPhase, RoundPhase, LeftoverPhase, Ended
  <2>3. QED
    BY <2>1, <2>2
<1>2. QED
  BY <1>1, Inductive, PTL

\* The kernel profiler has its temporary folders whenever it may run, and a
\* regular exit leaves none behind (TempDirsFollow).
THEOREM TempDirSafety == Spec => []TempDirsFollow
<1>1. IInv => TempDirsFollow
  BY DEF IInv, TempDirPhase, TempDirsFollow, Ended
<1>2. QED
  BY <1>1, Inductive, PTL

\* A complete recording is not touched again within its round
\* (OneRecordingPerRound): record() is called, and narrows the hosts, only
\* from phases in which nothing has been recorded.
THEOREM RecordedOnce == Spec => OneRecordingPerRound
<1>1. ASSUME IInv, [Next]_vars, recorded, recorded'
      PROVE  covered' = covered /\ hostsForRecording' = hostsForRecording
  <2>. USE <1>1 DEF world, round, recording, disk
  <2>1. pc \notin {"cpu", "ping", "join", "record"}
    BY DEF IInv, RoundPhase
  <2>2. CASE MakeTempDir \/ MakeTempDirFails \/ HostCheckFails \/ Started
    BY <2>2 DEF MakeTempDir, MakeTempDirFails, HostCheckFails, Started, Raise, Kill
  <2>3. CASE Online \/ NotOnline \/ OnlineCheckFails \/ BreakEnds \/ AfterRecording
    BY <2>3 DEF Online, NotOnline, OnlineCheckFails, BreakEnds, AfterRecording, Raise
  <2>4. CASE CpuFine \/ CpuTooHigh \/ CpuCheckFails \/ PingOk \/ PingHangs \/ PingOffline
             \/ PingAborts \/ PingRaises
    BY <2>1, <2>4 DEF CpuFine, CpuTooHigh, CpuCheckFails, PingOk, PingHangs,
       PingOffline, PingAborts, PingRaises
  <2>5. CASE FeatureStart \/ FeaturesDone
    BY <2>5 DEF FeatureStart, FeaturesDone
  <2>6. CASE FeatureTimesOut \/ FeatureFine \/ FeatureCritical \/ FeatureDied
    BY <2>1, <2>6 DEF FeatureTimesOut, FeatureFine, FeatureCritical, FeatureDied
  <2>7. CASE RecordHost \/ RecordFails \/ RecordEnds
    BY <2>1, <2>7 DEF RecordHost, RecordFails, RecordEnds
  <2>8. CASE StopSession \/ HouseKeep \/ HouseKeepFails \/ Exit
    BY <2>8 DEF StopSession, HouseKeep, HouseKeepFails, Exit, Raise
  <2>9. CASE ThreadChecks \/ ThreadCounts \/ ThreadDies \/ ZombieChecks
    BY <2>9 DEF ThreadChecks, ThreadCounts, ThreadDies, ZombieChecks, Kill
  <2>10. CASE \E kind \in ZombieKinds : ZombieEnds(kind)
    BY <2>10 DEF ZombieEnds
  <2>11. CASE HanaChanges \/ CtrlC
    BY <2>11 DEF HanaChanges, CtrlC, Raise
  <2>12. CASE UNCHANGED vars
    BY <2>12 DEF vars
  <2>13. QED
    BY <2>2, <2>3, <2>4, <2>5, <2>6, <2>7, <2>8, <2>9, <2>10, <2>11, <2>12
       DEF Next, Main, Threads
<1>2. IInv /\ [Next]_vars =>
        [recorded /\ recorded' =>
           covered' = covered /\ hostsForRecording' = hostsForRecording]_vars
  BY <1>1
<1>3. QED
  BY <1>2, Inductive, PTL DEF Spec, OneRecordingPerRound
=============================================================================
