------------------------------ MODULE Recorder ------------------------------
(***************************************************************************)
(* One call of record() of hanasitter.py in its three recording modes.     *)
(*                                                                         *)
(* Modes 1 and 2 are two nestings of the same two loops, over the types in *)
(* the order of -rp and over the number of the recording.  Mode 3 runs the *)
(* types of one number as a pool of processes and waits for all of them.   *)
(*                                                                         *)
(* A recorder goes through the hosts of hdbcons.hostsForRecording, writes  *)
(* one file each and then sleeps its interval.  A file is named after its  *)
(* type, its host and the second of its creation.  The order of the hosts  *)
(* is left open, and so is how long a command takes.                       *)
(***************************************************************************)
EXTENDS Integers, FiniteSets

CONSTANTS Hosts,     \* hdbcons.hosts
          Requests   \* the settings considered

Types == {"RTE", "CallStack", "GStack", "KProf"}
Orders == {f \in [1 .. 4 -> Types] : \A p, q \in 1 .. 4 : f[p] = f[q] => p = q}

RequestType ==
    [mode: 1 .. 3,               \* -rm
     prio: Orders,               \* -rp
     num: [Types -> Nat],        \* -nr, -nc, -ng, -np
     paced: [Types -> BOOLEAN],  \* -ir, -ic, -ig, -ip or -dp of a second or more
     hosts: SUBSET Hosts]        \* those in hdbcons.hostsForRecording

ASSUME RequestAssumption == Requests \subseteq RequestType

VARIABLES
    req,
    i, pos,      \* the number of the recording; the place in the order
    active,      \* what the recorder of a type is doing
    hostsLeft,   \* the hosts it still has to go through
    count,       \* calls of the recorder that have returned
    fresh,       \* files whose name is that of the current second
    lost,        \* files overwritten by a later one of the same name
    profiles,    \* kernel profiles: what the log claims, what out_dir holds
    outcome

loops == <<i, pos>>
files == <<fresh, lost, profiles>>
vars == <<req, loops, active, hostsLeft, count, files, outcome>>

\* gstack looks at the indexserver of this host only.
HostsOf(t) == IF t = "GStack" THEN {"local"} ELSE req.hosts

MoreRounds == \E t \in Types : i < req.num[t]
AllIdle == \A t \in Types : active[t] = "idle"

Init ==
    /\ req \in Requests
    /\ i = 0 /\ pos = 1
    /\ active = [t \in Types |-> "idle"]
    /\ hostsLeft = [t \in Types |-> {}]
    /\ count = [t \in Types |-> 0]
    /\ fresh = {} /\ lost = {} /\ profiles = {}
    /\ outcome = "running"

Start(types) ==
    /\ active' = [t \in Types |-> IF t \in types THEN "recording" ELSE active[t]]
    /\ hostsLeft' = [t \in Types |-> IF t \in types THEN HostsOf(t) ELSE hostsLeft[t]]

----------------------------------------------------------------------------
(* record(): modes 1 and 2. *)

Due == pos <= 4 /\ i < req.num[req.prio[pos]]

StartInOrder ==
    /\ req.mode \in {1, 2} /\ outcome = "running"
    /\ AllIdle /\ Due
    /\ Start({req.prio[pos]})
    /\ UNCHANGED <<req, loops, count, files, outcome>>

\* Mutant: the inner loop of mode 1 does not start at zero again.
NextType_NoReset ==
    /\ req.mode \in {1, 2} /\ outcome = "running"
    /\ AllIdle /\ pos <= 4 /\ ~Due
    /\ req.mode = 2 => MoreRounds
    /\ pos' = pos + 1
    /\ UNCHANGED <<req, i, active, hostsLeft, count, files, outcome>>

\* Mutant: a type that is not requested is not passed over.
NextType_RequestedOnly ==
    /\ req.mode \in {1, 2} /\ outcome = "running"
    /\ AllIdle /\ pos <= 4 /\ ~Due
    /\ req.num[req.prio[pos]] > 0
    /\ req.mode = 2 => MoreRounds
    /\ pos' = pos + 1
    /\ i' = IF req.mode = 1 THEN 0 ELSE i
    /\ UNCHANGED <<req, active, hostsLeft, count, files, outcome>>

\* The recordings of this type are complete (mode 1), or there is none of
\* this number (mode 2).
NextType ==
    /\ req.mode \in {1, 2} /\ outcome = "running"
    /\ AllIdle /\ pos <= 4 /\ ~Due
    /\ req.mode = 2 => MoreRounds
    /\ pos' = pos + 1
    /\ i' = IF req.mode = 1 THEN 0 ELSE i
    /\ UNCHANGED <<req, active, hostsLeft, count, files, outcome>>

NextNumber ==
    /\ req.mode = 2 /\ outcome = "running" /\ pos = 5
    /\ i' = i + 1
    /\ pos' = 1
    /\ UNCHANGED <<req, active, hostsLeft, count, files, outcome>>

----------------------------------------------------------------------------
(* record_in_parallel(): mode 3.  pos is 2 while pool.map waits. *)

StartPool ==
    /\ req.mode = 3 /\ outcome = "running" /\ pos = 1 /\ MoreRounds
    /\ Start({t \in Types : i < req.num[t]})
    /\ pos' = 2
    /\ UNCHANGED <<req, i, count, files, outcome>>

\* Mutant: map_async, which does not wait.
PoolReturns_NoWait ==
    /\ req.mode = 3 /\ outcome = "running" /\ pos = 2
    /\ i' = i + 1
    /\ pos' = 1
    /\ UNCHANGED <<req, active, hostsLeft, count, files, outcome>>

PoolReturns ==
    /\ req.mode = 3 /\ outcome = "running" /\ pos = 2 /\ AllIdle
    /\ i' = i + 1
    /\ pos' = 1
    /\ UNCHANGED <<req, active, hostsLeft, count, files, outcome>>

----------------------------------------------------------------------------
(* record_rtedump, record_callstack, record_gstack, record_kprof. *)

\* The log of a kernel profile is opened anew by each of the five profiler
\* commands: an [ERROR] is seen only if the last one, a clear, has put it
\* there.  Only without it the trace, if print has made one, is moved.
Profile(printed, cleared) == [claimed |-> cleared, kept |-> printed /\ cleared]

RecordHost(t) ==
    /\ active[t] = "recording"
    /\ \E h \in hostsLeft[t] :
          /\ hostsLeft' = [hostsLeft EXCEPT ![t] = @ \ {h}]
          /\ fresh' = fresh \cup {<<t, h>>}
          /\ lost' = lost \cup ({<<t, h>>} \cap fresh)
    /\ IF t = "KProf"
       THEN \E printed, cleared \in BOOLEAN : profiles' = profiles \cup {Profile(printed, cleared)}
       ELSE UNCHANGED profiles
    /\ UNCHANGED <<req, loops, active, count, outcome>>

Sleep(t) ==
    /\ active[t] = "recording" /\ hostsLeft[t] = {}
    /\ active' = [active EXCEPT ![t] = "sleeping"]
    /\ UNCHANGED <<req, loops, hostsLeft, count, files, outcome>>

\* Mutants: the sleep is forgotten; the loop of mode 2 is advanced by the
\* recorders of mode 3 too.
Finish_NoSleep(t) ==
    /\ active[t] = "sleeping"
    /\ active' = [active EXCEPT ![t] = "idle"]
    /\ count' = [count EXCEPT ![t] = @ + 1]
    /\ i' = IF req.mode = 1 THEN i + 1 ELSE i
    /\ pos' = IF req.mode = 2 THEN pos + 1 ELSE pos
    /\ UNCHANGED <<req, hostsLeft, files, outcome>>

Finish_AnyMode(t) ==
    /\ active[t] = "sleeping"
    /\ req.paced[t] => \A h \in HostsOf(t) : <<t, h>> \notin fresh
    /\ active' = [active EXCEPT ![t] = "idle"]
    /\ count' = [count EXCEPT ![t] = @ + 1]
    /\ i' = IF req.mode = 1 THEN i + 1 ELSE i
    /\ pos' = IF req.mode # 1 THEN pos + 1 ELSE pos
    /\ UNCHANGED <<req, hostsLeft, files, outcome>>

\* A sleep of a second or more leaves the second of the latest file behind.
Finish(t) ==
    /\ active[t] = "sleeping"
    /\ req.paced[t] => \A h \in HostsOf(t) : <<t, h>> \notin fresh
    /\ active' = [active EXCEPT ![t] = "idle"]
    /\ count' = [count EXCEPT ![t] = @ + 1]
    /\ i' = IF req.mode = 1 THEN i + 1 ELSE i
    /\ pos' = IF req.mode = 2 THEN pos + 1 ELSE pos
    /\ UNCHANGED <<req, hostsLeft, files, outcome>>

\* pgrep finds no indexserver, the log file cannot be opened, the interval
\* is negative.  pool.map raises at once: the other processes go on.
Fail(t) ==
    /\ active[t] \in {"recording", "sleeping"}
    /\ active' = [active EXCEPT ![t] = "dead"]
    /\ outcome' = "failed"
    /\ UNCHANGED <<req, loops, hostsLeft, count, files>>

\* sys.exit() ends the processes of the pool, which are daemons.
Terminate ==
    /\ outcome = "failed"
    /\ active' = [t \in Types |-> IF active[t] = "idle" THEN "idle" ELSE "dead"]
    /\ active' # active
    /\ UNCHANGED <<req, loops, hostsLeft, count, files, outcome>>

NextSecond ==
    /\ fresh # {}
    /\ fresh' = {}
    /\ UNCHANGED <<req, loops, active, hostsLeft, count, lost, profiles, outcome>>

Return ==
    /\ outcome = "running"
    /\ IF req.mode = 1 THEN pos = 5 ELSE pos = 1 /\ ~MoreRounds
    /\ outcome' = "complete"
    /\ UNCHANGED <<req, loops, active, hostsLeft, count, files>>

----------------------------------------------------------------------------
Loop == StartInOrder \/ NextType \/ NextNumber \/ StartPool \/ PoolReturns \/ Return
Work(t) == RecordHost(t) \/ Sleep(t) \/ Finish(t)

Next == Loop \/ NextSecond \/ Terminate \/ \E t \in Types : Work(t) \/ Fail(t)

\* hdbcons and gstack come back, the clock runs, and every process of the
\* pool is scheduled.
Fairness == /\ WF_vars(Loop) /\ WF_vars(NextSecond)
            /\ \A t \in Types : WF_vars(Work(t))

Spec == Init /\ [][Next]_vars /\ Fairness

----------------------------------------------------------------------------
TypeOK ==
    /\ req \in Requests
    /\ i \in Nat
    /\ pos \in IF req.mode = 3 THEN 1 .. 2 ELSE 1 .. 5
    /\ active \in [Types -> {"idle", "recording", "sleeping", "dead"}]
    /\ hostsLeft \in [Types -> SUBSET (Hosts \cup {"local"})]
    /\ count \in [Types -> Nat]
    /\ fresh \subseteq Types \X (Hosts \cup {"local"})
    /\ lost \subseteq Types \X (Hosts \cup {"local"})
    /\ profiles \subseteq [claimed: BOOLEAN, kept: BOOLEAN]
    /\ outcome \in {"running", "complete", "failed"}

\* Place in -rp.
Before(u, t) == \E p, q \in 1 .. 4 : p < q /\ req.prio[p] = u /\ req.prio[q] = t
AtLeast(u, n) == count[u] >= n \/ count[u] >= req.num[u]

\* The order of the recordings is the one --help describes: mode 1 finishes
\* a type before it starts the next of -rp, mode 2 and 3 finish a number
\* before they start the next one, mode 2 in the order of -rp.
RecordingOrder ==
    \A t, u \in Types :
        active[t] # "idle" /\ u # t =>
            /\ req.mode = 1 => IF Before(u, t) THEN AtLeast(u, req.num[u]) ELSE count[u] = 0
            /\ req.mode = 2 => AtLeast(u, IF Before(u, t) THEN count[t] + 1 ELSE count[t])
            /\ req.mode = 3 => AtLeast(u, count[t])

\* If the recorders that run more than once sleep a second or more, no file
\* is overwritten, in any mode.
PacedFilesSurvive ==
    (\A t \in Types : req.num[t] <= 1 \/ req.paced[t]) => lost = {}

\* record() comes back, one way or the other.
RecordReturns == <>(outcome # "running")

\* hanasitter.py:1506 names the fourth column of the log "Successful": a
\* kernel profile logged as a success is in the output folder.
ReportedProfilesExist == \A p \in profiles : p.claimed => p.kept

----------------------------------------------------------------------------
Recordings(t, n) == {<<t, n, h>> : h \in HostsOf(t)}

wantedBar == UNION {UNION {Recordings(t, n) : n \in 0 .. req.num[t] - 1} : t \in Types}

madeByReturned == UNION {UNION {Recordings(t, n) : n \in 0 .. count[t] - 1} : t \in Types}

madeByRunning ==
    UNION {{<<t, count[t], h>> : h \in HostsOf(t) \ hostsLeft[t]} :
              t \in {u \in Types : active[u] # "idle"}}

madeBar == madeByReturned \cup madeByRunning

Contract == INSTANCE RecordContract WITH wanted <- wantedBar, made <- madeBar

RecordKeepsContract == Contract!Spec
=============================================================================
