---------------------------- MODULE MCHanaSitter ----------------------------
(***************************************************************************)
(* Instances of HanaSitter: two hosts, a monitoring view that also shows a *)
(* host this database does not use, two critical features of which the     *)
(* second may kill sessions.                                               *)
(***************************************************************************)
EXTENDS HanaSitter

MCHosts == {"h1", "h2"}
MCViewHosts == {"h1", "h2", "standby"}

\* Every combination of the flags that change what is recorded and what is
\* left behind; the rest of the alarms and failures are always possible.
MCConfigs ==
    {c \in ConfigType :
        /\ c.cpu /\ c.mail
        /\ c.kill = {2} /\ NumFeatures >= 2
        /\ c.cleanOut = c.kprof}

\* The settings under which the program promises to exit.
MCLiveConfigs == {c \in MCConfigs : c.exitAfter /\ c.valid}

\* HANASitter as a permanent watch, -ar 3600.
MCRestartConfigs ==
    {c \in MCConfigs : ~c.exitAfter /\ ~c.kprof /\ c.hostMode /\ c.valid /\ c.ping}
=============================================================================
