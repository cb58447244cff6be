----------------------------- MODULE MCRecorder -----------------------------
(***************************************************************************)
(* Instances of Recorder: two hosts; all orders of two types in the        *)
(* sequential modes; up to three types in the pool.                        *)
(***************************************************************************)
EXTENDS Recorder

MCHosts == {"h1", "h2"}

DefaultOrder == <<"RTE", "CallStack", "GStack", "KProf">>
OtherOrder == <<"KProf", "GStack", "RTE", "CallStack">>

\* Numbers of RTE dumps, call stacks, gstacks and kernel profiles.
Num(r, c, g, k) ==
    [t \in Types |-> CASE t = "RTE" -> r [] t = "CallStack" -> c
                       [] t = "GStack" -> g [] t = "KProf" -> k]

MCNums == {Num(2, 1, 3, 0), Num(0, 0, 0, 2), Num(1, 2, 0, 1), Num(0, 0, 0, 0)}

\* Host mode, which alone narrows the hosts, down to none after a hang,
\* refuses -ng.
MCRequests ==
    {r \in [mode: 1 .. 3, prio: {DefaultOrder, OtherOrder}, num: MCNums,
            paced: {[t \in Types |-> TRUE], [t \in Types |-> t # "RTE"]},
            hosts: {{}, {"h1"}, MCHosts}] :
        r.hosts = MCHosts \/ r.num["GStack"] = 0}
=============================================================================
