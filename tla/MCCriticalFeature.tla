------------------------- MODULE MCCriticalFeature -------------------------
(***************************************************************************)
(* Bounds for CriticalFeature: a session on each of two hosts, zero to two *)
(* iterations, timeouts of up to two Timer delays, intervals of up to one, *)
(* and some negative ones.                                                 *)
(***************************************************************************)
EXTENDS CriticalFeature, TLC

CONSTANTS s1, s2, h1, h2

MCSessions == {s1, s2}
MCHosts == {h1, h2}
MCHome == (s1 :> h1) @@ (s2 :> h2)

Plain ==
    [view |-> TRUE, column |-> TRUE, hostColumn |-> TRUE, idColumn |-> TRUE,
     whereMode |-> TRUE, hostMode |-> FALSE, logs |-> FALSE, minimum |-> FALSE, limit |-> 0,
     iterations |-> 1, interval |-> 0, timeout |-> 2, kill |-> FALSE]

\* Maximum and minimum, in all and per host, for one iteration and for two.
Counting ==
    {[Plain EXCEPT !.hostMode = m, !.minimum = l[1], !.limit = l[2], !.iterations = 2,
                   !.timeout = 1] :
        m \in BOOLEAN, l \in {<<FALSE, 0>>, <<FALSE, 1>>, <<TRUE, 1>>, <<TRUE, 2>>}}

Timing ==
    {[Plain EXCEPT !.iterations = n, !.interval = i, !.timeout = t] :
        n \in 0 .. 2, i \in 0 .. 1, t \in 0 .. 1}

\* Integers are all that -if and -tf are checked for.
Negative ==
    {[Plain EXCEPT !.iterations = 2, !.interval = -1],
     [Plain EXCEPT !.iterations = -1, !.timeout = -2],
     [Plain EXCEPT !.timeout = -1]}

Stopping1 ==
    {[Plain EXCEPT !.kill = TRUE, !.idColumn = c, !.hostMode = m] : c \in BOOLEAN, m \in BOOLEAN}

Inputs ==
    {[Plain EXCEPT !.view = FALSE], [Plain EXCEPT !.whereMode = FALSE],
     [Plain EXCEPT !.whereMode = FALSE, !.column = FALSE],
     [Plain EXCEPT !.whereMode = FALSE, !.hostMode = TRUE],
     [Plain EXCEPT !.hostMode = TRUE, !.hostColumn = FALSE],
     [Plain EXCEPT !.logs = TRUE]}

MCSettings == Counting \cup Timing \cup Negative \cup Stopping1 \cup Inputs
=============================================================================
