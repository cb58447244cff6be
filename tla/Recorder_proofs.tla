-------------------------- MODULE Recorder_proofs ---------------------------
(***************************************************************************)
(* record() for any numbers, order, intervals and hosts: the three modes   *)
(* keep their order, lose no file if they are paced, and keep the contract.*)
(***************************************************************************)
EXTENDS Recorder, TLAPS

Capped(t, n) == IF req.num[t] < n THEN req.num[t] ELSE n

\* How the loops and the calls that have returned belong together.
Mode1 ==
    req.mode = 1 =>
        /\ \A p \in 1 .. 4 : count[req.prio[p]] =
               IF p < pos THEN req.num[req.prio[p]] ELSE IF p = pos THEN i ELSE 0
        /\ pos <= 4 => i <= req.num[req.prio[pos]]
        /\ \A t \in Types : active[t] # "idle" =>
               pos <= 4 /\ t = req.prio[pos] /\ i < req.num[t]

Mode2 ==
    req.mode = 2 =>
        /\ \A p \in 1 .. 4 :
               count[req.prio[p]] = Capped(req.prio[p], IF p < pos THEN i + 1 ELSE i)
        /\ \A t \in Types : active[t] # "idle" =>
               pos <= 4 /\ t = req.prio[pos] /\ i < req.num[t]

Mode3 ==
    req.mode = 3 =>
        \A t \in Types :
            /\ count[t] = Capped(t, IF pos = 2 /\ active[t] = "idle" THEN i + 1 ELSE i)
            /\ active[t] # "idle" => pos = 2 /\ i < req.num[t]

\* Hosts are left only to a recorder that is recording, or has died of it.
HostPhase ==
    \A t \in Types :
        /\ hostsLeft[t] \subseteq HostsOf(t)
        /\ active[t] \in {"idle", "sleeping"} => hostsLeft[t] = {}

\* A name is in use only by the call under way, or by an earlier call of a
\* recorder that does not sleep.
FreshPhase ==
    \A t \in Types : \A h \in Hosts \cup {"local"} :
        <<t, h>> \in fresh =>
            /\ h \in HostsOf(t)
            /\ \/ active[t] # "idle" /\ h \notin hostsLeft[t]
               \/ count[t] >= 1 /\ ~req.paced[t]

Returned == outcome = "complete" => \A t \in Types : active[t] = "idle" /\ count[t] = req.num[t]

IInv == /\ TypeOK /\ Mode1 /\ Mode2 /\ Mode3 /\ HostPhase
        /\ FreshPhase /\ PacedFilesSurvive /\ Returned

\* -rp names every type once.
LEMMA OrderCovers ==
    ASSUME req \in Requests
    PROVE  /\ req.prio \in [1 .. 4 -> Types]
           /\ \A p, q \in 1 .. 4 : req.prio[p] = req.prio[q] => p = q
           /\ \A t \in Types : \E p \in 1 .. 4 : req.prio[p] = t
<1>1. req \in RequestType
  BY RequestAssumption
<1>2. /\ req.prio \in [1 .. 4 -> Types]
      /\ \A p, q \in 1 .. 4 : req.prio[p] = req.prio[q] => p = q
  BY <1>1 DEF RequestType, Orders
<1>3. \A t \in Types : \E p \in 1 .. 4 : req.prio[p] = t
  <2>1. req.prio[1] \in Types /\ req.prio[2] \in Types /\ req.prio[3] \in Types /\ req.prio[4] \in Types
    BY <1>2
  <2>2. /\ req.prio[1] # req.prio[2] /\ req.prio[1] # req.prio[3] /\ req.prio[1] # req.prio[4]
        /\ req.prio[2] # req.prio[3] /\ req.prio[2] # req.prio[4] /\ req.prio[3] # req.prio[4]
    BY <1>2
  <2>3. \A t \in Types : t \in {req.prio[1], req.prio[2], req.prio[3], req.prio[4]}
    BY <2>1, <2>2 DEF Types
  <2>4. QED
    BY <2>3
<1>4. QED
  BY <1>2, <1>3

\* The parts of a request.
LEMMA RequestParts ==
    ASSUME req \in Requests
    PROVE  /\ req.mode \in 1 .. 3
           /\ req.num \in [Types -> Nat]
           /\ req.paced \in [Types -> BOOLEAN]
           /\ req.hosts \subseteq Hosts
  BY RequestAssumption DEF RequestType

\* A recorder goes through hosts that exist.
LEMMA HostsExist ==
    ASSUME req \in Requests, NEW t
    PROVE  HostsOf(t) \in SUBSET (Hosts \cup {"local"})
  BY RequestParts DEF HostsOf

\* Every step keeps the types.
LEMMA TypeStep ==
    ASSUME TypeOK, Mode1, Mode2, Mode3, [Next]_vars
    PROVE  TypeOK'
<1>. USE RequestAssumption DEF TypeOK, loops, files
<1>1. CASE StartInOrder
  BY <1>1, RequestParts, HostsExist DEF StartInOrder, Start, Due
<1>2. CASE NextType
  BY <1>2, RequestParts DEF NextType, Due
<1>3. CASE NextNumber
  BY <1>3, RequestParts DEF NextNumber
<1>4. CASE StartPool
  BY <1>4, RequestParts, HostsExist DEF StartPool, Start, MoreRounds
<1>5. CASE PoolReturns
  BY <1>5, RequestParts DEF PoolReturns
<1>6. CASE Return
  BY <1>6, RequestParts DEF Return, MoreRounds
<1>7. CASE NextSecond
  BY <1>7, RequestParts DEF NextSecond
<1>8. CASE Terminate
  BY <1>8, RequestParts DEF Terminate
<1>9. ASSUME NEW t \in Types, RecordHost(t) PROVE TypeOK'
  BY <1>9, RequestParts DEF RecordHost, Profile
<1>10. ASSUME NEW t \in Types, Sleep(t) PROVE TypeOK'
  BY <1>10, RequestParts DEF Sleep
<1>11. ASSUME NEW t \in Types, Finish(t) PROVE TypeOK'
  <2>1. req.mode = 1 => i + 1 \in Nat
    OBVIOUS
  <2>2. req.mode = 2 => pos + 1 \in 1 .. 5
    BY <1>11 DEF Mode2, Finish
  <2>3. i' \in Nat /\ pos' \in IF req.mode = 3 THEN 1 .. 2 ELSE 1 .. 5
    BY <1>11, <2>1, <2>2 DEF Finish
  <2>4. count' \in [Types -> Nat] /\ active' \in [Types -> {"idle", "recording", "sleeping", "dead"}]
    BY <1>11 DEF Finish
  <2>5. QED
    BY <1>11, <2>3, <2>4 DEF Finish
<1>12. ASSUME NEW t \in Types, Fail(t) PROVE TypeOK'
  BY <1>12, RequestParts DEF Fail
<1>13. CASE UNCHANGED vars
  BY <1>13 DEF vars
<1>14. QED
  BY <1>1, <1>2, <1>3, <1>4, <1>5, <1>6, <1>7, <1>8, <1>9, <1>10, <1>11, <1>12, <1>13
     DEF Next, Loop, Work

\* Every step keeps the loops in phase with the calls that have returned.
LEMMA LoopStep ==
    ASSUME TypeOK, Mode1, Mode2, Mode3, [Next]_vars
    PROVE  (Mode1 /\ Mode2 /\ Mode3)'
<1>. USE RequestAssumption DEF TypeOK, Mode1, Mode2, Mode3, Capped, AllIdle, loops, files
<1>1. CASE StartInOrder
  BY <1>1, RequestParts, OrderCovers DEF StartInOrder, Start, Due
<1>2. CASE NextType
  BY <1>2, RequestParts, OrderCovers DEF NextType, Due
<1>3. CASE NextNumber
  BY <1>3, RequestParts, OrderCovers DEF NextNumber
<1>4. CASE StartPool
  BY <1>4, RequestParts, OrderCovers DEF StartPool, Start, MoreRounds
<1>5. CASE PoolReturns
  BY <1>5, RequestParts, OrderCovers DEF PoolReturns
<1>6. CASE Return
  BY <1>6, RequestParts, OrderCovers DEF Return, MoreRounds
<1>7. CASE NextSecond
  BY <1>7, RequestParts, OrderCovers DEF NextSecond
<1>8. CASE Terminate
  BY <1>8, RequestParts, OrderCovers DEF Terminate
<1>9. ASSUME NEW t \in Types, RecordHost(t) PROVE (Mode1 /\ Mode2 /\ Mode3)'
  BY <1>9, RequestParts, OrderCovers DEF RecordHost, Profile
<1>10. ASSUME NEW t \in Types, Sleep(t) PROVE (Mode1 /\ Mode2 /\ Mode3)'
  BY <1>10, RequestParts, OrderCovers DEF Sleep
<1>11. ASSUME NEW t \in Types, Finish(t) PROVE (Mode1 /\ Mode2 /\ Mode3)'
  BY <1>11, RequestParts, OrderCovers DEF Finish
<1>12. ASSUME NEW t \in Types, Fail(t) PROVE (Mode1 /\ Mode2 /\ Mode3)'
  BY <1>12, RequestParts, OrderCovers DEF Fail
<1>13. CASE UNCHANGED vars
  BY <1>13 DEF vars
<1>14. QED
  BY <1>1, <1>2, <1>3, <1>4, <1>5, <1>6, <1>7, <1>8, <1>9, <1>10, <1>11, <1>12, <1>13
     DEF Next, Loop, Work

\* Every step keeps the files in phase with the recorders.
LEMMA FileStep ==
    ASSUME TypeOK, Mode1, Mode2, Mode3, HostPhase, FreshPhase, PacedFilesSurvive, [Next]_vars
    PROVE  (HostPhase /\ FreshPhase /\ PacedFilesSurvive)'
<1>. USE RequestAssumption DEF TypeOK, HostPhase, FreshPhase, PacedFilesSurvive, HostsOf, AllIdle, loops, files
<1>1. CASE StartInOrder
  BY <1>1, RequestParts DEF StartInOrder, Start, Due
<1>2. CASE NextType
  BY <1>2, RequestParts DEF NextType, Due
<1>3. CASE NextNumber
  BY <1>3, RequestParts DEF NextNumber
<1>4. CASE StartPool
  <2>1. \A t \in Types : active[t] = "idle"
    BY <1>4 DEF StartPool, Mode3
  <2>2. \A t \in Types : HostsOf(t)' = HostsOf(t)
    BY <1>4 DEF StartPool
  <2>3. HostPhase'
    BY <1>4, <2>2 DEF StartPool, Start
  <2>4. FreshPhase'
    BY <1>4, <2>1 DEF StartPool, Start
  <2>5. PacedFilesSurvive'
    BY <1>4 DEF StartPool
  <2>6. QED
    BY <2>3, <2>4, <2>5
<1>5. CASE PoolReturns
  BY <1>5, RequestParts DEF PoolReturns
<1>6. CASE Return
  BY <1>6, RequestParts DEF Return, MoreRounds
<1>7. CASE NextSecond
  BY <1>7, RequestParts DEF NextSecond
<1>8. CASE Terminate
  BY <1>8, RequestParts DEF Terminate
<1>9. ASSUME NEW t \in Types, RecordHost(t) PROVE (HostPhase /\ FreshPhase /\ PacedFilesSurvive)'
  <2>. PICK h \in hostsLeft[t] :
          /\ hostsLeft' = [hostsLeft EXCEPT ![t] = @ \ {h}]
          /\ fresh' = fresh \cup {<<t, h>>}
          /\ lost' = lost \cup ({<<t, h>>} \cap fresh)
    BY <1>9 DEF RecordHost
  <2>. active[t] = "recording" /\ UNCHANGED <<req, loops, active, count, outcome>>
    BY <1>9 DEF RecordHost
  <2>1. HostPhase'
    BY <1>9
  <2>2. FreshPhase'
    BY <1>9
  <2>3. count[t] < req.num[t]
    <3>1. req.mode = 1 => count[t] = i /\ i < req.num[t]
      BY OrderCovers DEF Mode1
    <3>2. req.mode = 2 => count[t] = i /\ i < req.num[t]
      BY OrderCovers, RequestParts DEF Mode2, Capped
    <3>3. req.mode = 3 => count[t] = i /\ i < req.num[t]
      BY RequestParts DEF Mode3, Capped
    <3>4. QED
      BY <3>1, <3>2, <3>3, RequestParts
  <2>4. h \in Hosts \cup {"local"}
    OBVIOUS
  <2>5. req.num[t] <= 1 \/ req.paced[t] => <<t, h>> \notin fresh
    BY <2>3, <2>4, RequestParts
  <2>6. PacedFilesSurvive'
    BY <2>5
  <2>7. QED
    BY <2>1, <2>2, <2>6
<1>10. ASSUME NEW t \in Types, Sleep(t) PROVE (HostPhase /\ FreshPhase /\ PacedFilesSurvive)'
  BY <1>10, RequestParts DEF Sleep
<1>11. ASSUME NEW t \in Types, Finish(t) PROVE (HostPhase /\ FreshPhase /\ PacedFilesSurvive)'
  <2>1. hostsLeft[t] = {} /\ count'[t] >= 1
    BY <1>11 DEF Finish
  <2>2. HostPhase'
    BY <1>11, <2>1 DEF Finish
  <2>3. FreshPhase'
    <3>. SUFFICES ASSUME NEW u \in Types, NEW h \in Hosts \cup {"local"}, <<u, h>> \in fresh
                  PROVE  /\ h \in HostsOf(u)
                         /\ \/ active'[u] # "idle" /\ h \notin hostsLeft[u]
                            \/ count'[u] >= 1 /\ ~req.paced[u]
      BY <1>11 DEF Finish
    <3>1. CASE u # t
      BY <1>11, <3>1 DEF Finish
    <3>2. CASE u = t /\ ~req.paced[t]
      BY <2>1, <3>2
    <3>3. CASE u = t /\ req.paced[t]
      BY <1>11, <3>3, RequestParts DEF Finish
    <3>4. QED
      BY <3>1, <3>2, <3>3
  <2>4. PacedFilesSurvive'
    BY <1>11 DEF Finish
  <2>5. QED
    BY <2>2, <2>3, <2>4
<1>12. ASSUME NEW t \in Types, Fail(t) PROVE (HostPhase /\ FreshPhase /\ PacedFilesSurvive)'
  BY <1>12, RequestParts DEF Fail
<1>13. CASE UNCHANGED vars
  BY <1>13 DEF vars
<1>14. QED
  BY <1>1, <1>2, <1>3, <1>4, <1>5, <1>6, <1>7, <1>8, <1>9, <1>10, <1>11, <1>12, <1>13
     DEF Next, Loop, Work

\* When record() returns, every recorder has been called as often as asked.
LEMMA ReturnStep ==
    ASSUME TypeOK, Mode1, Mode2, Mode3, Returned, [Next]_vars
    PROVE  Returned'
<1>. USE RequestAssumption DEF TypeOK, Returned, AllIdle, loops, files
<1>1. CASE StartInOrder
  BY <1>1 DEF StartInOrder
<1>2. CASE NextType
  BY <1>2 DEF NextType
<1>3. CASE NextNumber
  BY <1>3 DEF NextNumber
<1>4. CASE StartPool
  BY <1>4 DEF StartPool
<1>5. CASE PoolReturns
  BY <1>5 DEF PoolReturns
<1>6. CASE Return
  <2>1. ASSUME NEW t \in Types PROVE active[t] = "idle" /\ count[t] = req.num[t]
    <3>1. req.mode \in 1 .. 3 /\ req.num[t] \in Nat
      BY RequestParts
    <3>2. PICK p \in 1 .. 4 : req.prio[p] = t
      BY OrderCovers
    <3>3. CASE req.mode = 1
      BY <1>6, <3>2, <3>3 DEF Return, Mode1
    <3>4. CASE req.mode = 2
      BY <1>6, <3>1, <3>2, <3>4 DEF Return, Mode2, MoreRounds, Capped
    <3>5. CASE req.mode = 3
      BY <1>6, <3>1, <3>5 DEF Return, Mode3, MoreRounds, Capped
    <3>6. QED
      BY <3>1, <3>3, <3>4, <3>5
  <2>2. QED
    BY <1>6, <2>1 DEF Return
<1>7. CASE NextSecond
  BY <1>7 DEF NextSecond
<1>8. CASE Terminate
  BY <1>8 DEF Terminate
<1>9. ASSUME NEW t \in Types, RecordHost(t) PROVE Returned'
  BY <1>9 DEF RecordHost
<1>10. ASSUME NEW t \in Types, Sleep(t) PROVE Returned'
  BY <1>10 DEF Sleep
<1>11. ASSUME NEW t \in Types, Finish(t) PROVE Returned'
  BY <1>11 DEF Finish
<1>12. ASSUME NEW t \in Types, Fail(t) PROVE Returned'
  BY <1>12 DEF Fail
<1>13. CASE UNCHANGED vars
  BY <1>13 DEF vars
<1>14. QED
  BY <1>1, <1>2, <1>3, <1>4, <1>5, <1>6, <1>7, <1>8, <1>9, <1>10, <1>11, <1>12, <1>13
     DEF Next, Loop, Work

\* All the parts together hold at the start and after every step.
LEMMA Inductive == Spec => []IInv
<1>1. Init => IInv
  <2>. SUFFICES ASSUME Init PROVE IInv
    OBVIOUS
  <2>. USE DEF Init
  <2>1. req \in Requests
    OBVIOUS
  <2>2. TypeOK
    BY <2>1, RequestParts DEF TypeOK
  <2>3. Mode1 /\ Mode2 /\ Mode3
    BY <2>1, RequestParts, OrderCovers DEF Mode1, Mode2, Mode3, Capped
  <2>4. HostPhase /\ FreshPhase /\ PacedFilesSurvive /\ Returned
    BY DEF HostPhase, FreshPhase, PacedFilesSurvive, Returned
  <2>5. QED
    BY <2>2, <2>3, <2>4 DEF IInv
<1>2. IInv /\ [Next]_vars => IInv'
  BY TypeStep, LoopStep, FileStep, ReturnStep DEF IInv
<1>3. QED
  BY <1>1, <1>2, PTL DEF Spec

\* What record() counts, numbers and hands to its workers stays in range.
THEOREM RecordTypeCorrect == Spec => []TypeOK
<1>1. IInv => TypeOK
  BY DEF IInv
<1>2. QED
  BY <1>1, Inductive, PTL

\* The three modes record in the order --help describes (RecordingOrder),
\* for any numbers and any -rp.
THEOREM OrderKept == Spec => []RecordingOrder
<1>1. IInv => RecordingOrder
  <2>. SUFFICES ASSUME IInv, NEW t \in Types, NEW u \in Types, active[t] # "idle", u # t
                PROVE  /\ req.mode = 1 => IF Before(u, t) THEN AtLeast(u, req.num[u]) ELSE count[u] = 0
                       /\ req.mode = 2 => AtLeast(u, IF Before(u, t) THEN count[t] + 1 ELSE count[t])
                       /\ req.mode = 3 => AtLeast(u, count[t])
    BY DEF RecordingOrder
  <2>. USE DEF IInv, TypeOK
  <2>1. req.mode \in 1 .. 3 /\ req.num[t] \in Nat /\ req.num[u] \in Nat /\ i \in Nat
    BY RequestParts
  <2>2. PICK p, q \in 1 .. 4 : req.prio[p] = u /\ req.prio[q] = t
    BY OrderCovers
  <2>3. Before(u, t) <=> p < q
    BY <2>2, OrderCovers DEF Before
  <2>4. CASE req.mode = 1
    <3>1. q = pos /\ p # q
      BY <2>2, <2>4, OrderCovers DEF Mode1
    <3>2. QED
      BY <2>1, <2>2, <2>3, <2>4, <3>1 DEF Mode1, AtLeast
  <2>5. CASE req.mode = 2
    <3>1. q = pos /\ p # q /\ i < req.num[t]
      BY <2>2, <2>5, OrderCovers DEF Mode2
    <3>2. QED
      BY <2>1, <2>2, <2>3, <2>5, <3>1 DEF Mode2, Capped, AtLeast
  <2>6. CASE req.mode = 3
    BY <2>1, <2>6 DEF Mode3, Capped, AtLeast
  <2>7. QED
    BY <2>4, <2>5, <2>6
<1>2. QED
  BY <1>1, Inductive, PTL

\* With intervals of a second or more no recording overwrites another
\* (PacedFilesSurvive), for any number of hosts and recordings.
THEOREM FilesSurvive == Spec => []PacedFilesSurvive
<1>1. IInv => PacedFilesSurvive
  BY DEF IInv
<1>2. QED
  BY <1>1, Inductive, PTL

----------------------------------------------------------------------------
(* The contract. *)

\* A recording is in the making or made.
Done(t, n, h) ==
    \/ n < count[t]
    \/ active[t] # "idle" /\ n = count[t] /\ h \notin hostsLeft[t]

\* What the mapped sets contain.
LEMMA WantedMember ==
    ASSUME TypeOK, NEW r
    PROVE  r \in wantedBar <=>
             \E t \in Types : \E n \in Nat : \E h \in HostsOf(t) :
                r = <<t, n, h>> /\ n < req.num[t]
<1>1. req.num \in [Types -> Nat]
  BY RequestParts DEF TypeOK
<1>2. r \in wantedBar <=>
        \E t \in Types : \E n \in 0 .. req.num[t] - 1 : r \in Recordings(t, n)
  BY DEF wantedBar
<1>3. QED
  BY <1>1, <1>2 DEF Recordings

MadeMembers ==
    \A r : r \in madeBar <=>
             \E t \in Types : \E n \in Nat : \E h \in HostsOf(t) :
                r = <<t, n, h>> /\ Done(t, n, h)

LEMMA MadeMember == TypeOK => MadeMembers
<1>. SUFFICES ASSUME TypeOK, NEW r
              PROVE  r \in madeBar <=>
                       \E t \in Types : \E n \in Nat : \E h \in HostsOf(t) :
                          r = <<t, n, h>> /\ Done(t, n, h)
  BY DEF MadeMembers
<1>1. count \in [Types -> Nat]
  BY DEF TypeOK
<1>2. r \in madeByReturned <=>
        \E t \in Types : \E n \in 0 .. count[t] - 1 : r \in Recordings(t, n)
  BY DEF madeByReturned
<1>3. r \in madeByRunning <=>
        \E t \in Types : /\ active[t] # "idle"
                         /\ \E h \in HostsOf(t) \ hostsLeft[t] : r = <<t, count[t], h>>
  BY DEF madeByRunning
<1>4. r \in madeBar <=> r \in madeByReturned \/ r \in madeByRunning
  BY DEF madeBar
<1>5. QED
  BY <1>1, <1>2, <1>3, <1>4 DEF Recordings, Done

\* A call under way has not been counted yet, and was requested.
LEMMA UnderWay ==
    ASSUME IInv, NEW t \in Types, active[t] # "idle"
    PROVE  count[t] < req.num[t] /\ outcome # "complete"
<1>. USE DEF IInv, TypeOK
<1>1. req.num[t] \in Nat /\ req.mode \in 1 .. 3
  BY RequestParts
<1>2. req.mode = 1 => count[t] < req.num[t]
  BY <1>1, OrderCovers DEF Mode1
<1>3. req.mode = 2 => count[t] < req.num[t]
  BY <1>1, OrderCovers DEF Mode2, Capped
<1>4. req.mode = 3 => count[t] < req.num[t]
  BY <1>1 DEF Mode3, Capped
<1>5. outcome # "complete"
  BY DEF Returned
<1>6. QED
  BY <1>1, <1>2, <1>3, <1>4, <1>5

\* A step that changes no Done leaves the contract's sets alone.
LEMMA SameSets ==
    ASSUME TypeOK, TypeOK', req' = req,
           \A t \in Types : \A n \in Nat : \A h \in HostsOf(t) : Done(t, n, h)' <=> Done(t, n, h)
    PROVE  wantedBar' = wantedBar /\ madeBar' = madeBar
<1>1. wantedBar' = wantedBar
  BY DEF wantedBar, Recordings, HostsOf
<1>2. \A t : HostsOf(t)' = HostsOf(t)
  BY DEF HostsOf
<1>3. MadeMembers'
  BY MadeMember, PTL
<1>4. MadeMembers
  BY MadeMember
<1>5. \A r : r \in madeBar' <=> r \in madeBar
  BY <1>2, <1>3, <1>4 DEF MadeMembers
<1>6. QED
  BY <1>1, <1>5

\* A host done is one recording the contract makes.
LEMMA MakeStep ==
    ASSUME IInv, TypeOK', NEW t \in Types, RecordHost(t)
    PROVE  Contract!Make
<1>. USE DEF IInv
<1>1. /\ active[t] = "recording" /\ active' = active /\ count' = count
      /\ req' = req /\ outcome' = outcome
  BY DEF RecordHost
<1>2. PICK h \in hostsLeft[t] : hostsLeft' = [hostsLeft EXCEPT ![t] = @ \ {h}]
  BY DEF RecordHost
<1>3. count[t] \in Nat /\ count[t] < req.num[t] /\ outcome # "complete"
  BY <1>1, UnderWay DEF TypeOK
<1>4. h \in HostsOf(t)
  BY <1>2 DEF HostPhase
<1>5. \A u \in Types : \A n \in Nat : \A g \in HostsOf(u) :
          Done(u, n, g)' <=> Done(u, n, g) \/ (u = t /\ n = count[t] /\ g = h)
  BY <1>1, <1>2 DEF Done, TypeOK
<1>6. MadeMembers /\ MadeMembers'
  BY MadeMember, PTL
<1>7. \A u : HostsOf(u)' = HostsOf(u)
  BY <1>1 DEF HostsOf
<1>. DEFINE r == <<t, count[t], h>>
<1>8. r \in wantedBar
  BY <1>3, <1>4, WantedMember
<1>9. r \notin madeBar
  BY <1>1, <1>2, <1>6 DEF MadeMembers, Done
<1>10. \A x : x \in madeBar' <=> x \in madeBar \/ x = r
  BY <1>3, <1>4, <1>5, <1>6, <1>7 DEF MadeMembers
<1>11. wantedBar' = wantedBar
  BY <1>1 DEF wantedBar, Recordings, HostsOf
<1>12. madeBar' = madeBar \cup {r}
  BY <1>10
<1>13. QED
  BY <1>1, <1>3, <1>8, <1>9, <1>11, <1>12 DEF Contract!Make

\* When record() has returned, everything wanted is made.
Complete == outcome = "complete" => madeBar = wantedBar

LEMMA NothingMissing == IInv => Complete
<1>. SUFFICES ASSUME IInv, outcome = "complete"
              PROVE  madeBar = wantedBar
  BY DEF Complete
<1>1. \A t \in Types : active[t] = "idle" /\ count[t] = req.num[t]
  BY DEF IInv, Returned
<1>2. TypeOK /\ MadeMembers
  BY MadeMember DEF IInv
<1>3. \A r : r \in madeBar <=> r \in wantedBar
  BY <1>1, <1>2, WantedMember DEF MadeMembers, Done
<1>4. QED
  BY <1>3

\* Every step of record() is one of the contract, or none.
LEMMA ContractStep ==
    ASSUME IInv, IInv', [Next]_vars
    PROVE  [Contract!Next]_(Contract!vars)
<1>. USE DEF loops, files
<1>1. TypeOK /\ TypeOK'
  BY DEF IInv
<1>2. ASSUME req' = req, outcome' = outcome,
             \A t \in Types : \A n \in Nat : \A h \in HostsOf(t) : Done(t, n, h)' <=> Done(t, n, h)
      PROVE  [Contract!Next]_(Contract!vars)
  BY <1>1, <1>2, SameSets DEF Contract!vars
<1>3. ASSUME NEW S \in SUBSET Types, Start(S), \A t \in S : active[t] = "idle",
             UNCHANGED <<req, count, outcome>>
      PROVE  [Contract!Next]_(Contract!vars)
  <2>1. \A t \in Types : \A n \in Nat : \A h \in HostsOf(t) : Done(t, n, h)' <=> Done(t, n, h)
    BY <1>1, <1>3 DEF Start, Done, TypeOK
  <2>2. QED
    BY <1>2, <1>3, <2>1
<1>4. ASSUME UNCHANGED <<req, active, hostsLeft, count, outcome>>
      PROVE  [Contract!Next]_(Contract!vars)
  BY <1>2, <1>4 DEF Done
<1>5. CASE StartInOrder
  <2>1. pos \in 1 .. 4
    BY <1>1, <1>5, RequestParts DEF StartInOrder, Due, TypeOK
  <2>2. req.prio[pos] \in Types
    BY <1>1, <2>1, OrderCovers DEF TypeOK
  <2>3. QED
    BY <1>3, <1>5, <2>2 DEF StartInOrder, AllIdle
<1>6. CASE StartPool
  <2>1. \A t \in Types : active[t] = "idle"
    BY <1>6, RequestParts DEF StartPool, IInv, TypeOK, Mode3
  <2>2. QED
    BY <1>3, <1>6, <2>1 DEF StartPool
<1>7. CASE NextType \/ NextNumber \/ PoolReturns \/ NextSecond \/ UNCHANGED vars
  BY <1>4, <1>7 DEF NextType, NextNumber, PoolReturns, NextSecond, vars
<1>8. CASE Return
  <2>1. outcome = "running" /\ outcome' = "complete" /\ req' = req
    BY <1>8 DEF Return
  <2>2. \A t \in Types : \A n \in Nat : \A h \in HostsOf(t) : Done(t, n, h)' <=> Done(t, n, h)
    BY <1>8 DEF Return, Done
  <2>3. wantedBar' = wantedBar /\ madeBar' = madeBar
    BY <1>1, <2>1, <2>2, SameSets
  <2>4. Complete'
    BY NothingMissing, PTL
  <2>5. QED
    BY <2>1, <2>3, <2>4 DEF Complete, Contract!Next, Contract!Return
<1>9. ASSUME NEW t \in Types, Fail(t)
      PROVE  [Contract!Next]_(Contract!vars)
  <2>1. \A u \in Types : \A n \in Nat : \A h \in HostsOf(u) : Done(u, n, h)' <=> Done(u, n, h)
    BY <1>1, <1>9 DEF Fail, Done, TypeOK
  <2>2. wantedBar' = wantedBar /\ madeBar' = madeBar
    BY <1>1, <1>9, <2>1, SameSets DEF Fail
  <2>3. outcome \in {"running", "failed"} /\ outcome' = "failed"
    BY <1>1, <1>9, UnderWay DEF Fail, TypeOK
  <2>4. QED
    BY <2>2, <2>3 DEF Contract!Next, Contract!Raise, Contract!vars
<1>10. CASE Terminate
  <2>1. \A u \in Types : \A n \in Nat : \A h \in HostsOf(u) : Done(u, n, h)' <=> Done(u, n, h)
    BY <1>1, <1>10 DEF Terminate, Done, TypeOK
  <2>2. QED
    BY <1>2, <1>10, <2>1 DEF Terminate
<1>11. ASSUME NEW t \in Types, RecordHost(t)
       PROVE  [Contract!Next]_(Contract!vars)
  BY <1>1, <1>11, MakeStep DEF Contract!Next
<1>12. ASSUME NEW t \in Types, Sleep(t)
       PROVE  [Contract!Next]_(Contract!vars)
  <2>1. \A u \in Types : \A n \in Nat : \A h \in HostsOf(u) : Done(u, n, h)' <=> Done(u, n, h)
    BY <1>1, <1>12 DEF Sleep, Done, TypeOK
  <2>2. QED
    BY <1>2, <1>12, <2>1 DEF Sleep
<1>13. ASSUME NEW t \in Types, Finish(t)
       PROVE  [Contract!Next]_(Contract!vars)
  <2>1. hostsLeft[t] = {} /\ count[t] \in Nat
    BY <1>1, <1>13 DEF Finish, IInv, HostPhase, TypeOK
  <2>2. \A u \in Types : \A n \in Nat : \A h \in HostsOf(u) : Done(u, n, h)' <=> Done(u, n, h)
    BY <1>1, <1>13, <2>1 DEF Finish, Done, TypeOK
  <2>3. QED
    BY <1>2, <1>13, <2>2 DEF Finish
<1>14. QED
  BY <1>5, <1>6, <1>7, <1>8, <1>9, <1>10, <1>11, <1>12, <1>13 DEF Next, Loop, Work

\* record() in all three modes, with any numbers and hosts, keeps the
\* contract of RecordContract (RecordKeepsContract).
THEOREM RecordContractKept == Spec => RecordKeepsContract
<1>1. Init => Contract!Init
  <2>. SUFFICES ASSUME Init PROVE Contract!Init
    OBVIOUS
  <2>1. madeByReturned = {} /\ madeByRunning = {}
    BY DEF Init, madeByReturned, madeByRunning, Recordings
  <2>2. QED
    BY <2>1 DEF Init, Contract!Init, madeBar
<1>2. IInv /\ IInv' /\ [Next]_vars => [Contract!Next]_(Contract!vars)
  BY ContractStep
<1>3. QED
  BY <1>1, <1>2, Inductive, PTL DEF Spec, RecordKeepsContract, Contract!Spec
=============================================================================
