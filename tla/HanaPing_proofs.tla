-------------------------- MODULE HanaPing_proofs ---------------------------
(***************************************************************************)
(* hana_ping for every ratio of ping timeout to pause: its verdicts are    *)
(* earned, it is bounded in time, and it keeps the contract.               *)
(***************************************************************************)
EXTENDS HanaPing, TLAPS

\* Where the caller is determines what it and the thread can have done.
Phase ==
    /\ pc \in {"loop", "join", "sample"} => ~hanging /\ ~pinged
    /\ pc = "loop" => ~output /\ thread \in {"none", "finished"}
    /\ pc # "loop" => thread # "none"
    /\ pc = "sample" => thread = "finished" \/ waited = Tenths
    /\ pc \in {"read", "decide", "done"} /\ ~hanging => thread = "finished"
    /\ pc = "read" => ~pinged
    /\ pc = "decide" /\ ~hanging => pinged = output
    /\ pc = "aborted" => hanging /\ pinged
    /\ pc = "raised" => output
    /\ offline => pc = "done"

\* The flags and what they testify to.
Evidence ==
    /\ pinged => output
    /\ hanging => waited = Tenths
    /\ output => thread \in {"returning", "finished"}
    /\ pc = "done" /\ ~offline => hanging # pinged
    /\ offline => ~hanging /\ ~pinged /\ ~output /\ lifetime = Tenths + 1

\* Each attempt costs at most a timeout, each retry one pause more.
Spent == elapsed <= lifetime * (Tenths + 1) + (IF pc = "loop" THEN 0 ELSE waited)

IInv == TypeOK /\ Phase /\ Evidence /\ Spent

LEMMA Bounds == Tenths \in Nat /\ 0 \in 0 .. Tenths /\ 0 \in 0 .. Tenths + 1
  BY TenthsAssumption

\* The invariant holds when hana_ping is called and after each of its steps.
LEMMA Inductive == Spec => []IInv
<1>. USE TenthsAssumption DEF DbStates
<1>1. Init => IInv
  <2>1. 0 * (Tenths + 1) = 0
    OBVIOUS
  <2>2. Init => TypeOK
    <3>. SUFFICES ASSUME Init PROVE TypeOK
      OBVIOUS
    <3>1. lifetime \in 0 .. Tenths + 1 /\ waited \in 0 .. Tenths /\ elapsed \in Nat
      BY Bounds DEF Init
    <3>2. QED
      BY <3>1 DEF Init, TypeOK
  <2>3. Init => Phase
    BY DEF Init, Phase
  <2>4. Init => Evidence
    BY DEF Init, Evidence
  <2>5. Init => Spent
    BY <2>1 DEF Init, Spent
  <2>6. QED
    BY <2>2, <2>3, <2>4, <2>5 DEF IInv
<1>2. IInv /\ [Next]_vars => IInv'
  <2>. SUFFICES ASSUME IInv, [Next]_vars PROVE IInv'
    OBVIOUS
  <2>. USE DEF IInv, TypeOK, Phase, Evidence, Spent, caller
  <2>1. CASE DbChange BY <2>1 DEF DbChange
  <2>2. CASE Answer BY <2>2 DEF Answer, Alive
  <2>3. CASE Refuse BY <2>3 DEF Refuse, Alive
  <2>4. CASE ThreadEnds BY <2>4 DEF ThreadEnds, Alive
  <2>5. CASE StartAttempt BY <2>5, Bounds DEF StartAttempt
  <2>6. CASE Tick BY <2>6 DEF Tick
  <2>7. CASE JoinReturns BY <2>7 DEF JoinReturns
  <2>8. CASE SampleAlive BY <2>8 DEF SampleAlive
  <2>9. CASE ReadOutput BY <2>9 DEF ReadOutput
  <2>10. CASE AbortBoth BY <2>10 DEF AbortBoth
  <2>11. CASE ReturnVerdict BY <2>11 DEF ReturnVerdict
  <2>12. CASE ReturnOffline BY <2>12 DEF ReturnOffline, GiveUp
  <2>13. CASE Retry
    <3>1. lifetime' = lifetime + 1 /\ lifetime <= Tenths /\ waited \in 0 .. Tenths
      BY <2>13 DEF Retry, GiveUp
    <3>2. (lifetime + 1) * (Tenths + 1) = lifetime * (Tenths + 1) + Tenths + 1
      OBVIOUS
    <3>3. Spent'
      BY <2>13, <3>1, <3>2 DEF Retry
    <3>4. QED
      BY <2>13, <3>1, <3>3 DEF Retry, GiveUp
  <2>14. CASE ReadRaises BY <2>14 DEF ReadRaises
  <2>15. CASE UNCHANGED vars BY <2>15 DEF vars
  <2>16. QED
    BY <2>1, <2>2, <2>3, <2>4, <2>5, <2>6, <2>7, <2>8, <2>9, <2>10, <2>11,
       <2>12, <2>13, <2>14, <2>15 DEF Next, Caller
<1>3. QED
  BY <1>1, <1>2, PTL DEF Spec

\* The clock of hana_ping, its retries and the two threads' results stay in range.
THEOREM PingTypeCorrect == Spec => []TypeOK
<1>1. IInv => TypeOK
  BY DEF IInv
<1>2. QED
  BY <1>1, Inductive, PTL

\* A verdict of hana_ping is earned (VerdictIsEarned): hanging and offline
\* exclude each other, neither needs an answer, and a hang a full timeout.
THEOREM VerdictSafety == Spec => []VerdictIsEarned
<1>1. IInv => VerdictIsEarned
  BY DEF IInv, TypeOK, Phase, Evidence, VerdictIsEarned
<1>2. QED
  BY <1>1, Inductive, PTL

\* The tracker is never blocked by a ping for more than Tenths + 2 timeouts
\* and the pauses between them (BoundedPing).
THEOREM PingBound == Spec => []BoundedPing
<1>1. IInv => BoundedPing
  <2>. SUFFICES ASSUME IInv PROVE BoundedPing
    OBVIOUS
  <2>. USE TenthsAssumption DEF IInv, TypeOK
  <2>1. lifetime * (Tenths + 1) <= (Tenths + 1) * (Tenths + 1)
    OBVIOUS
  <2>2. (Tenths + 2) * (Tenths + 1) = (Tenths + 1) * (Tenths + 1) + Tenths + 1
    OBVIOUS
  <2>3. QED
    BY <2>1, <2>2 DEF Spent, BoundedPing
<1>2. QED
  BY <1>1, Inductive, PTL

\* Every step of the retry loop and of its thread is a step of the contract
\* or none at all (PingKeepsContract): the tracker may reason with
\* PingContract alone.
THEOREM ContractKept == Spec => PingKeepsContract
<1>. USE TenthsAssumption DEF Contract!DbStates, DbStates, Contract!vars
<1>1. Init => Contract!Init
  BY DEF Init, Contract!Init, verdictBar, Refused
<1>2. IInv /\ [Next]_vars => [Contract!Next]_Contract!vars
  <2>. SUFFICES ASSUME IInv, [Next]_vars PROVE [Contract!Next]_Contract!vars
    OBVIOUS
  <2>. USE DEF IInv, TypeOK, Phase, Evidence, caller, verdictBar, Refused
  <2>1. CASE DbChange
    BY <2>1 DEF DbChange, Contract!Next, Contract!DbChange
  <2>2. CASE Answer
    <3>1. Contract!Answer
      BY <2>2 DEF Answer, Alive, Contract!Answer
    <3>2. QED BY <3>1 DEF Contract!Next
  <2>3. CASE Refuse
    <3>1. Contract!Refuse
      BY <2>3 DEF Refuse, Alive, Contract!Refuse
    <3>2. QED BY <3>1 DEF Contract!Next
  <2>4. CASE ThreadEnds BY <2>4 DEF ThreadEnds, Alive
  <2>5. CASE StartAttempt BY <2>5 DEF StartAttempt
  <2>6. CASE Tick BY <2>6 DEF Tick
  <2>7. CASE JoinReturns BY <2>7 DEF JoinReturns
  <2>8. CASE SampleAlive BY <2>8 DEF SampleAlive
  <2>9. CASE ReadOutput BY <2>9 DEF ReadOutput
  <2>10. CASE AbortBoth
    <3>1. Contract!Decide
      BY <2>10 DEF AbortBoth, Contract!Decide, Contract!Allowed
    <3>2. QED BY <3>1 DEF Contract!Next
  <2>11. CASE ReturnVerdict
    <3>1. Contract!Decide
      BY <2>11 DEF ReturnVerdict, Contract!Decide, Contract!Allowed
    <3>2. QED BY <3>1 DEF Contract!Next
  <2>12. CASE ReturnOffline
    <3>1. lifetime = Tenths + 1 /\ lifetime + 1 = Tenths + 2
      BY <2>12 DEF ReturnOffline, GiveUp
    <3>2. Contract!Decide
      BY <2>12, <3>1 DEF ReturnOffline, Contract!Decide, Contract!Allowed
    <3>3. QED BY <3>2 DEF Contract!Next
  <2>13. CASE Retry BY <2>13 DEF Retry, GiveUp
  <2>14. CASE ReadRaises
    <3>1. Contract!Decide
      BY <2>14 DEF ReadRaises, Contract!Decide, Contract!Allowed
    <3>2. QED BY <3>1 DEF Contract!Next
  <2>15. CASE UNCHANGED vars BY <2>15 DEF vars
  <2>16. QED
    BY <2>1, <2>2, <2>3, <2>4, <2>5, <2>6, <2>7, <2>8, <2>9, <2>10, <2>11,
       <2>12, <2>13, <2>14, <2>15 DEF Next, Caller
<1>3. QED
  BY <1>1, <1>2, Inductive, PTL DEF Spec, PingKeepsContract, Contract!Spec
=============================================================================
