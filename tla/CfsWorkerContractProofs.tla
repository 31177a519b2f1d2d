----------------------- MODULE CfsWorkerContractProofs ------------------------
(***************************************************************************)
(* CfsNfcWorker implements CfsWorkerSpec, the contract on which CfsApp     *)
(* builds: every step of the thread, of the GUI thread and of the user's   *)
(* hand is a step of the contract or none.                                 *)
(***************************************************************************)
EXTENDS CfsNfcWorkerProofs

USE DEF RunModes

\* A run is in the part of the code its mode leads to, and has a result of its
\* kind exactly from the code's EndWith to the exit of the thread.
ContractInv ==
    /\ pc # "stopped" => mode \in RunModes
    /\ pc = "read" => mode = "read"
    /\ pc \in {"write", "trailer", "verify"} => mode \in {"write", "erase"}
    /\ pc \in {"emit", "send"} => result \in Contract!EventsOf(mode)
    /\ pc \notin {"emit", "send", "exit"} => result = "none"

\* Where the contract sees a running thread.
Running == {"wait", "detect", "loop", "read", "write", "trailer", "verify", "emit"}

LEMMA EventKinds ==
    /\ Contract!EventsOf("read") = {"Success", "BlankTag", "NotPresent", "WrongType",
                                    "AuthFailed", "ReadFailed"}
    /\ \A m \in {"write", "erase"} :
          Contract!EventsOf(m) = {"Success", "NotPresent", "WrongType",
                                  "WriteFailed", "VerifyFailed"}
    /\ \A m : Contract!EventsOf(m) \subseteq Contract!WorkerEvents
BY DEF Contract!EventsOf, Contract!WorkerEvents

LEMMA ContractInit == Init => ContractInv /\ Contract!WorkerInit
BY DEF Init, ContractInv, Contract!WorkerInit, ThreadState

------------------------------------------------------------------------------
(* The invariant. *)

\* A step of a run that leaves its mode: it goes on, or ends with an event of
\* the run's kind.
LEMMA RunGoesOn ==
    ASSUME ContractInv, pc # "stopped", UNCHANGED mode,
           pc' = "read" => mode = "read",
           pc' \in {"write", "trailer", "verify"} => mode \in {"write", "erase"},
           pc' \in Running,
           \/ pc' # "emit" /\ result' = result /\ pc \in Running \ {"emit"}
           \/ pc' = "emit" /\ result' \in Contract!EventsOf(mode)
    PROVE  ContractInv'
BY DEF ContractInv, Running

LEMMA ContractStep == ContractInv /\ [Next]_vars => ContractInv'
<1> SUFFICES ASSUME ContractInv, [Next]_vars PROVE ContractInv'
  OBVIOUS
<1> USE DEF guiVars, structVars, loopVars
<1>1. CASE UNCHANGED <<mode, pc, result>>
  BY <1>1 DEF ContractInv
<1>2. CASE ReturnStopped
  BY <1>2 DEF ReturnStopped, Joined, ContractInv
<1>3. CASE ReturnStarted
  BY <1>3 DEF ReturnStarted, Joined, ContractInv
<1>4. CASE WaitOver
  BY <1>4, EventKinds, RunGoesOn DEF WaitOver, EndWith, ContractInv, Running
<1>5. CASE PollFails \/ PollSees
  BY <1>5 DEF PollFails, PollSees, ContractInv
<1>6. CASE DetectFails \/ Detect1k
  BY <1>6 DEF DetectFails, Detect1k, ContractInv
<1>7. CASE DetectOther
  BY <1>7, EventKinds, RunGoesOn DEF DetectOther, EndWith, ContractInv, Running
<1>8. CASE GiveUp
  BY <1>8, EventKinds, RunGoesOn DEF GiveUp, EndWith, ContractInv, Running
<1>9. CASE BeginAttempt
  BY <1>9, RunGoesOn DEF BeginAttempt, ContractInv, Running
<1>10. CASE ReadFails \/ WriteFails
  BY <1>10 DEF ReadFails, WriteFails, NextCandidate, ContractInv
<1>11. CASE ReadBlock \/ WriteBlock \/ TrailerFails \/ WriteTrailer \/ VerifyBlock
  BY <1>11 DEF ReadBlock, WriteBlock, TrailerFails, WriteTrailer, VerifyBlock, ContractInv
<1>12. CASE ReadLast
  BY <1>12, EventKinds, RunGoesOn DEF ReadLast, EndWith, ContractInv, Running
<1>13. CASE VerifyFails
  BY <1>13, EventKinds, RunGoesOn DEF VerifyFails, EndWith, ContractInv, Running
<1>14. CASE VerifyLast
  BY <1>14, EventKinds, RunGoesOn DEF VerifyLast, EndWith, ContractInv, Running
<1>15. CASE EmitChecks \/ EmitSends
  BY <1>15 DEF EmitChecks, EmitSends, ContractInv
<1>16. CASE ThreadExits
  BY <1>16 DEF ThreadExits, ContractInv
<1>17. ASSUME \/ \E m \in RunModes : CallStart(m)
              \/ \E r \in Records : CallStartWrite(r)
              \/ CallStartWriteRaw \/ CallStop \/ StopBeforeWrite
              \/ Remove \/ \E t \in Tags \cup OtherTags : Present(t)
              \/ UNCHANGED vars
       PROVE  UNCHANGED <<mode, pc, result>>
  BY <1>17 DEF CallStart, CallStartWrite, CallStartWriteRaw, CopyPlain, CallStop,
               StopBeforeWrite, Remove, Present, vars
<1> QED
  BY <1>1, <1>2, <1>3, <1>4, <1>5, <1>6, <1>7, <1>8, <1>9, <1>10, <1>11, <1>12,
     <1>13, <1>14, <1>15, <1>16, <1>17, NextCases

LEMMA ContractInvariance == Spec => []ContractInv
BY ContractInit, ContractStep, PTL DEF Spec

------------------------------------------------------------------------------
(* The steps. *)

\* What the contract does not see: a run that goes on, or decides its event
\* without having looked at stop.
LEMMA Unseen ==
    ASSUME ContractInv, pc \in Running \ {"emit"}, pc' \in Running,
           UNCHANGED <<mode, stop, call, sent>>,
           pc' = "emit" \/ result' = result
    PROVE  UNCHANGED Contract!workerVars
BY DEF ContractInv, Running, ThreadState, Contract!workerVars

LEMMA StepRefined ==
    ContractInv /\ [Next]_vars => [Contract!WorkerNext]_(Contract!workerVars)
<1> SUFFICES ASSUME ContractInv, [Next]_vars
             PROVE  [Contract!WorkerNext]_(Contract!workerVars)
  OBVIOUS
<1> USE DEF guiVars, structVars, loopVars
<1>1. ASSUME NEW m \in RunModes, CallStart(m) PROVE Contract!WorkerNext
  <2>1. Contract!CallStart(m)
    BY <1>1 DEF CallStart, Contract!CallStart, ThreadState
  <2> QED
    BY <2>1 DEF Contract!WorkerNext, Contract!RunModes, Contract!Modes
<1>2. CASE (\E r \in Records : CallStartWrite(r)) \/ CallStartWriteRaw
  BY <1>2 DEF CallStartWrite, CallStartWriteRaw, CopyPlain, Contract!workerVars, ThreadState
<1>3. CASE StopBeforeWrite
  <2>1. Contract!CallStart("write")
    BY <1>3 DEF StopBeforeWrite, Contract!CallStart, ThreadState
  <2> QED
    BY <2>1 DEF Contract!WorkerNext, Contract!RunModes, Contract!Modes
<1>4. CASE CallStop
  <2>1. Contract!CallStop
    BY <1>4 DEF CallStop, Contract!CallStop, ThreadState
  <2> QED
    BY <2>1 DEF Contract!WorkerNext
<1>5. CASE ReturnStopped
  <2>1. Contract!ReturnStopped
    BY <1>5 DEF ReturnStopped, Joined, Contract!ReturnStopped, ThreadState
  <2> QED
    BY <2>1 DEF Contract!WorkerNext, Contract!Return
<1>6. CASE ReturnStarted
  <2>1. Contract!ReturnStarted
    BY <1>6 DEF ReturnStarted, Joined, Contract!ReturnStarted, ThreadState,
                Contract!RunModes, Contract!Modes
  <2> QED
    BY <2>1 DEF Contract!WorkerNext, Contract!Return
<1>7. CASE Remove \/ (\E t \in Tags \cup OtherTags : Present(t)) \/ UNCHANGED vars
  BY <1>7 DEF Remove, Present, vars, Contract!workerVars, ThreadState
<1>8. CASE WaitOver \/ PollFails \/ PollSees
  BY <1>8, Unseen DEF WaitOver, PollFails, PollSees, EndWith, Running
<1>9. CASE DetectFails \/ DetectOther \/ Detect1k
  BY <1>9, Unseen DEF DetectFails, DetectOther, Detect1k, EndWith, Running
<1>10. CASE GiveUp \/ BeginAttempt
  BY <1>10, Unseen DEF GiveUp, BeginAttempt, EndWith, Running
<1>11. CASE ReadFails \/ ReadBlock \/ ReadLast
  BY <1>11, Unseen DEF ReadFails, NextCandidate, ReadBlock, ReadLast, EndWith, Running
<1>12. CASE WriteFails \/ WriteBlock
  BY <1>12, Unseen DEF WriteFails, NextCandidate, WriteBlock, Running
<1>13. CASE TrailerFails \/ WriteTrailer
  BY <1>13, Unseen DEF TrailerFails, WriteTrailer, Running
<1>14. CASE VerifyFails \/ VerifyBlock \/ VerifyLast
  BY <1>14, Unseen DEF VerifyFails, VerifyBlock, VerifyLast, EndWith, Running
<1>15. CASE EmitChecks
  <2>1. result \in Contract!EventsOf(mode)
    BY <1>15 DEF EmitChecks, ContractInv
  <2>2. Contract!Decide(result)
    BY <1>15, <2>1 DEF EmitChecks, Dropped, Contract!Decide, ThreadState
  <2>3. result \in Contract!WorkerEvents
    BY <2>1, EventKinds
  <2> QED
    BY <2>2, <2>3 DEF Contract!WorkerNext, Contract!RunStep
<1>16. CASE EmitSends
  <2>1. Contract!Send
    BY <1>16 DEF EmitSends, Contract!Send, ThreadState
  <2> QED
    BY <2>1 DEF Contract!WorkerNext, Contract!RunStep
<1>17. CASE ThreadExits
  <2>1. Contract!Exit
    BY <1>17 DEF ThreadExits, Contract!Exit, ThreadState
  <2> QED
    BY <2>1 DEF Contract!WorkerNext, Contract!RunStep
<1> QED
  BY <1>1, <1>2, <1>3, <1>4, <1>5, <1>6, <1>7, <1>8, <1>9, <1>10, <1>11, <1>12,
     <1>13, <1>14, <1>15, <1>16, <1>17, NextCases

\* For every set of tags, number of attempts and order of the user's hand, the
\* worker does what CfsWorkerSpec allows and no more: what CfsApp is checked
\* and proved against is what cfs_nfc_worker.c does.
THEOREM ContractKept == Spec => KeepsContract
<1>1. Spec => Contract!WorkerInit
  BY ContractInit DEF Spec
<1>2. ContractInv /\ [Next]_vars => [Contract!WorkerNext]_(Contract!workerVars)
  BY StepRefined
<1> QED
  BY <1>1, <1>2, ContractInvariance, PTL DEF Spec, KeepsContract, Contract!WorkerSpec
==============================================================================
