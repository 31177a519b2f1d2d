-------------------------- MODULE CfsNfcWorkerProofs --------------------------
(***************************************************************************)
(* Proofs about CfsNfcWorker, for every set of tags and records and for    *)
(* every number of attempts and polls.                                     *)
(***************************************************************************)
EXTENDS CfsNfcWorker, TLAPS

USE DEF RunModes

------------------------------------------------------------------------------
(* The conversions between plain and stored blocks. *)

\* A plaintext of three blocks is stored as three blocks.
LEMMA EncryptType == ASSUME NEW p \in Plains PROVE Encrypt(p) \in Buffers
<1>1. \A b \in DataBlocks : (IF p[b] = Junk THEN Zero ELSE p[b]) \in Records \cup {Zero}
  BY DEF Plains
<1> QED
  BY <1>1 DEF Encrypt, Buffers

\* Three stored blocks decrypt to a plaintext of three blocks.
LEMMA DecryptType == ASSUME NEW r \in Buffers PROVE Decrypt(r) \in Plains
<1>1. \A b \in DataBlocks : (IF r[b] = Zero THEN Junk ELSE r[b]) \in Records \cup {Junk}
  BY DEF Buffers
<1> QED
  BY <1>1 DEF Decrypt, Plains

\* The blocks of a blank tag, and the plaintext of a record.
LEMMA BlockTypes ==
    /\ Blank \in Buffers
    /\ Encode(Junk) \in Plains
    /\ \A r \in Records : Encode(r) \in Plains /\ Encode(r) \in Buffers
BY DEF Blank, Encode, Buffers, Plains

------------------------------------------------------------------------------
(* Types. *)

\* While a tag is worked on its UID is known, so the derived key is one of Keys.
TypeInv == TypeOK /\ (Operating => uid # NoTag)

\* The key a trailer is written with is a key.
LEMMA TargetKeyType ==
    ASSUME TypeInv, Operating PROVE TargetKey \in Keys
BY DEF TypeInv, TypeOK, TargetKey, Keys

LEMMA TypeInit == Init => TypeInv
<1> SUFFICES ASSUME Init PROVE TypeInv
  OBVIOUS
<1>1. data \in [Tags -> Buffers]
  BY BlockTypes DEF Init
<1>2. claim \in [Tags -> Claims]
  BY DEF Init, Claims
<1>3. /\ polls \in Nat /\ attempt \in 0..MaxAttempts
      /\ cand \in 1..4 /\ blk \in DataBlocks
  BY BudgetAssumption DEF Init, DataBlocks
<1>4. /\ write_plain \in Plains /\ read_plain \in Plains
      /\ buffer \in Buffers /\ payload \in Buffers
  BY BlockTypes DEF Init
<1> QED
  BY <1>1, <1>2, <1>3, <1>4 DEF Init, TypeInv, TypeOK, Operating

\* A block that is fetched keeps the buffer one.
LEMMA FetchType ==
    ASSUME TypeInv, Fetch, field \in Tags PROVE buffer' \in Buffers
<1>1. data[field][blk] \in Records \cup {Zero}
  BY DEF TypeInv, TypeOK, Buffers
<1> QED
  BY <1>1 DEF TypeInv, TypeOK, Fetch, Buffers

\* A block that is stored keeps the tags what they are.
LEMMA StoreType ==
    ASSUME TypeInv, Store
    PROVE  /\ data' \in [Tags -> Buffers] /\ claim' \in [Tags -> Claims]
           /\ keyA' \in [Tags -> Keys] /\ keyB' \in [Tags -> Keys]
<1>1. field \in Tags
  BY DEF Store, Opens
<1>2. [data[field] EXCEPT ![blk] = payload[blk]] \in Buffers
  BY <1>1 DEF TypeInv, TypeOK, Buffers
<1>3. data' = [data EXCEPT ![field] = [data[field] EXCEPT ![blk] = payload[blk]]]
  BY DEF Store
<1> QED
  BY <1>1, <1>2, <1>3 DEF TypeInv, TypeOK, Store, Claims

\* So does a trailer that is written.
LEMMA SetKeysType ==
    ASSUME TypeInv, SetKeys, Operating
    PROVE  /\ data' \in [Tags -> Buffers] /\ claim' \in [Tags -> Claims]
           /\ keyA' \in [Tags -> Keys] /\ keyB' \in [Tags -> Keys]
BY TargetKeyType DEF TypeInv, TypeOK, SetKeys, Claims

\* And a step that leaves them alone.
LEMMA UntouchedType ==
    ASSUME TypeInv, UNCHANGED tagVars
    PROVE  /\ data' \in [Tags -> Buffers] /\ claim' \in [Tags -> Claims]
           /\ keyA' \in [Tags -> Keys] /\ keyB' \in [Tags -> Keys]
BY DEF TypeInv, TypeOK, tagVars

LEMMA TypeStep == TypeInv /\ [Next]_vars => TypeInv'
<1> SUFFICES ASSUME TypeInv, [Next]_vars PROVE TypeInv'
  OBVIOUS
<1> USE DEF TypeInv, TypeOK, Operating, guiVars, structVars, loopVars, tagVars
<1>1. ASSUME NEW m \in RunModes, CallStart(m) PROVE TypeInv'
  BY <1>1 DEF CallStart
<1>2. ASSUME NEW r \in Records, CallStartWrite(r) PROVE TypeInv'
  BY <1>2, BlockTypes DEF CallStartWrite, CopyPlain
<1>3. CASE CallStartWriteRaw
  BY <1>3 DEF CallStartWriteRaw, CopyPlain
<1>4. CASE CallStop
  BY <1>4 DEF CallStop
<1>5. CASE StopBeforeWrite
  BY <1>5 DEF StopBeforeWrite
<1>6. CASE ReturnStopped
  BY <1>6 DEF ReturnStopped
<1>7. CASE ReturnStarted
  BY <1>7 DEF ReturnStarted
<1>8. CASE Remove
  BY <1>8 DEF Remove
<1>9. ASSUME NEW t \in Tags \cup OtherTags, Present(t) PROVE TypeInv'
  BY <1>9 DEF Present
<1>10. CASE WaitOver
  BY <1>10 DEF WaitOver, EndWith
<1>11. CASE PollFails
  BY <1>11 DEF PollFails
<1>12. CASE PollSees
  BY <1>12 DEF PollSees, CapturedUid
<1>13. CASE DetectFails
  BY <1>13 DEF DetectFails
<1>14. CASE DetectOther
  BY <1>14 DEF DetectOther, EndWith
<1>15. CASE Detect1k
  <2>1. payload' \in Buffers
    BY <1>15, EncryptType, BlockTypes DEF Detect1k
  <2> QED
    BY <1>15, <2>1, BudgetAssumption DEF Detect1k
<1>16. CASE GiveUp
  BY <1>16 DEF GiveUp, EndWith
<1>17. CASE BeginAttempt
  BY <1>17, BudgetAssumption DEF BeginAttempt, MoreAttempts, NextAttempt, DataBlocks
<1>18. CASE ReadFails
  BY <1>18 DEF ReadFails, NextCandidate, DataBlocks
<1>19. CASE ReadBlock
  <2>1. buffer' \in Buffers
    BY <1>19, FetchType DEF ReadBlock, Opens
  <2> QED
    BY <1>19, <2>1 DEF ReadBlock, DataBlocks
<1>20. CASE ReadLast
  <2>1. buffer' \in Buffers
    BY <1>20, FetchType DEF ReadLast, Opens
  <2>2. read_plain' \in Plains
    BY <1>20, <2>1, DecryptType DEF ReadLast
  <2> QED
    BY <1>20, <2>1, <2>2 DEF ReadLast, EndWith
<1>21. CASE WriteFails
  <2>1. UNCHANGED tagVars \/ Store
    BY <1>21 DEF WriteFails
  <2>2. /\ data' \in [Tags -> Buffers] /\ claim' \in [Tags -> Claims]
        /\ keyA' \in [Tags -> Keys] /\ keyB' \in [Tags -> Keys]
    BY <2>1, StoreType, UntouchedType
  <2> QED
    BY <1>21, <2>2 DEF WriteFails, NextCandidate, DataBlocks
<1>22. CASE WriteBlock
  <2>1. UNCHANGED tagVars \/ Store
    BY <1>22 DEF WriteBlock
  <2>2. /\ data' \in [Tags -> Buffers] /\ claim' \in [Tags -> Claims]
        /\ keyA' \in [Tags -> Keys] /\ keyB' \in [Tags -> Keys]
    BY <2>1, StoreType, UntouchedType
  <2> QED
    BY <1>22, <2>2 DEF WriteBlock, DataBlocks
<1>23. CASE TrailerFails
  <2>1. UNCHANGED tagVars \/ SetKeys
    BY <1>23 DEF TrailerFails
  <2>2. /\ data' \in [Tags -> Buffers] /\ claim' \in [Tags -> Claims]
        /\ keyA' \in [Tags -> Keys] /\ keyB' \in [Tags -> Keys]
    BY <1>23, <2>1, SetKeysType, UntouchedType DEF TrailerFails
  <2> QED
    BY <1>23, <2>2 DEF TrailerFails
<1>24. CASE WriteTrailer
  <2>1. UNCHANGED tagVars \/ SetKeys
    BY <1>24 DEF WriteTrailer
  <2>2. /\ data' \in [Tags -> Buffers] /\ claim' \in [Tags -> Claims]
        /\ keyA' \in [Tags -> Keys] /\ keyB' \in [Tags -> Keys]
    BY <1>24, <2>1, SetKeysType, UntouchedType DEF WriteTrailer
  <2> QED
    BY <1>24, <2>2 DEF WriteTrailer, DataBlocks
<1>25. CASE VerifyFails
  BY <1>25 DEF VerifyFails, EndWith
<1>26. CASE VerifyBlock
  <2>1. buffer' \in Buffers
    BY <1>26, FetchType DEF VerifyBlock, Opens
  <2> QED
    BY <1>26, <2>1 DEF VerifyBlock, DataBlocks
<1>27. CASE VerifyLast
  <2>1. buffer' \in Buffers
    BY <1>27, FetchType DEF VerifyLast, Opens
  <2> DEFINE new == [made |-> TRUE, data |-> payload, key |-> TargetKey]
  <2>2. new \in Claims
    BY <1>27, TargetKeyType DEF VerifyLast, Claims
  <2>3. claim' = [claim EXCEPT ![uid] = new] \/ claim' = claim
    BY <1>27 DEF VerifyLast
  <2>4. claim' \in [Tags -> Claims]
    <3> HIDE DEF new
    <3> QED
      BY <2>2, <2>3
  <2> QED
    BY <1>27, <2>1, <2>4 DEF VerifyLast, EndWith
<1>28. CASE EmitChecks
  BY <1>28 DEF EmitChecks
<1>29. CASE EmitSends
  BY <1>29 DEF EmitSends
<1>30. CASE ThreadExits
  BY <1>30, BlockTypes, BudgetAssumption DEF ThreadExits, DataBlocks
<1>31. CASE UNCHANGED vars
  BY <1>31 DEF vars
<1> QED
  BY <1>1, <1>2, <1>3, <1>4, <1>5, <1>6, <1>7, <1>8, <1>9, <1>10, <1>11, <1>12,
     <1>13, <1>14, <1>15, <1>16, <1>17, <1>18, <1>19, <1>20, <1>21, <1>22, <1>23,
     <1>24, <1>25, <1>26, <1>27, <1>28, <1>29, <1>30, <1>31
  DEF Next, GuiCall, GuiGoesOn, User, Thread

LEMMA TypeInvariance == Spec => []TypeInv
BY TypeInit, TypeStep, PTL DEF Spec

\* Every variable keeps its type and the loops keep their bounds, whatever the
\* tags, the records, MaxAttempts and MaxPolls are.
THEOREM TypeCorrect == Spec => []TypeOK
<1>1. TypeInv => TypeOK
  BY DEF TypeInv
<1> QED
  BY <1>1, TypeInvariance, PTL

------------------------------------------------------------------------------
(* What the steps do, grouped by the part of the state they touch. *)

\* A step that is none of the named ones is one of these.
LEMMA NextCases ==
    ASSUME [Next]_vars
    PROVE  \/ \E m \in RunModes : CallStart(m)
           \/ \E r \in Records : CallStartWrite(r)
           \/ CallStartWriteRaw \/ CallStop
           \/ StopBeforeWrite \/ ReturnStopped \/ ReturnStarted
           \/ Remove \/ \E t \in Tags \cup OtherTags : Present(t)
           \/ WaitOver \/ PollFails \/ PollSees
           \/ DetectFails \/ DetectOther \/ Detect1k
           \/ GiveUp \/ BeginAttempt
           \/ ReadFails \/ ReadBlock \/ ReadLast
           \/ WriteFails \/ WriteBlock \/ TrailerFails \/ WriteTrailer
           \/ VerifyFails \/ VerifyBlock \/ VerifyLast
           \/ EmitChecks \/ EmitSends \/ ThreadExits
           \/ UNCHANGED vars
BY DEF Next, GuiCall, GuiGoesOn, User, Thread

\* The last read back: the tag of the run gets a claim, or none changes.
VerifyEnds ==
    /\ pc = "verify" /\ blk = 6
    /\ Opens(field, TargetKey, "A")
    /\ UNCHANGED <<data, keyA, keyB>>
    /\ buffer' = [buffer EXCEPT ![6] = data[field][6]]
    /\ \/ /\ buffer' = payload
          /\ claim' = [claim EXCEPT ![uid] =
                         [made |-> TRUE, data |-> payload, key |-> TargetKey]]
       \/ UNCHANGED claim

\* The tags change by a block that is stored, by a trailer that is written, or,
\* as to what is claimed of them, by a verification.
LEMMA TagSteps ==
    ASSUME [Next]_vars
    PROVE  \/ UNCHANGED tagVars
           \/ pc = "write" /\ Store
           \/ pc = "trailer" /\ SetKeys
           \/ VerifyEnds
<1> USE DEF tagVars
<1>1. CASE (\E m \in RunModes : CallStart(m)) \/ CallStop
  BY <1>1 DEF CallStart, CallStop
<1>2. CASE (\E r \in Records : CallStartWrite(r)) \/ CallStartWriteRaw
  BY <1>2 DEF CallStartWrite, CallStartWriteRaw, CopyPlain
<1>3. CASE StopBeforeWrite \/ ReturnStopped \/ ReturnStarted
  BY <1>3 DEF StopBeforeWrite, ReturnStopped, ReturnStarted
<1>4. CASE Remove \/ \E t \in Tags \cup OtherTags : Present(t)
  BY <1>4 DEF Remove, Present
<1>5. CASE WaitOver \/ PollFails \/ PollSees
  BY <1>5 DEF WaitOver, PollFails, PollSees
<1>6. CASE DetectFails \/ DetectOther \/ Detect1k
  BY <1>6 DEF DetectFails, DetectOther, Detect1k
<1>7. CASE GiveUp \/ BeginAttempt
  BY <1>7 DEF GiveUp, BeginAttempt
<1>8. CASE ReadFails \/ ReadBlock \/ ReadLast
  BY <1>8 DEF ReadFails, ReadBlock, ReadLast
<1>9. CASE WriteFails \/ WriteBlock
  BY <1>9 DEF WriteFails, WriteBlock
<1>10. CASE TrailerFails \/ WriteTrailer
  BY <1>10 DEF TrailerFails, WriteTrailer
<1>11. CASE VerifyFails \/ VerifyBlock
  BY <1>11 DEF VerifyFails, VerifyBlock
<1>12. CASE VerifyLast
  BY <1>12 DEF VerifyLast, VerifyEnds, ReadBackMatches, Fetch
<1>13. CASE EmitChecks \/ EmitSends \/ ThreadExits
  BY <1>13 DEF EmitChecks, EmitSends, ThreadExits
<1>14. CASE UNCHANGED vars
  BY <1>14 DEF vars
<1> QED
  BY <1>1, <1>2, <1>3, <1>4, <1>5, <1>6, <1>7, <1>8, <1>9, <1>10, <1>11, <1>12,
     <1>13, <1>14, NextCases

\* The tag in the field and the tag of the run change by the user's hand and by
\* the poll that captures a UID; a run works on a tag from that poll on.
LEMMA FieldSteps ==
    ASSUME [Next]_vars
    PROVE  \/ UNCHANGED <<field, uid>> /\ (Operating' => Operating)
           \/ UNCHANGED <<uid, pc>> /\ field' = NoTag
           \/ UNCHANGED <<uid, pc>> /\ (SwapDuringRun \/ ~Operating \/ field' = uid)
           \/ UNCHANGED field /\ uid' = field
<1> USE DEF tagVars, structVars, guiVars, loopVars, Operating
<1>1. CASE (\E m \in RunModes : CallStart(m)) \/ CallStop
  BY <1>1 DEF CallStart, CallStop
<1>2. CASE (\E r \in Records : CallStartWrite(r)) \/ CallStartWriteRaw
  BY <1>2 DEF CallStartWrite, CallStartWriteRaw, CopyPlain
<1>3. CASE StopBeforeWrite \/ ReturnStopped \/ ReturnStarted
  BY <1>3 DEF StopBeforeWrite, ReturnStopped, ReturnStarted
<1>4. CASE Remove
  BY <1>4 DEF Remove
<1>5. ASSUME NEW t \in Tags \cup OtherTags, Present(t)
      PROVE  UNCHANGED <<uid, pc>> /\ (SwapDuringRun \/ ~Operating \/ field' = uid)
  BY <1>5 DEF Present
<1>6. CASE WaitOver \/ PollFails
  BY <1>6 DEF WaitOver, PollFails, EndWith
<1>7. CASE PollSees
  BY <1>7 DEF PollSees, CapturedUid
<1>8. CASE DetectFails \/ DetectOther \/ Detect1k
  BY <1>8 DEF DetectFails, DetectOther, Detect1k, EndWith
<1>9. CASE GiveUp \/ BeginAttempt
  BY <1>9 DEF GiveUp, BeginAttempt, EndWith
<1>10. CASE ReadFails \/ ReadBlock \/ ReadLast
  BY <1>10 DEF ReadFails, ReadBlock, ReadLast, NextCandidate, EndWith
<1>11. CASE WriteFails \/ WriteBlock
  BY <1>11 DEF WriteFails, WriteBlock, NextCandidate
<1>12. CASE TrailerFails \/ WriteTrailer
  BY <1>12 DEF TrailerFails, WriteTrailer
<1>13. CASE VerifyFails \/ VerifyBlock \/ VerifyLast
  BY <1>13 DEF VerifyFails, VerifyBlock, VerifyLast, EndWith
<1>14. CASE EmitChecks \/ EmitSends \/ ThreadExits
  BY <1>14 DEF EmitChecks, EmitSends, ThreadExits
<1>15. CASE UNCHANGED vars
  BY <1>15 DEF vars
<1> QED
  BY <1>1, <1>2, <1>3, <1>4, <1>5, <1>6, <1>7, <1>8, <1>9, <1>10, <1>11, <1>12,
     <1>13, <1>14, <1>15, NextCases

------------------------------------------------------------------------------
(* No tag is locked out. *)

\* While a run works on a tag, that tag or none is in the field.
FieldInv == Operating => field \in {NoTag, uid}

KeyInv == TypeInv /\ FieldInv /\ NeverLockedOut

LEMMA FieldStep ==
    ASSUME SwapDuringRun = FALSE, FieldInv, [Next]_vars PROVE FieldInv'
BY FieldSteps DEF FieldInv, Operating

\* The trailer that is written is the one of the tag in the field, or FF.
LEMMA KeyStep ==
    ASSUME TypeInv, FieldInv, NeverLockedOut, [Next]_vars PROVE NeverLockedOut'
<1>1. CASE UNCHANGED keyA
  BY <1>1 DEF NeverLockedOut, Derived
<1>2. CASE pc = "trailer" /\ SetKeys
  <2>1. field \in Tags /\ field = uid
    BY <1>2, TagAssumption DEF SetKeys, Opens, FieldInv, Operating
  <2>2. TargetKey \in {FF, Derived(field)}
    BY <2>1 DEF TargetKey
  <2>3. keyA' = [keyA EXCEPT ![field] = TargetKey]
    BY <1>2 DEF SetKeys
  <2>4. ASSUME NEW t \in Tags PROVE keyA'[t] \in {FF, Derived(t), Foreign}
    BY <2>1, <2>2, <2>3 DEF NeverLockedOut, TypeInv, TypeOK
  <2> QED
    BY <2>4 DEF NeverLockedOut, Derived
<1> QED
  BY <1>1, <1>2, TagSteps DEF tagVars, Store, VerifyEnds

\* As long as no other tag takes the place of the one a run works on, key A of
\* every tag stays a key that is found from the tag's UID alone, wherever writes
\* and erases fail or are cancelled.
THEOREM NoLockOut ==
    ASSUME SwapDuringRun = FALSE
    PROVE  Spec => []NeverLockedOut
<1>1. Init => KeyInv
  BY TypeInit DEF Init, KeyInv, FieldInv, Operating, NeverLockedOut
<1>2. KeyInv /\ [Next]_vars => KeyInv'
  BY TypeStep, FieldStep, KeyStep DEF KeyInv
<1>3. KeyInv => NeverLockedOut
  BY DEF KeyInv
<1> QED
  BY <1>1, <1>2, <1>3, PTL DEF Spec

------------------------------------------------------------------------------
(* A success is stored. *)

\* The blocks read back so far are blocks of the tag of the run.
VerifyInv == pc = "verify" => \A b \in DataBlocks : b < blk => buffer[b] = data[uid][b]

ClaimInv == TypeInv /\ FieldInv /\ VerifyInv /\ SuccessIsStored

\* A step that leads to a verification begins it, reads one block back, or is
\* another thread's.
LEMMA VerifySteps ==
    ASSUME [Next]_vars, pc' = "verify"
    PROVE  \/ blk' = 4
           \/ VerifyBlock
           \/ pc = "verify" /\ UNCHANGED <<blk, buffer, data, uid>>
<1> USE DEF tagVars, structVars, guiVars, loopVars
<1>1. CASE (\E m \in RunModes : CallStart(m)) \/ CallStop
  BY <1>1 DEF CallStart, CallStop
<1>2. CASE (\E r \in Records : CallStartWrite(r)) \/ CallStartWriteRaw
  BY <1>2 DEF CallStartWrite, CallStartWriteRaw, CopyPlain
<1>3. CASE StopBeforeWrite \/ ReturnStopped \/ ReturnStarted
  BY <1>3 DEF StopBeforeWrite, ReturnStopped, ReturnStarted
<1>4. CASE Remove \/ \E t \in Tags \cup OtherTags : Present(t)
  BY <1>4 DEF Remove, Present
<1>5. CASE WaitOver \/ PollFails \/ PollSees
  BY <1>5 DEF WaitOver, PollFails, PollSees, EndWith
<1>6. CASE DetectFails \/ DetectOther \/ Detect1k
  BY <1>6 DEF DetectFails, DetectOther, Detect1k, EndWith
<1>7. CASE GiveUp \/ BeginAttempt
  BY <1>7 DEF GiveUp, BeginAttempt, EndWith
<1>8. CASE ReadFails \/ ReadBlock \/ ReadLast
  BY <1>8 DEF ReadFails, ReadBlock, ReadLast, NextCandidate, EndWith
<1>9. CASE WriteFails \/ WriteBlock
  BY <1>9 DEF WriteFails, WriteBlock, NextCandidate
<1>10. CASE TrailerFails \/ WriteTrailer
  BY <1>10 DEF TrailerFails, WriteTrailer
<1>11. CASE VerifyFails \/ VerifyBlock \/ VerifyLast
  BY <1>11 DEF VerifyFails, VerifyLast, EndWith
<1>12. CASE EmitChecks \/ EmitSends \/ ThreadExits
  BY <1>12 DEF EmitChecks, EmitSends, ThreadExits
<1>13. CASE UNCHANGED vars
  BY <1>13 DEF vars
<1> QED
  BY <1>1, <1>2, <1>3, <1>4, <1>5, <1>6, <1>7, <1>8, <1>9, <1>10, <1>11, <1>12,
     <1>13, NextCases

\* A tag that opens is the tag of the run.
LEMMA OpenedIsOwn ==
    ASSUME FieldInv, Operating, NEW k, NEW type, Opens(field, k, type)
    PROVE  field \in Tags /\ uid = field
BY TagAssumption DEF FieldInv, Opens

LEMMA VerifyStep ==
    ASSUME TypeInv, FieldInv, VerifyInv, [Next]_vars PROVE VerifyInv'
<1> SUFFICES ASSUME pc' = "verify", NEW b \in DataBlocks, b < blk'
             PROVE  buffer'[b] = data'[uid'][b]
  BY DEF VerifyInv
<1>1. CASE blk' = 4
  BY <1>1 DEF DataBlocks
<1>2. CASE VerifyBlock
  <2>1. pc = "verify" /\ field \in Tags /\ uid = field
    BY <1>2, OpenedIsOwn DEF VerifyBlock, Operating
  <2>2. /\ buffer' = [buffer EXCEPT ![blk] = data[uid][blk]] /\ blk' = blk + 1
        /\ data' = data /\ uid' = uid
    BY <1>2, <2>1 DEF VerifyBlock, Fetch, tagVars, structVars
  <2>3. CASE b = blk
    BY <2>2, <2>3 DEF TypeInv, TypeOK, Buffers
  <2>4. CASE b < blk
    BY <2>1, <2>2, <2>4 DEF VerifyInv, TypeInv, TypeOK, Buffers
  <2> QED
    BY <2>2, <2>3, <2>4 DEF TypeInv, TypeOK, DataBlocks
<1>3. CASE pc = "verify" /\ UNCHANGED <<blk, buffer, data, uid>>
  BY <1>3 DEF VerifyInv
<1> QED
  BY <1>1, <1>2, <1>3, VerifySteps

\* The last block read back completes the proof that the tag holds the payload.
LEMMA VerifiedIsStored ==
    ASSUME TypeInv, FieldInv, VerifyInv, VerifyEnds
    PROVE  uid \in Tags /\ data[uid] = buffer' /\ keyA[uid] = TargetKey
<1>1. field \in Tags /\ uid = field
  BY OpenedIsOwn DEF VerifyEnds, Operating
<1>2. data[uid] \in Buffers /\ buffer \in Buffers
  BY <1>1 DEF TypeInv, TypeOK
<1>3. buffer' = [buffer EXCEPT ![6] = data[uid][6]]
  BY <1>1 DEF VerifyEnds
<1>4. \A b \in DataBlocks : buffer'[b] = data[uid][b]
  <2> TAKE b \in DataBlocks
  <2>1. CASE b = 6
    BY <1>2, <1>3, <2>1 DEF Buffers
  <2>2. CASE b < 6
    BY <1>2, <1>3, <2>2 DEF Buffers, VerifyInv, VerifyEnds
  <2> QED
    BY <2>1, <2>2 DEF DataBlocks
<1>5. data[uid] = buffer'
  BY <1>2, <1>3, <1>4 DEF Buffers
<1> QED
  BY <1>1, <1>5 DEF VerifyEnds, Opens

LEMMA ClaimStep ==
    ASSUME TypeInv, FieldInv, VerifyInv, SuccessIsStored, [Next]_vars
    PROVE  SuccessIsStored'
<1> SUFFICES ASSUME NEW t \in Tags, claim'[t].made
             PROVE  data'[t] = claim'[t].data /\ keyA'[t] = claim'[t].key
  BY DEF SuccessIsStored
<1>1. CASE UNCHANGED tagVars
  BY <1>1 DEF SuccessIsStored, tagVars
<1>2. CASE Store \/ SetKeys
  <2>1. t # field
    BY <1>2 DEF Store, SetKeys, TypeInv, TypeOK, NoClaim
  <2>2. claim'[t] = claim[t] /\ data'[t] = data[t] /\ keyA'[t] = keyA[t]
    BY <1>2, <2>1 DEF Store, SetKeys, TypeInv, TypeOK
  <2> QED
    BY <2>2 DEF SuccessIsStored
<1>3. CASE VerifyEnds
  <2>1. UNCHANGED <<data, keyA>>
    BY <1>3 DEF VerifyEnds
  <2>2. CASE claim'[t] = claim[t]
    BY <2>1, <2>2 DEF SuccessIsStored
  <2>3. CASE claim'[t] # claim[t]
    <3>1. /\ t = uid /\ buffer' = payload
          /\ claim'[t] = [made |-> TRUE, data |-> payload, key |-> TargetKey]
      BY <1>3, <2>3 DEF VerifyEnds, TypeInv, TypeOK
    <3> QED
      BY <1>3, <2>1, <3>1, VerifiedIsStored
  <2> QED
    BY <2>2, <2>3
<1> QED
  BY <1>1, <1>2, <1>3, TagSteps

\* As long as no other tag takes the place of the one a run works on, Success of
\* a write or an erase means that the tag carries the three blocks and key A of
\* that run, and goes on to until the next write or erase reaches it.
THEOREM StoredSuccess ==
    ASSUME SwapDuringRun = FALSE
    PROVE  Spec => []SuccessIsStored
<1>1. Init => ClaimInv
  BY TypeInit
  DEF Init, ClaimInv, FieldInv, Operating, VerifyInv, SuccessIsStored, NoClaim
<1>2. ClaimInv /\ [Next]_vars => ClaimInv'
  BY TypeStep, FieldStep, VerifyStep, ClaimStep DEF ClaimInv
<1>3. ClaimInv => SuccessIsStored
  BY DEF ClaimInv
<1> QED
  BY <1>1, <1>2, <1>3, PTL DEF Spec

------------------------------------------------------------------------------
(* Stop is a barrier. *)

\* Only ReturnStopped makes the worker idle, and the join has returned by then.
IdleInv == mode = "idle" => pc = "stopped"

\* The GUI and the user change nothing a run leaves behind; the thread does, but
\* it keeps its mode and has to be alive for that, and it never starts itself.
LEMMA IdleSteps ==
    ASSUME [Next]_vars
    PROVE  \/ UNCHANGED <<mode, pc, sent, data, keyA, keyB, read_plain>>
           \/ pc = "stopped" /\ mode' = "idle"
                /\ UNCHANGED <<pc, sent, data, keyA, keyB, read_plain>>
           \/ mode' # "idle"
           \/ pc # "stopped" /\ UNCHANGED mode
<1> USE DEF tagVars, structVars, guiVars, loopVars
<1>1. CASE (\E m \in RunModes : CallStart(m)) \/ CallStop
  BY <1>1 DEF CallStart, CallStop
<1>2. CASE (\E r \in Records : CallStartWrite(r)) \/ CallStartWriteRaw
  BY <1>2 DEF CallStartWrite, CallStartWriteRaw, CopyPlain
<1>3. CASE StopBeforeWrite \/ ReturnStopped \/ ReturnStarted
  BY <1>3 DEF StopBeforeWrite, ReturnStopped, ReturnStarted, Joined
<1>4. CASE Remove \/ \E t \in Tags \cup OtherTags : Present(t)
  BY <1>4 DEF Remove, Present
<1>5. CASE WaitOver \/ PollFails \/ PollSees
  BY <1>5 DEF WaitOver, PollFails, PollSees
<1>6. CASE DetectFails \/ DetectOther \/ Detect1k
  BY <1>6 DEF DetectFails, DetectOther, Detect1k
<1>7. CASE GiveUp \/ BeginAttempt
  BY <1>7 DEF GiveUp, BeginAttempt
<1>8. CASE ReadFails \/ ReadBlock \/ ReadLast
  BY <1>8 DEF ReadFails, ReadBlock, ReadLast, NextCandidate
<1>9. CASE WriteFails \/ WriteBlock
  BY <1>9 DEF WriteFails, WriteBlock, NextCandidate
<1>10. CASE TrailerFails \/ WriteTrailer
  BY <1>10 DEF TrailerFails, WriteTrailer
<1>11. CASE VerifyFails \/ VerifyBlock \/ VerifyLast
  BY <1>11 DEF VerifyFails, VerifyBlock, VerifyLast
<1>12. CASE EmitChecks \/ EmitSends \/ ThreadExits
  BY <1>12 DEF EmitChecks, EmitSends, ThreadExits
<1>13. CASE UNCHANGED vars
  BY <1>13 DEF vars
<1> QED
  BY <1>1, <1>2, <1>3, <1>4, <1>5, <1>6, <1>7, <1>8, <1>9, <1>10, <1>11, <1>12,
     <1>13, NextCases

\* After cfs_nfc_worker_stop has returned, nothing reaches a tag, the callback or
\* the result getters until the next start.
THEOREM StopBarrier == Spec => StopIsABarrier
<1>1. Init => IdleInv
  BY DEF Init, IdleInv
<1>2. IdleInv /\ [Next]_vars => IdleInv'
  BY IdleSteps DEF IdleInv
<1>3. IdleInv /\ [Next]_vars =>
        [mode = "idle" /\ mode' = "idle" => UNCHANGED <<sent, data, keyA, keyB, read_plain>>]_vars
  BY IdleSteps DEF IdleInv
<1> QED
  BY <1>1, <1>2, <1>3, PTL DEF Spec, StopIsABarrier

------------------------------------------------------------------------------
(* A read tells the truth. *)

\* The blocks read so far are blocks of the tag of the run.
FetchedInv ==
    pc = "read" => mode = "read" /\ \A b \in DataBlocks : b < blk => buffer[b] = data[uid][b]

\* Only a write or an erase gets as far as writing and verifying.
WriterInv == pc \in {"write", "trailer", "verify"} => mode # "read"

ReadInv == TypeInv /\ FieldInv /\ WriterInv /\ FetchedInv /\ ReadTellsTruth

LEMMA WriterStep == ASSUME WriterInv, [Next]_vars PROVE WriterInv'
<1> USE DEF WriterInv, structVars, guiVars, loopVars
<1>1. CASE (\E m \in RunModes : CallStart(m)) \/ CallStop
  BY <1>1 DEF CallStart, CallStop
<1>2. CASE (\E r \in Records : CallStartWrite(r)) \/ CallStartWriteRaw
  BY <1>2 DEF CallStartWrite, CallStartWriteRaw, CopyPlain
<1>3. CASE StopBeforeWrite \/ ReturnStopped \/ ReturnStarted
  BY <1>3 DEF StopBeforeWrite, ReturnStopped, ReturnStarted, Joined
<1>4. CASE Remove \/ \E t \in Tags \cup OtherTags : Present(t)
  BY <1>4 DEF Remove, Present
<1>5. CASE WaitOver \/ PollFails \/ PollSees
  BY <1>5 DEF WaitOver, PollFails, PollSees, EndWith
<1>6. CASE DetectFails \/ DetectOther \/ Detect1k
  BY <1>6 DEF DetectFails, DetectOther, Detect1k, EndWith
<1>7. CASE GiveUp \/ BeginAttempt
  BY <1>7 DEF GiveUp, BeginAttempt, EndWith
<1>8. CASE ReadFails \/ ReadBlock \/ ReadLast
  BY <1>8 DEF ReadFails, ReadBlock, ReadLast, NextCandidate, EndWith
<1>9. CASE WriteFails \/ WriteBlock
  BY <1>9 DEF WriteFails, WriteBlock, NextCandidate
<1>10. CASE TrailerFails \/ WriteTrailer
  BY <1>10 DEF TrailerFails, WriteTrailer
<1>11. CASE VerifyFails \/ VerifyBlock \/ VerifyLast
  BY <1>11 DEF VerifyFails, VerifyBlock, VerifyLast, EndWith
<1>12. CASE EmitChecks \/ EmitSends \/ ThreadExits
  BY <1>12 DEF EmitChecks, EmitSends, ThreadExits
<1>13. CASE UNCHANGED vars
  BY <1>13 DEF vars
<1> QED
  BY <1>1, <1>2, <1>3, <1>4, <1>5, <1>6, <1>7, <1>8, <1>9, <1>10, <1>11, <1>12,
     <1>13, NextCases

\* A block that is read is the block of the tag of the run.
LEMMA FetchedIsOwn ==
    ASSUME TypeInv, FieldInv, FetchedInv, pc = "read", Fetch,
           NEW k, NEW type, Opens(field, k, type)
    PROVE  /\ buffer' \in Buffers /\ uid \in Tags
           /\ \A b \in DataBlocks : b <= blk => buffer'[b] = data[uid][b]
<1>1. field \in Tags /\ uid = field
  BY OpenedIsOwn DEF Operating
<1>2. buffer' = [buffer EXCEPT ![blk] = data[uid][blk]]
  BY <1>1 DEF Fetch
<1>3. buffer' \in Buffers
  BY <1>1, FetchType
<1>4. ASSUME NEW b \in DataBlocks, b <= blk PROVE buffer'[b] = data[uid][b]
  <2>1. CASE b = blk
    BY <1>2, <2>1 DEF TypeInv, TypeOK, Buffers
  <2>2. CASE b < blk
    BY <1>2, <2>2 DEF TypeInv, TypeOK, Buffers, FetchedInv
  <2> QED
    BY <1>4, <2>1, <2>2 DEF TypeInv, TypeOK, DataBlocks
<1> QED
  BY <1>1, <1>3, <1>4

\* The third block makes the buffer the three blocks of that tag.
LEMMA FetchedAll ==
    ASSUME TypeInv, FieldInv, FetchedInv, pc = "read", blk = 6, Fetch,
           NEW k, NEW type, Opens(field, k, type)
    PROVE  buffer' = data[uid]
<1>1. /\ buffer' \in Buffers /\ uid \in Tags
      /\ \A b \in DataBlocks : buffer'[b] = data[uid][b]
  BY FetchedIsOwn DEF DataBlocks
<1>2. data[uid] \in Buffers
  BY <1>1 DEF TypeInv, TypeOK
<1> QED
  BY <1>1, <1>2 DEF Buffers

LEMMA ReadStep ==
    ASSUME ReadInv, [Next]_vars PROVE FetchedInv' /\ ReadTellsTruth'
<1> USE DEF structVars, guiVars, loopVars, tagVars
<1>1. CASE (\E m \in RunModes : CallStart(m)) \/ CallStop
  BY <1>1 DEF CallStart, CallStop, ReadInv, FetchedInv, ReadTellsTruth
<1>2. CASE (\E r \in Records : CallStartWrite(r)) \/ CallStartWriteRaw
  BY <1>2 DEF CallStartWrite, CallStartWriteRaw, CopyPlain, ReadInv, FetchedInv, ReadTellsTruth
<1>3. CASE StopBeforeWrite \/ ReturnStopped \/ ReturnStarted
  BY <1>3 DEF StopBeforeWrite, ReturnStopped, ReturnStarted, Joined,
              ReadInv, FetchedInv, ReadTellsTruth
<1>4. CASE Remove \/ \E t \in Tags \cup OtherTags : Present(t)
  BY <1>4 DEF Remove, Present, ReadInv, FetchedInv, ReadTellsTruth
<1>5. CASE WaitOver \/ PollFails \/ PollSees
  BY <1>5 DEF WaitOver, PollFails, PollSees, EndWith, FetchedInv, ReadTellsTruth
<1>6. CASE DetectFails \/ DetectOther \/ Detect1k
  BY <1>6 DEF DetectFails, DetectOther, Detect1k, EndWith, FetchedInv, ReadTellsTruth
<1>7. CASE GiveUp
  BY <1>7 DEF GiveUp, EndWith, FetchedInv, ReadTellsTruth
<1>8. CASE BeginAttempt
  BY <1>8 DEF BeginAttempt, FetchedInv, ReadTellsTruth, DataBlocks
<1>9. CASE ReadFails
  BY <1>9 DEF ReadFails, NextCandidate, ReadInv, FetchedInv, ReadTellsTruth, DataBlocks
<1>10. CASE ReadBlock
  <2>1. /\ blk' = blk + 1 /\ UNCHANGED <<pc, mode, uid, data>>
        /\ \A b \in DataBlocks : b <= blk => buffer'[b] = data[uid][b]
    BY <1>10, FetchedIsOwn DEF ReadBlock, ReadInv
  <2> QED
    BY <1>10, <2>1 DEF ReadBlock, ReadInv, FetchedInv, ReadTellsTruth, TypeInv, TypeOK, DataBlocks
<1>11. CASE ReadLast
  <2>1. buffer' = data[uid]
    BY <1>11, FetchedAll DEF ReadLast, ReadInv
  <2>2. pc' = "emit" /\ UNCHANGED <<uid, data>>
    BY <1>11 DEF ReadLast, EndWith
  <2>3. CASE IsBlank(buffer')
    BY <1>11, <2>1, <2>2, <2>3 DEF ReadLast, IsBlank, EndWith, FetchedInv, ReadTellsTruth
  <2>4. CASE ~IsBlank(buffer')
    BY <1>11, <2>1, <2>2, <2>4 DEF ReadLast, EndWith, FetchedInv, ReadTellsTruth
  <2> QED
    BY <2>3, <2>4
<1>12. CASE WriteFails \/ WriteBlock
  BY <1>12 DEF WriteFails, WriteBlock, NextCandidate, FetchedInv, ReadTellsTruth
<1>13. CASE TrailerFails \/ WriteTrailer
  BY <1>13 DEF TrailerFails, WriteTrailer, FetchedInv, ReadTellsTruth
<1>14. CASE VerifyFails \/ VerifyBlock \/ VerifyLast
  BY <1>14 DEF VerifyFails, VerifyBlock, VerifyLast, EndWith, ReadInv, WriterInv,
               FetchedInv, ReadTellsTruth
<1>15. CASE EmitChecks \/ EmitSends \/ ThreadExits
  BY <1>15 DEF EmitChecks, EmitSends, ThreadExits, ReadInv, FetchedInv, ReadTellsTruth
<1>16. CASE UNCHANGED vars
  BY <1>16 DEF vars, ReadInv, FetchedInv, ReadTellsTruth
<1> QED
  BY <1>1, <1>2, <1>3, <1>4, <1>5, <1>6, <1>7, <1>8, <1>9, <1>10, <1>11, <1>12,
     <1>13, <1>14, <1>15, <1>16, NextCases

\* As long as no other tag takes the place of the one a run works on, a read
\* reports what that tag holds, and blank only if it is blank throughout.
THEOREM TruthfulRead ==
    ASSUME SwapDuringRun = FALSE
    PROVE  Spec => []ReadTellsTruth
<1>1. Init => ReadInv
  BY TypeInit DEF Init, ReadInv, FieldInv, Operating, WriterInv, FetchedInv, ReadTellsTruth
<1>2. ReadInv /\ [Next]_vars => ReadInv'
  BY TypeStep, FieldStep, WriterStep, ReadStep DEF ReadInv
<1>3. ReadInv => ReadTellsTruth
  BY DEF ReadInv
<1> QED
  BY <1>1, <1>2, <1>3, PTL DEF Spec
==============================================================================
