----------------------------- MODULE CfsNfcWorker -----------------------------
(***************************************************************************)
(* The NFC worker thread (src/worker/cfs_nfc_worker.c), the tags it works  *)
(* on and the GUI thread that starts and stops it.                         *)
(*                                                                         *)
(* Every synchronous call of the NFC library is a step of its own: the     *)
(* library activates the tag afresh for each one, so between two of them   *)
(* the tag may be taken away, put back or replaced, and a write may take   *)
(* effect although its acknowledgement is lost.  One step of the worker is *)
(* one such call and the code up to the next one.                          *)
(***************************************************************************)
EXTENDS Naturals, Sequences

CONSTANTS
    Tags,           \* the MIFARE Classic 1K tags, named by their UIDs
    OtherTags,      \* tags of another type
    NoTag,          \* nothing in the field; as a UID, has_uid is false
    Records,        \* the filament records that exist
    Zero,           \* a data block of sixteen 0x00 bytes, as stored
    Junk,           \* what a Zero block decrypts to
    FF,             \* the factory key FF FF FF FF FF FF
    Foreign,        \* a key A somebody else has set
    MaxAttempts,    \* CFS_MAX_ATTEMPTS
    MaxPolls,       \* CFS_WAIT_FOR_TAG_MS / CFS_POLL_INTERVAL_MS
    SwapDuringRun   \* may another tag be presented while a run works on one?

ASSUME TagAssumption == NoTag \notin Tags \cup OtherTags /\ Tags \cap OtherTags = {}

ASSUME BlockAssumption == Zero \notin Records /\ Junk \notin Records

ASSUME BudgetAssumption == MaxAttempts \in Nat /\ MaxPolls \in Nat

ASSUME SwapAssumption == SwapDuringRun \in BOOLEAN

VARIABLES
    \* The GUI thread's side.
    call,           \* the worker call it is in: "none", "copied", "stop" or a run mode
    sent,           \* history: the events this run handed to the callback
    \* struct CfsNfcWorker.
    mode, stop, write_plain, read_plain,
    uid,            \* uid and has_uid
    \* The thread and its locals.
    pc, polls, attempt, cand, blk,
    buffer,         \* raw or verify_raw
    payload,        \* the 48 bytes cfs_write_verify_blocks is given
    result,
    \* The tags.
    field,          \* the tag in front of the antenna
    data, keyA, keyB,
    claim           \* history: what the last Success said of a tag nobody wrote since

guiVars    == <<call, sent>>
structVars == <<mode, stop, write_plain, read_plain, uid>>
loopVars   == <<polls, attempt, cand, blk, buffer, payload>>
tagVars    == <<data, keyA, keyB, claim>>
vars       == <<guiVars, structVars, pc, loopVars, result, field, tagVars>>

RunModes == {"read", "write", "erase"}

DataBlocks == 4..6

Buffers == [DataBlocks -> Records \cup {Zero}]

Plains == [DataBlocks -> Records \cup {Junk}]

\* Both trailer keys are derived from the UID, and in the same way.
Derived(t) == <<"derived", t>>

Keys == {FF, Foreign} \cup {Derived(t) : t \in Tags \cup OtherTags}

\* AES works block by block, so a block decrypts on its own.
Decrypt(raw) == [b \in DataBlocks |-> IF raw[b] = Zero THEN Junk ELSE raw[b]]

Encrypt(plain) == [b \in DataBlocks |-> IF plain[b] = Junk THEN Zero ELSE plain[b]]

\* The plaintext of one record.
Encode(r) == [b \in DataBlocks |-> r]

Blank == [b \in DataBlocks |-> Zero]

\* Colour, length and serial lie in bytes 17..33: of block 4, which holds the
\* date, the vendor, the batch and most of the material id, nothing is checked.
Decodes(plain) == plain[5] # Junk /\ plain[6] # Junk

------------------------------------------------------------------------------
(* The keys of a run. *)

ReadCandidates == <<[key |-> Derived(uid), type |-> "A"], [key |-> FF, type |-> "A"],
                    [key |-> Derived(uid), type |-> "B"], [key |-> FF, type |-> "B"]>>

\* auth_a, then the factory key.
WriteKey == IF cand = 1 THEN Derived(uid) ELSE FF

\* trailer_a, trailer_b and verify_key.
TargetKey == IF mode = "erase" THEN FF ELSE Derived(uid)

\* A tag answers to key k as key A, or as key B.
Opens(t, k, type) == t \in Tags /\ k = IF type = "A" THEN keyA[t] ELSE keyB[t]

------------------------------------------------------------------------------
NoClaim == [made |-> FALSE]

Claims == {NoClaim} \cup [made : {TRUE}, data : Buffers, key : Keys]

Init ==
    /\ call = "none" /\ sent = <<>>
    /\ mode = "idle" /\ stop = FALSE /\ uid = NoTag
    /\ write_plain = Encode(Junk) /\ read_plain = Encode(Junk)
    /\ pc = "stopped" /\ polls = 0 /\ attempt = 0 /\ cand = 1 /\ blk = 4
    /\ buffer = Blank /\ payload = Blank /\ result = "none"
    /\ field = NoTag
    /\ data \in [Tags -> {Blank} \cup {Encode(r) : r \in Records}]
    /\ keyA \in [Tags -> Keys] /\ \A t \in Tags : keyA[t] \in {FF, Derived(t), Foreign}
    /\ keyB \in [Tags -> Keys] /\ \A t \in Tags : keyB[t] \in {FF, Derived(t), Foreign}
    /\ claim = [t \in Tags |-> NoClaim]

------------------------------------------------------------------------------
(* The GUI thread.  The scenes start a run only when the last one has been *)
(* stopped or has handed over its event; they stop one at any time.        *)

RunIsOver == pc \in {"exit", "stopped"}

CallStart(m) ==
    /\ call = "none" /\ RunIsOver
    /\ m # "write"
    /\ call' = m
    /\ stop' = TRUE
    /\ UNCHANGED <<sent, mode, write_plain, read_plain, uid, pc, loopVars, result, field, tagVars>>

\* start_write and start_write_raw fill write_plain before they stop anything.
CopyPlain(plain) ==
    /\ call = "none" /\ RunIsOver
    /\ write_plain' = plain
    /\ call' = "copied"
    /\ UNCHANGED <<sent, mode, stop, read_plain, uid, pc, loopVars, result, field, tagVars>>

CallStartWrite(r) == CopyPlain(Encode(r))

\* A clone writes the plaintext that was read, block for block.
CallStartWriteRaw == Decodes(read_plain) /\ CopyPlain(read_plain)

StopBeforeWrite ==
    /\ call = "copied"
    /\ call' = "write"
    /\ stop' = TRUE
    /\ UNCHANGED <<sent, mode, write_plain, read_plain, uid, pc, loopVars, result, field, tagVars>>

CallStop ==
    /\ call = "none"
    /\ call' = "stop"
    /\ stop' = TRUE
    /\ UNCHANGED <<sent, mode, write_plain, read_plain, uid, pc, loopVars, result, field, tagVars>>

\* Mutant: the thread is not joined.
JoinedMutant == TRUE

\* The join returns: the thread is gone, and a start starts it again.
Joined == pc = "stopped"

ReturnStopped ==
    /\ call = "stop" /\ Joined
    /\ mode' = "idle"
    /\ call' = "none"
    /\ UNCHANGED <<sent, stop, write_plain, read_plain, uid, pc, loopVars, result, field, tagVars>>

ReturnStarted ==
    /\ call \in RunModes /\ Joined
    /\ mode' = call
    /\ stop' = FALSE
    /\ pc' = "wait"
    /\ call' = "none"
    /\ UNCHANGED <<sent, write_plain, read_plain, uid, loopVars, result, field, tagVars>>

------------------------------------------------------------------------------
(* The user's hand. *)

\* From the call that captures the UID to the last call on the tag.
Operating == pc \in {"detect", "loop", "read", "write", "trailer", "verify"}

Present(t) ==
    /\ field = NoTag
    /\ SwapDuringRun \/ ~Operating \/ t = uid
    /\ field' = t
    /\ UNCHANGED <<guiVars, structVars, pc, loopVars, result, tagVars>>

Remove ==
    /\ field # NoTag
    /\ field' = NoTag
    /\ UNCHANGED <<guiVars, structVars, pc, loopVars, result, tagVars>>

------------------------------------------------------------------------------
(* The thread. *)

WaitIsOver == stop \/ polls >= MaxPolls

EndWith(e) == pc' = "emit" /\ result' = e

\* cfs_wait_for_1k: the loop ends on stop or when the time is up ...
WaitOver ==
    /\ pc = "wait"
    /\ WaitIsOver
    /\ EndWith("NotPresent")
    /\ UNCHANGED <<guiVars, structVars, loopVars, field, tagVars>>

\* ... and otherwise polls: no tag answers, or one does and its UID is kept.
PollFails ==
    /\ pc = "wait"
    /\ ~WaitIsOver
    /\ polls' = polls + 1
    /\ UNCHANGED <<guiVars, structVars, pc, attempt, cand, blk, buffer, payload, result, field, tagVars>>

\* Mutant: a UID once captured is kept.
CapturedUidMutant == IF uid = NoTag THEN field ELSE uid

\* mf_capture_uid.
CapturedUid == field

PollSees ==
    /\ pc = "wait"
    /\ ~WaitIsOver
    /\ field # NoTag
    /\ uid' = CapturedUid
    /\ pc' = "detect"
    /\ UNCHANGED <<guiVars, mode, stop, write_plain, read_plain, loopVars, result, field, tagVars>>

\* mf_classic_poller_sync_detect_type: the tag is gone again ...
DetectFails ==
    /\ pc = "detect"
    /\ polls' = polls + 1
    /\ pc' = "wait"
    /\ UNCHANGED <<guiVars, structVars, attempt, cand, blk, buffer, payload, result, field, tagVars>>

\* ... or of another type, which a protocol error of a 1K tag looks like ...
DetectOther ==
    /\ pc = "detect"
    /\ field # NoTag
    /\ EndWith("WrongType")
    /\ UNCHANGED <<guiVars, structVars, loopVars, field, tagVars>>

\* ... or a 1K tag, and the blocks to write are prepared.
Detect1k ==
    /\ pc = "detect"
    /\ field \in Tags
    /\ payload' = IF mode = "write" THEN Encrypt(write_plain) ELSE Blank
    /\ attempt' = 0
    /\ pc' = "loop"
    /\ UNCHANGED <<guiVars, structVars, polls, cand, blk, buffer, result, field, tagVars>>

\* Mutant: one attempt too many.
MoreAttemptsMutant == ~stop /\ attempt <= MaxAttempts

\* The condition of the attempt loops.
MoreAttempts == ~stop /\ attempt < MaxAttempts

\* Mutant: the attempts are not counted.
NextAttemptMutant == attempt

NextAttempt == attempt + 1

GiveUp ==
    /\ pc = "loop"
    /\ ~MoreAttempts
    /\ EndWith(IF mode = "read" THEN "AuthFailed" ELSE "WriteFailed")
    /\ UNCHANGED <<guiVars, structVars, loopVars, field, tagVars>>

BeginAttempt ==
    /\ pc = "loop"
    /\ MoreAttempts
    /\ attempt' = NextAttempt
    /\ cand' = 1
    /\ blk' = 4
    /\ pc' = IF mode = "read" THEN "read" ELSE "write"
    /\ UNCHANGED <<guiVars, structVars, polls, buffer, payload, result, field, tagVars>>

\* A block is read into the buffer.
Fetch == buffer' = [buffer EXCEPT ![blk] = data[field][blk]]

\* A candidate that fails hands over to the next; the last one ends the attempt.
NextCandidate(n) ==
    /\ IF cand < n THEN cand' = cand + 1 /\ blk' = 4 /\ pc' = pc
                   ELSE UNCHANGED <<cand, blk>> /\ pc' = "loop"
    /\ UNCHANGED <<guiVars, structVars, polls, attempt, buffer, payload, result, field>>

ReadFails ==
    /\ pc = "read"
    /\ NextCandidate(4)
    /\ UNCHANGED tagVars

ReadBlock ==
    /\ pc = "read" /\ blk < 6
    /\ Opens(field, ReadCandidates[cand].key, ReadCandidates[cand].type)
    /\ Fetch
    /\ blk' = blk + 1
    /\ UNCHANGED <<guiVars, structVars, pc, polls, attempt, cand, payload, result, field, tagVars>>

\* Mutant: only the first block is looked at.
IsBlankMutant(raw) == raw[4] = Zero

\* cfs_data_is_blank.
IsBlank(raw) == raw = Blank

\* The third block completes the read: blank, decoded, or refused.
ReadLast ==
    /\ pc = "read" /\ blk = 6
    /\ Opens(field, ReadCandidates[cand].key, ReadCandidates[cand].type)
    /\ Fetch
    /\ IF IsBlank(buffer')
         THEN EndWith("BlankTag") /\ UNCHANGED read_plain
         ELSE /\ read_plain' = Decrypt(buffer')
              /\ EndWith(IF Decodes(read_plain') THEN "Success" ELSE "ReadFailed")
    /\ UNCHANGED <<guiVars, mode, stop, write_plain, uid, polls, attempt, cand, blk, payload, field, tagVars>>

\* The tag stores block blk of the payload.
Store ==
    /\ Opens(field, WriteKey, "A")
    /\ data' = [data EXCEPT ![field][blk] = payload[blk]]
    /\ claim' = [claim EXCEPT ![field] = NoClaim]
    /\ UNCHANGED <<keyA, keyB>>

\* The write fails: it was refused, or done without the reader learning of it.
WriteFails ==
    /\ pc = "write"
    /\ Store \/ UNCHANGED tagVars
    /\ NextCandidate(2)

\* The tag acknowledges, and what it was sent stuck or did not.
WriteBlock ==
    /\ pc = "write"
    /\ Opens(field, WriteKey, "A")
    /\ Store \/ UNCHANGED tagVars
    /\ IF blk < 6 THEN blk' = blk + 1 /\ pc' = pc
                  ELSE blk' = blk /\ pc' = "trailer"
    /\ UNCHANGED <<guiVars, structVars, polls, attempt, cand, buffer, payload, result, field>>

\* The trailer is written with the key that wrote the blocks.
SetKeys ==
    /\ Opens(field, WriteKey, "A")
    /\ keyA' = [keyA EXCEPT ![field] = TargetKey]
    /\ keyB' = [keyB EXCEPT ![field] = TargetKey]
    /\ claim' = [claim EXCEPT ![field] = NoClaim]
    /\ UNCHANGED data

TrailerFails ==
    /\ pc = "trailer"
    /\ SetKeys \/ UNCHANGED tagVars
    /\ pc' = "loop"
    /\ UNCHANGED <<guiVars, structVars, loopVars, result, field>>

WriteTrailer ==
    /\ pc = "trailer"
    /\ Opens(field, WriteKey, "A")
    /\ SetKeys \/ UNCHANGED tagVars
    /\ blk' = 4
    /\ pc' = "verify"
    /\ UNCHANGED <<guiVars, structVars, polls, attempt, cand, buffer, payload, result, field>>

VerifyFails ==
    /\ pc = "verify"
    /\ EndWith("VerifyFailed")
    /\ UNCHANGED <<guiVars, structVars, loopVars, field, tagVars>>

VerifyBlock ==
    /\ pc = "verify" /\ blk < 6
    /\ Opens(field, TargetKey, "A")
    /\ Fetch
    /\ blk' = blk + 1
    /\ UNCHANGED <<guiVars, structVars, pc, polls, attempt, cand, payload, result, field, tagVars>>

\* Mutant: a block that was read counts as verified.
ReadBackMatchesMutant == TRUE

\* The blocks just read are the blocks that were to be written.
ReadBackMatches == buffer' = payload

VerifyLast ==
    /\ pc = "verify" /\ blk = 6
    /\ Opens(field, TargetKey, "A")
    /\ Fetch
    /\ IF ReadBackMatches
         THEN /\ EndWith("Success")
              /\ claim' = [claim EXCEPT ![uid] =
                             [made |-> TRUE, data |-> payload, key |-> TargetKey]]
         ELSE EndWith("VerifyFailed") /\ UNCHANGED claim
    /\ UNCHANGED <<guiVars, structVars, polls, attempt, cand, blk, payload, field, data, keyA, keyB>>

\* Mutant: the event of a stopped run is not dropped.
DroppedMutant == FALSE

\* cfs_emit looks at stop ...
Dropped == stop

EmitChecks ==
    /\ pc = "emit"
    /\ pc' = IF Dropped THEN "exit" ELSE "send"
    /\ UNCHANGED <<guiVars, structVars, loopVars, result, field, tagVars>>

\* ... and then runs the callback.
EmitSends ==
    /\ pc = "send"
    /\ sent' = Append(sent, result)
    /\ pc' = "exit"
    /\ UNCHANGED <<call, structVars, loopVars, result, field, tagVars>>

\* The locals go with the thread.
ThreadExits ==
    /\ pc = "exit"
    /\ pc' = "stopped"
    /\ polls' = 0 /\ attempt' = 0 /\ cand' = 1 /\ blk' = 4
    /\ buffer' = Blank /\ payload' = Blank
    /\ result' = "none" /\ sent' = <<>>
    /\ UNCHANGED <<call, structVars, field, tagVars>>

------------------------------------------------------------------------------
GuiCall ==
    \/ \E m \in RunModes : CallStart(m)
    \/ \E r \in Records : CallStartWrite(r)
    \/ CallStartWriteRaw
    \/ CallStop

GuiGoesOn == StopBeforeWrite \/ ReturnStopped \/ ReturnStarted

User == Remove \/ \E t \in Tags \cup OtherTags : Present(t)

Thread ==
    \/ WaitOver \/ PollFails \/ PollSees
    \/ DetectFails \/ DetectOther \/ Detect1k
    \/ GiveUp \/ BeginAttempt
    \/ ReadFails \/ ReadBlock \/ ReadLast
    \/ WriteFails \/ WriteBlock \/ TrailerFails \/ WriteTrailer
    \/ VerifyFails \/ VerifyBlock \/ VerifyLast
    \/ EmitChecks \/ EmitSends \/ ThreadExits

Next == GuiCall \/ GuiGoesOn \/ User \/ Thread

Spec == Init /\ [][Next]_vars

\* The scheduler runs both threads; nobody has to present a tag.
FairSpec == Spec /\ WF_vars(Thread) /\ WF_vars(GuiGoesOn)

------------------------------------------------------------------------------
(* Properties. *)

\* The shape of every variable, with the bounds the loops keep.
TypeOK ==
    /\ call \in {"none", "copied", "stop"} \cup RunModes
    /\ mode \in {"idle"} \cup RunModes
    /\ stop \in BOOLEAN
    /\ write_plain \in Plains /\ read_plain \in Plains
    /\ uid \in Tags \cup OtherTags \cup {NoTag}
    /\ field \in Tags \cup OtherTags \cup {NoTag}
    /\ pc \in {"stopped", "wait", "emit", "send", "exit"} \/ Operating
    /\ polls \in Nat /\ attempt \in 0..MaxAttempts
    /\ cand \in 1..4 /\ blk \in DataBlocks
    /\ buffer \in Buffers /\ payload \in Buffers
    /\ data \in [Tags -> Buffers]
    /\ keyA \in [Tags -> Keys] /\ keyB \in [Tags -> Keys]
    /\ claim \in [Tags -> Claims]

\* Whatever fails, is cancelled or is taken away in the middle of a write or an
\* erase, key A of every tag stays one that this app finds again from the UID
\* alone (cfs_write_verify_blocks): no tag is ever locked to another tag's key.
NeverLockedOut == \A t \in Tags : keyA[t] \in {FF, Derived(t), Foreign}

\* A tag of which a run said Success carries all three blocks and key A of that
\* run until another write or erase touches it, however many attempts, half
\* written blocks and lost acknowledgements came before (the verify step).
SuccessIsStored ==
    \A t \in Tags : claim[t].made =>
        data[t] = claim[t].data /\ keyA[t] = claim[t].key

\* What a read reports is what the tag holds, although the three blocks are
\* read one by one, with four keys, over several attempts (cfs_do_read).
ReadTellsTruth ==
    pc \in {"emit", "send"} /\ mode = "read" =>
        /\ result = "BlankTag" => data[uid] = Blank
        /\ result \in {"Success", "ReadFailed"} =>
              /\ read_plain = Decrypt(data[uid])
              /\ result = "Success" <=> Decodes(read_plain)

\* Once cfs_nfc_worker_stop has returned, nothing of the run it stopped reaches
\* a tag or the callback any more (the join in cfs_nfc_worker_stop).
StopIsABarrier ==
    [][mode = "idle" /\ mode' = "idle" => UNCHANGED <<sent, data, keyA, keyB, read_plain>>]_vars

\* A run that nobody stops tells the GUI how it ended (cfs_emit on every path).
EveryRunReports == (pc = "wait" /\ ~stop) ~> (sent # <<>> \/ stop)

\* A read that reports Success has no block of garbage in it (cfs_data_decode).
SuccessHasNoGarbage ==
    pc = "emit" /\ mode = "read" /\ result = "Success" =>
        \A b \in DataBlocks : read_plain[b] # Junk

------------------------------------------------------------------------------
(* The contract this thread keeps. *)

ThreadState ==
    CASE pc = "stopped" -> "stopped"
      [] pc = "send" -> "sending"
      [] pc = "exit" -> "exiting"
      [] OTHER -> "running"

Contract == INSTANCE CfsWorkerSpec WITH
    thread <- ThreadState,
    call <- IF call = "copied" THEN "none" ELSE call,
    result <- IF pc = "emit" THEN "none" ELSE result

\* The worker does nothing that CfsWorkerSpec does not allow: one event per run
\* and of the run's kind, none decided after a stop, no run beside another.
KeepsContract == Contract!WorkerSpec

\* And it goes on as CfsWorkerSpec promises: every run and every call ends.
ContractIsLive == Contract!WorkerFairness
==============================================================================
