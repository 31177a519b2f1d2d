# A verification of CFS Tag Writer

CFS Tag Writer is a Flipper Zero app that reads, writes, clones and erases the
pair of MIFARE Classic 1K tags of a filament spool. It is small (about 3,650
lines of C under `src/src`), but it runs two threads, it changes tags that may
be taken away in the middle of a write, and its 25 scenes share one struct and
one namespace of events. This directory holds TLA+ models of those parts, TLC
runs that check them on small instances, and proofs that TLAPS checks for every
value of the constants.

Paths below are relative to `src/src/` of the repository.

## 1. The system

### Components

| Component | State | Operations | Talks to |
| --- | --- | --- | --- |
| NFC worker (`worker/`) | thread, `mode`, `stop`, `write_plain`, `read_plain`, `tag_data`, `uid` | `start_read`, `start_write`, `start_write_raw`, `start_erase`, `stop`, `free`, getters | the GUI thread calls it; it calls the callback from its own thread and the NFC library |
| Application core (`core/`) | `CfsApp`, the scene stack, the queue of custom events | alloc, free, callbacks, staging, saving, result popup | all scenes |
| Menu, help, about (`scenes/menu`, `scenes/help`) | cursor | open a scene | core |
| Read scenes (`scenes/read`) | `tag_data`, `tag_plain`, `is_blank`, `result_read_only` | start a read, capture its result, Back, Reread | worker |
| Write scenes (`scenes/write`) | `pending`, `write_exact`, `dual_tag`, `write_tag_index` | the wizard, confirm, run one or two writes, bump the counter | worker, settings |
| Erase scenes (`scenes/erase`) | none | confirm, run | worker |
| Saved-tag scenes (`scenes/saved`) | `save_name`, `save_from_write`, `selected_path` | name, overwrite, browse, view, clone, edit, delete | storage |
| Settings scenes (`scenes/settings`) | none | change a setting, the weight table, self-test | settings store |
| Settings store (`settings/`) | one file | load, save, defaults | SD card |
| Saved files (`storage/`) | one `.nfc` dump per name | exists, save, load, delete, unique name | SD card |
| Tag data codec (`data/`) | none, tables | encode, decode, blank test, nearest weight, labels, catalog | all |
| Crypto (`crypto/`) | constants | derive a key from a UID, encrypt, decrypt | worker, storage |

Outside the repository, and modelled only from how the code uses them: the NFC
library with the tags, and the GUI framework (scene manager, view dispatcher,
popup, file browser).

### How they interact

The GUI thread runs every scene callback. A scene with a run (Read,
WriteProgress, EraseProgress) starts the worker in `on_enter` and stops it in
`on_exit`; both calls block in `furi_thread_join`. The worker thread ends a run
by `cfs_emit`, which puts the event, cast to a number, into the same queue that
menu items (0, 1, 2, ...) and buttons (100, ...) go through. The queue is read
by whichever scene is on top when its turn comes. Keys reach the view of that
scene directly and overtake what waits in the queue.

### What is hard

* **The radio.** The library activates the tag anew for each call. A write of
  three blocks, a trailer and a read-back is seven calls, each of which may fail,
  or take effect without an acknowledgement; three attempts are made, each with
  two keys, over whatever the last one left behind.
* **The stop.** `cfs_emit` tests the flag and calls the callback in two steps,
  and the GUI thread sets the flag at any moment.
* **The events.** Worker events, list indices and buttons share one namespace,
  and an event may outlive the screen it was for.
* **The shared struct.** Each way into the wizard has to set every staging
  field, one result screen serves live reads and saved records, and the name
  screen serves two callers.
* **The two-tag write.** Two runs and one pause in one visit of a scene, and one
  step of the serial counter at the end.
* **Persistence.** The settings file is truncated before it is rewritten key by
  key, a dump block by block, the counter is saved after the tag has been
  written, and no caller looks at the result of a save of the settings.
* **The bytes.** Decoding drops what no field holds and validates a third of the
  payload; encoding pads, cuts and prints.

`PROJECT.json` lists each hazard at its line together with the properties that
guard it, or the reason why none does yet.

### What makes each component correct

* worker: no tag is left under a key that cannot be found again; Success means
  stored; a read reports what is on the tag; after a stop nothing more happens;
  each run ends in one event unless it is stopped;
* core and scenes: an event reaches the scene it is for; the NFC field works
  only behind its own screen; what the confirm screen shows is what is written;
  Save and Back know where the user came from; the flows end;
* saved files: nothing is overwritten or deleted without the user's word, and a
  file that loads gives the whole of what was last put there;
* spools: the counter moves once per spool and stays ahead of every one that was
  finished in sequential mode; a serial number is the one the mode asks for; both tags are alike;
* settings: a start finds what was saved, as a whole, or the defaults;
* codec: decoding what was encoded gives the same record, bytes 17 to 33
  are tested, and the material that was picked is the one every screen shows.

## 2. The modules

    CfsWorkerSpec           what the worker promises to the GUI thread
      ^ implemented by      ^ extended by
    CfsNfcWorker            CfsApp              the detailed worker; the GUI thread
      ^                       ^
    MCNfcWorker             MCApp               instances for TLC

    CfsSettingsSpec         what the settings store promises to the scenes
      ^ implemented by      ^ composed with
    CfsSettings             CfsSpool            the file, key by key; spools and numbers
                              ^
                            MCSpool

    CfsTagData              CfsDump             the codec; the saved files
      ^ extended by           ^
    CfsCodec                MCDump              one payload on its way through the app
      ^
    MCCodec

The theorems are in modules of their own, which extend the modules they are about:

    CfsNfcWorkerProofs      safety of CfsNfcWorker
      ^
    CfsWorkerContractProofs it implements CfsWorkerSpec
    CfsAppProofs            safety of CfsApp for every user
      ^
    CfsAppPatientProofs     and for one who waits for each screen
    CfsSettingsProofs       safety of CfsSettings; it implements CfsSettingsSpec
    CfsSpoolProofs          safety of CfsSpool
    CfsDumpProofs           safety of CfsDump
    CfsCodecProofs          the operators of CfsTagData; safety of CfsCodec

The two promises, CfsWorkerSpec and CfsSettingsSpec, are where the system is cut:
above them the scenes are modelled with all their interleavings, below them the
radio and the file with all their failures.

### CfsWorkerSpec: the contract

Six variables and no radio: a call begins by setting `stop` (`CallStart`,
`CallStop`), its join returns once the thread is gone (`ReturnStopped`,
`ReturnStarted`), a run decides on one event of its kind or drops it
(`Decide`), sends it (`Send`) and ends (`Exit`).

### CfsNfcWorker: the worker thread and the tags

One action is one synchronous call of the NFC library with the code up to the
next call; `pc` names the call that is due.

| pc | Code | Actions |
| --- | --- | --- |
| `wait` | `cfs_wait_for_1k`, the first call of `cfs_poll_1k` | `WaitOver`, `PollFails`, `PollSees` |
| `detect` | `mf_classic_poller_sync_detect_type` | `DetectFails`, `DetectOther`, `Detect1k` |
| `loop` | the head of an attempt loop | `BeginAttempt`, `GiveUp` |
| `read` | `cfs_try_read_blocks` in `cfs_do_read` | `ReadBlock`, `ReadLast`, `ReadFails` |
| `write` | `cfs_try_write_blocks` | `WriteBlock`, `WriteFails` |
| `trailer` | the write of block 7 | `WriteTrailer`, `TrailerFails` |
| `verify` | the read-back | `VerifyBlock`, `VerifyLast`, `VerifyFails` |
| `emit`, `send` | the two halves of `cfs_emit` | `EmitChecks`, `EmitSends` |
| `exit` | the return of the thread function | `ThreadExits` |

The GUI thread's calls are `CallStart`, `CallStartWrite`, `CallStartWriteRaw`,
`StopBeforeWrite` (the last two show that `write_plain` is filled before
anything is stopped), `CallStop` and the returns of the join. `Present` and
`Remove` are the user's hand. `WriteFails` and `WriteBlock` both allow that the
tag stored the block and that it did not, so an acknowledgement may be lost and
an acknowledged write may fail to stick; the same holds for the trailer.

Data is kept to what the properties tell apart. A block holds a record's share,
or sixteen zeros (`Zero`), which decrypt to `Junk`. A key is the factory key,
the key derived from a UID, or a foreign one. The two derived keys are computed
by the same function of the UID, so one value stands for both. `Decodes` looks
at blocks 5 and 6 only, because `cfs_data_decode` validates bytes 17 to 33 only.

`claim` and `sent` are history variables: what the last Success said of a tag,
and the events of the run.

### CfsApp: the GUI thread

One action is one branch of an `on_event` with everything it does: the fields
it sets, and the move to the next scene with the old scene's `on_exit` and the
new one's `on_enter` (`Go`). Where an `on_exit` stops the worker the join takes
time, so the step ends at `call = "stop"` and `GuiReturns` finishes it. `Take`
is the dispatch of a custom event to the scene on top, and `HandleNothing` the
`on_event` that returns false. Event numbers are those of the code, since the
hazard is that two of them coincide. An event carries its sender as history,
which no handler reads.

A popup's callback is called by its timeout or by a key (`PopupDone`, and
`PressKey` on the pause between two tags). The settings list and the file
browser call back directly (`PressSettings`, `Browse`).

`Hasty` chooses the user. The patient one presses a key only when nothing waits
but a result of the screen he looks at, which he cannot see yet; the hasty one
presses keys at any moment, and twice. Keys of a patient user are still
concurrent with the worker: Back may meet a result on its way.

A record is a model value, "edited" stands for fields that went through the
wizard, and "none" for a payload that is not a whole record. A save may fail and
then leaves the file as it was, and a delete may fail and tells nobody.

### CfsSettingsSpec and CfsSettings: the store

CfsSettingsSpec knows the settings in RAM, what a start would find (`stored`),
and whether a save is at work. A save may take `stored` to the defaults
(`Truncate`) and on to the new settings (`Persist`); it reports success only
then (`Commit`). A save that fails or is cut off (`Abandon`, `Stop`) promises
that no third thing is found.

CfsSettings has the file itself: a function from the keys that are there to
their numbers. `OpenAlways` truncates it, `Write` adds one key, `SaveFails` and
`Crash` leave a part of the key that was due (`Torn`): nothing, all of it without
the end of the line, or its last number with some digits missing, read as the
leading ones. `Load` is the chain of checks of `cfs_settings_load`. `Store` is
the refinement: `stored` is what `Load` would give.

### CfsSpool: one spool after the other

The scenes of a write composed with the store. A payload is its serial number
and the rest that no field holds; a serial number carries its source (counter,
random, typed, the source tag, the defaults), which is what the modes are about.
One screen, `wizard`, stands for brand, material and colour, which CfsCodec
models. `PickWeight` is the switch on the mode; `Finish` bumps the counter and
calls the save, during which the GUI thread takes no event (`On` asks for
`~saving`), while power may fail at any point. `TagFailed` allows that the
number has reached the tag. `written`, `onTags`, `finished`, `lost` and `origin`
are history: `finished` has the counter's numbers on spools that were finished in
sequential mode, and `lost` becomes true when a start gives other settings than
the app last had, after a save of them that had not reported success. A start
after a save that did report success does not count as lost, so `CounterAhead`
rests on the store.

`CounterAhead` says that the counter is past every number in `finished` and not
behind any number on a tag (`onTags`). It does not say more, because the code does
not do more: any number of spools that were not finished (failed, left at the
pause, or left while the result waits) can have the number the counter gives
next, and so can a clone of a payload that was saved with it, if it is finished
in another mode than the sequential one. It ends where the counter comes round.

### CfsTagData and CfsCodec: the bytes

CfsTagData has the functions of `cfs_data.c` on sequences of bytes: `Encode`,
`Decode` and `Decodes` with their tests of characters, the paddings, the catalog
with its lookup, brands, palettes, and the loop of the nearest weight (a
recursive function over the table). CfsCodec takes a payload through the app: a
tag that another writer may have changed (`Differ`), the decoder, the staging,
each screen of the wizard with the fields it sets, and the encoder. What a list
may offer is what the code puts into it (`Listed`).

### CfsDump: the saved files

A save truncates the file (`CallSave`) and then writes 64 blocks (`WriteBlock`),
each by `FillBlock`; it may fail or be cut off after any of them. `Loads` is the
test of `cfs_storage_load`: three blocks captured, and bytes 17 to 33 valid.
`ReadTag` captures what a tag holds (`Held`), which is any three blocks each of
which is garbage or the right part of some payload (`Contents`): a tag that an
erase or a write left half done is read like any other if blocks 5 and 6 are
valid, and from there it may be saved. `Import` is the stock application, which
leaves dumps of the same tags, with the tag's own key or the factory's, and with
any of the three blocks missing. `meant` is history: what the last to write a
file, a save or the stock application, was to put into its three blocks. A UID is a sequence of bytes, since four bytes of it are kept
while the keys are derived from all.

## 3. The runs

| Run | Instance | Shows |
| --- | --- | --- |
| `worker_safety` | 1 tag and 1 of another type, 2 records, 3 attempts, 1 poll | `TypeOK`, `ReadTellsTruth`, `NeverLockedOut`, `SuccessIsStored`, `StopIsABarrier` |
| `worker_live` | 1 tag, 2 attempts, tags may be swapped during a run | `EveryRunReports`, `KeepsContract`, `ContractIsLive` |
| `worker_garbage` | 1 tag, 1 attempt | `SuccessHasNoGarbage` is violated |
| `app_patient` | 2 records, 1 name, serial mode prompt or sequential | the eight properties of the scenes |
| `app_live` | 1 record, sequential | `ProgressEnds` |
| `app_hasty` | any keys, at most 2 events waiting when a key is pressed | `NfcOnlyOnItsScreen`, `MenuIsSafe` |
| `app_stale_event` | patient user | `NoStaleWorkerEvent` is violated |
| `settings` | 1 weight, 2 lengths, 2 palettes, counter to 10 | `TypeOK`, `SavedSurvives`, `LoadedIsWhole`, `KeepsStore` |
| `codec` | the whole catalog, 3 weight tables, any one byte foreign, 2 + 1 colours, 3 serial numbers | `TypeOK`, `WrittenIsRead`, `OwnPayloadsLast`, `ShownIsPicked`, `NearestIsNearest` |
| `dump` | 2 payloads, 4 tags (1 whole, 2 half-erased, 1 half-written), 1 file, UIDs of 4 and 7 bytes | `TypeOK`, `LoadsAsMeant`, `SavedLoadsBack` |
| `spool` | 4 serial modes, numbers modulo 3, counter to 3, 2 contents of the rest | `TypeOK`, `SerialComesFromMode`, `BothTagsAlike`, `CounterAhead`, `SavedNamesTheSpool` |
| `spool_clone_serial` | keep and sequential | `SerialFollowsMode` is violated |

### The bounds, and why they are enough

* `MaxAttempts` is 3 in the code, and in `worker_safety`. `worker_live` has two,
  which is enough for a retry over a half-written tag.
* `MaxPolls` is 150 in the code. Polls leave no state but the UID, so one
  shows every path in and out of the wait.
* Two records tell an old payload from a new one. The second tag is of another
  type, so that its UID is captured and must not get into a key of the first; a
  second writable tag would add nothing but writes that do not touch the first.
  The proofs hold for any number of tags, records, attempts and polls.
* `worker_safety` starts from `PairedSpec`: both keys of a tag are set by the same
  hand, as every writer in question does. The proofs need no such restriction.
* `MaxWaiting` bounds only the keys: they are pressed while fewer than so many
  events wait. Worker events are always delivered. Two lets a stale event be
  followed by a button.
* One file name is enough for every conflict of names (the name exists or not).
  `app_hasty` has no records, since its properties are about screens and event
  numbers: what a read without records cannot reach (a result with content, and
  TagActions) is reached in `app_patient`. Records still come
  from the wizard.
* Lists longer than the worker's numbers (materials, colours) are pressed at two
  entries each; every index below 8 that a handler accepts is accepted.
* Symmetry (`RecordSymmetry`) is used only in runs without liveness.

* `settings`: the counter goes from 1 to 10 because a number of two digits is the
  shortest that can be cut. The other numbers of two digits or more are the
  lengths (33 is what is left of 330, so a cut length would be a legal one). One
  weight is the last of the table, and only the last number of a line can be cut.
* `codec` picks every entry of the catalog for a tag that is the vendor's own or
  the app's; where a byte is foreign (`Picks`, `Presets` and `Serials` ask for the
  number of such bytes) it picks one entry of either writable brand and one
  colour, because what the wizard replaces no longer depends on that byte. Each
  field is decoded on its own, so one wrong byte at a time, at any offset, shows
  every way a payload can be refused or changed. Its values are a NUL, a digit
  and a lower-case hexadecimal letter.
* A table is any five numbers of sixteen bits (`TableAssumption`), which is what
  `settings.weight_len` can hold. The table of five digits is what a settings file edited by hand may hold: the
  load takes any number. Another table has equal entries, and one has entries at
  the same distance on both sides of 330. The first tag's colour has letters
  among its digits.
* `dump`: one file is enough, since no operation looks at two; the second payload
  is what the file held before. One of the half-erased tags has a garbage block 4
  and decodes, the other a garbage block 5 as well and does not; the half-written
  one has block 4 of p2 and the rest of p1. The proofs allow any contents.
* `spool`: numbers modulo three let the counter come round within the bound.
  `MaxCounter` bounds the writes (no write begins once it is reached); three show
  a finished spool, one that is left, and the next. The constraint `NotLost` does
  not follow a device any further once a start has lost settings whose save had
  not reported success: the properties are checked on that state, too, and what the device
  does next is what one with these settings and a shorter history does. The
  proofs have no such constraint.

The deadlock check is on in every run: the app never stops for good (after
`Close` it can be launched again).

### Fairness

`CfsNfcWorker!FairSpec` assumes that the scheduler runs the worker thread and
the GUI thread inside a call: weak fairness of `Thread` and of `GuiGoesOn`. The
loops do not wait for anybody, so weak fairness of the thread is what a
preemptive scheduler gives. No tag need ever be presented, no call succeed. In
`CfsApp!FairSpec` the event loop, the join, the worker thread and the popup's
timer make progress. No key is ever assumed to be pressed. The other modules
state safety only: whether a save or a load ends is up to the firmware.

## 4. Assumptions

* **`RunIsOver`.** The scenes start a run only after the last one has handed
  over its event or has been stopped. CfsNfcWorker assumes it; CfsApp shows it
  for the patient user (`StartsAfterTheRun`). A hasty user can double the key
  of the pause, which starts the second write over itself with the same payload.
* **`SwapDuringRun = FALSE`** in the runs of `NeverLockedOut`, `SuccessIsStored`
  and `ReadTellsTruth`, and in their theorems: no other tag takes the place of
  the one a run works on, though it may be taken away and put back. The code
  has no check for it and no document promises one; with another tag under the
  antenna the trailer is written with the key of the first. Termination, the
  contract and the barrier are checked without this assumption.
* The trailer of a tag accepts key A for all that the app does, which is what
  the access bits the app writes, and the factory's, allow.
* A tag with locked blocks appears as one whose writes fail or do not stick.
* A garbage block never passes for a valid one in blocks 5 and 6. (Zeros
  decrypt to one fixed value under the app's fixed payload key.)
* The queue of the view dispatcher takes every event. If the firmware's queue
  were full while the GUI thread is in a join, both threads would wait.
* In CfsApp the files are those of the app's folder, and nobody else writes
  them; CfsDump lets the stock application write any of them.
* A file that was cut off holds a beginning of what was written: whole keys and
  perhaps a part of the next, or whole blocks. A number without its last digits
  is read as the digits that are there, one without any digit is not read.
* `nfc_device_load` may take a torn dump or refuse it, and counts a block that is
  not there as unread.
* Different UIDs give different keys. The derivation repeats the UID to sixteen
  bytes, which CfsDump keeps.
* CfsSpool tells a number of the counter from a random, typed or foreign one with
  the same digits: nothing in the code prevents such a coincidence.
* In CfsSpool Back is possible on every screen, also from the popup at the end of
  a write, which is more than a quick user can do before its timeout.

## 5. What is proved

Every safety property that a run checks is a theorem, too, for every value of
the constants that the assumptions of its module allow, and so are the two
refinements. The runs show each on a small instance, and that its premises can
be met; a mutant of the code shows that it could be violated.

`CfsNfcWorkerProofs.tla`, for every set of tags and of records, and any number
of attempts and polls:

| Theorem | Property | Assumes |
| --- | --- | --- |
| `TypeCorrect` | `TypeOK` | the named assumptions of CfsNfcWorker |
| `StopBarrier` | `StopIsABarrier` | the same |
| `NoLockOut` | `NeverLockedOut` | and no swap during a run |
| `StoredSuccess` | `SuccessIsStored` | and no swap during a run |
| `TruthfulRead` | `ReadTellsTruth` | and no swap during a run |

None of the safety properties is inductive. The proofs add, each on top of those before:

1. `TypeInv`: the types, and a UID is known from the call that captures it on;
2. `FieldInv`: while a run works on a tag, the antenna has that tag or none. This
   is where the swap assumption enters, and with it the key a trailer gets is
   the tag's own, hence `NoLockOut`;
3. `VerifyInv`: during the read-back the blocks fetched so far are the tag's, and
   nobody writes, so that the last comparison speaks of the tag as it is, and
   `SuccessIsStored` holds when `claim` is set; afterwards each step that
   stores anything takes the claim back;
4. `FetchedInv`: in a read, the blocks below `blk` are the tag's. A new key
   starts at block 4 again, which is why blocks of two tries never mix;
5. `WriterInv` and `IdleInv`: a write is at work only in a writing mode, and in
   idle mode the thread is gone, so that `StopBarrier` follows from the join.

Steps are first put into classes (`NextCases`, `TagSteps`, `FieldSteps`,
`VerifySteps`, `IdleSteps`), so each proof has a case for the actions that can
disturb its invariant and one for all others.

`CfsSettingsProofs.tla`, for every number of brands, modes and weights, every set
of lengths below 10000 and every bound of the counter:

| Theorem | Property |
| --- | --- |
| `TypeCorrect` | `TypeOK` |
| `SaveIsDurable` | `SavedSurvives` |
| `NoMixture` | `LoadedIsWhole` |
| `StoreIsKept` | `KeepsStore`: CfsSettings implements CfsSettingsSpec |

The argument is one digit: the loader asks for every key, and the last key is
the palette, whose number has one digit (`PaletteAssumption`) and so cannot be
cut and still be read. A file that loads was written to its end
(`PaletteIsWhole`, `LoadPartial`, `LoadWritten`). The invariant says what the
file holds while a save is at work: the keys before `next`, with the numbers of
the settings. A counter behind the palette would not have this property, which
is what the mutant `FieldsMutant` shows.

`CfsSpoolProofs.tla`, for every set of settings that is closed under the changes
the scenes make (`ClosedAssumption`), every number space and every bound:

| Theorem | Property |
| --- | --- |
| `TypeCorrect` | `TypeOK` |
| `CounterStaysAhead` | `CounterAhead` |
| `SerialKeepsMode` | `SerialComesFromMode` |
| `TagsAreAlike` | `BothTagsAlike` |
| `SaveKeepsTheSpool` | `SavedNamesTheSpool` |

The inductive invariant adds to the types: `StoreInv` (what the store promises);
`VisitInv` (in one visit of WriteProgress each payload written is the one the
struct still holds, which is why the second tag cannot differ, and how many were
written follows from the flags); `OriginInv` (the flags say how the staging
began, from the weight screen on the number fits the mode, and a clone's is the
source's); and `CountInv`
(no number in the staging, on the result screen or in the file is past the
counter, so none that reaches a tag can be). For the last one, `StoreInv` gives
that a start after a successful save does not take the counter back, and
`lost` excludes the start after any other (`CounterGrows`). That the flags of an earlier clone
do not reach a new spool is the step `StageNew` of `OriginInv`.

`CfsWorkerContractProofs.tla`, under the assumptions of CfsNfcWorker, with or
without a swap of tags:

| Theorem | Property |
| --- | --- |
| `ContractKept` | `KeepsContract`: CfsNfcWorker implements CfsWorkerSpec |

The mapping is `ThreadState`: the contract sees a running thread from the start
to the test in `cfs_emit`, then one that sends, one that exits, and none.
`ContractInv` adds what the steps need: `pc` is in the part of the code that the
mode leads to, and `result` is an event of that mode's kind exactly from where
the run ends to where the thread does. Each action of the worker is then a step
of the contract or none (`StepRefined`). So the worker that CfsApp reckons with, which is the
contract, allows all that the detailed one does.

`CfsAppProofs.tla`, for every set of records, names and serial modes, any bound
on the waiting events, and **any user**:

| Theorem | Property |
| --- | --- |
| `WorkOnItsScreen` | `NfcOnlyOnItsScreen` |
| `MenuTakesNoWorkerEvent` | `MenuIsSafe` |
| `SaveHasItsInvoker` | `SaveKnowsItsInvoker` |
| `NoFileIsLost` | `NoSilentClobber` |

The stack of a hasty user has no bound and may hold a scene twice, so the
invariant `BaseInv` is about every position of it: the menu is at the bottom
only (`StackInv`); a thread that lives, or is to be started, is the run of the
scene on top, which is why an `on_exit` that stops it is enough (`RunInv`); what
a run's screen sends has a number below the menu's (`QueueInv`); and the two
screens of a save are at the top, above the scene that `save_from_write` names
(`SaveInv`), in the stack and in the one a join is about to give. A way back is
to the last position of one of several scenes, so the lemmas about stacks
(`LastIndex` and those after it) say what is left below that position.

`CfsAppPatientProofs.tla`, for the same constants with `~Hasty`, the user who
presses a key only when nothing waits but a result of his screen:

| Theorem | Property |
| --- | --- |
| `SceneOnceAtMost` | `TypeOK`, with a stack that holds no scene twice |
| `EventsFindTheirScene` | `EventsReachTheirScene` |
| `StartsWhenOver` | `StartsAfterTheRun`, which CfsNfcWorker assumes as `RunIsOver` |
| `CloneIsShown` | `CloneWritesWhatIsShown` |
| `ResultIsWhole` | `ResultKnowsItsOrigin` |
| `BumpsOnce` | `OneBumpPerSpool` |

The assumption is needed: TLC finds each of the six violated for a hasty user,
who presses a button again before the first press is handled, say, or while a
result of another screen waits. `Patient` adds to `BaseInv`: each scene lies
above one it is opened from, and deeper than all below it (`OrderInv`); for each
scene on the stack the struct still has what the scene stands for, so the way
back finds it, too (`FitsInv`, by `Stands`); at most one event waits, of the
scene on top or of a run that was left, whose numbers mean nothing where Back
from a run leads (`OneEvent`); a read that reports success has left one whole
record (`WholeInv`); a join that leaves a screen leads there (`LeaveInv`); a
popup means that the run is over (`PopupInv`); and how far the spool is
(`SpoolInv`). `FitsInv` is where a staging field that a flow forgets to reset
would show: it has to be preserved by every way into every scene.

`CfsDumpProofs.tla`, for every set of payloads, names, UIDs of four or seven
bytes, and contents of tags, mixtures and garbage included:

| Theorem | Property |
| --- | --- |
| `TypeCorrect` | `TypeOK` |
| `FilesLoadAsMeant` | `LoadsAsMeant` |
| `SavedIsLoadable` | `SavedLoadsBack` |

Neither is inductive, since a load sees only the file. `SaveInv` says that while
a save is at work the file is the first `next` blocks of one dump (`Image`), and
nothing of what it held before; `GoodInv` that a saved file is the whole of it;
`FileInv` that a file with all three payload blocks has what its last writer was
to put there, however far the writer came; and `LoadedInv` that what the
application holds decodes, so that what it saves can be loaded. That a loaded
payload is one that was once encoded as a whole is not proved, and is not so: a
half-written tag gives a mixture (section 6). The key in a dump follows from the UID the save was
called with, as in `SaveInv`, not from the four bytes it stores.

`CfsCodecProofs.tla`, for every table of sixteen-bit lengths, every foreign byte
at every offset, every entry, colour and serial number:

| Theorem | Property |
| --- | --- |
| `TypeCorrect` | `TypeOK` |
| `WhatIsWrittenIsRead` | `WrittenIsRead` |
| `OwnPayloadIsStable` | `OwnPayloadsLast` |
| `PickedIsShown` | `ShownIsPicked` |
| `PreselectedIsNearest` | `NearestIsNearest` |

The lemmas are about the functions of `cfs_data.c` for every record of their
types. `RoundTrip` says what `Decode(Encode(d))` is: `d`, but for a length past
9999 and strings with a NUL; `SecondWrite` that a second encoding changes
nothing more. They rest on each field's conversion and its inverse
(`ColorByteInverse`, `LengthInverse` and so on) and on where it lies in the
payload (`EncodeFields`). `LookupEntry` needs that five digits determine an id
(`FiveDigits`) and that no id is in the catalog twice (`CatalogInjective`). The
loop of the nearest weight is a recursive function; that it exists needs no
induction, because it has five turns and its value can be written down
(`LoopValue`), and each turn keeps the first of the nearest (`TurnKeeps`). Of
the state, the invariant has only that the fields on the result screen are
those of the payload, that a payload of the application's own would be written
again as it is, and that the staged id and vendor are those of the entry picked.

### What is only model-checked

* `EveryRunReports`, `ContractIsLive` and `ProgressEnds`: liveness under fairness,
  whose definition rests on ENABLED, which the prover does not reason about. That the detailed worker also keeps the
  fairness of the contract is `ContractIsLive`; the steps are in `ContractKept`.
* What the three runs of section 6 show, since they are counterexamples.

## 6. Findings

* `worker_garbage`: an erase broken off after block 4 leaves a tag that is read
  as Success, with block 4 (date, vendor, batch, most of the filament id)
  decrypted from zeros. `data/cfs_data.h:52-53` promises that the decoder's
  answer tells garbage from valid data. A write of another record that is broken
  off after block 4 is read as Success in the same way, with the first block of
  the one record and the rest of the other. Neither is noticed later: the
  payload that was captured is saved, and dumps of such tags by the stock
  application are loaded, since `cfs_storage_load` asks the same decoder
  (`storage/cfs_storage.c:172`). CfsDump has these tags among its contents.
* `app_stale_event`: the comment in `cfs_emit` says that the test of `stop`
  prevents stale events from reaching the next scene. It does so unless the stop
  comes between the test and the callback. The scenes that follow ignore the
  event in the flows of a patient user (`EventsReachTheirScene`).
* `spool_clone_serial`: a clone keeps its serial number in every mode. The help
  page (`scenes/help/cfs_scene_help_topic.c:55-57`) and a comment
  (`scenes/write/cfs_scene_write_weight.c:22-23`) say that the settings apply to
  clones, too; `GUIDE.md:67` says that they do not. In sequential mode a clone
  still moves the counter, so a number is left out.

Read in the code, without a run of their own:

* A worker event that outlives its screen has the number 0 or 1 of Clone and
  Edit in TagActions, which does not add `CfsCustomEventMenuBase` to its ids
  (`scenes/saved/cfs_scene_tag_actions.c:22`). A comment in
  `scenes/help/cfs_scene_help.c:5-7` says that this menu need not fear worker
  events; it takes a hasty user to be wrong about it.
* A dump made without a tag has the UID 00000000, which a load takes for the UID
  of a tag (`storage/cfs_storage.c:173-177`). Saved again, it gets keys derived
  from it, where the comment in `storage/cfs_storage.c:98-100` promises the factory
  keys. A write is not affected: it derives the keys from the UID of the tag at
  hand.
* Save on the confirm screen of a clone stores the fields encoded anew
  (`core/cfs_app_i.h:168`), not the payload that Write writes, although
  `README.md:29` calls a clone a copy byte for byte. The fields are the same, which
  is `SavedNamesTheSpool`.

Small disagreements of a comment with the code that need no run: the batch of
the defaults is "A2", not "01" (`data/cfs_data.h:48`); a saved record has its
payload as it was stored, and is not encoded anew for the raw view
(`scenes/read/cfs_scene_read_raw.c:26-28`, `core/cfs_app_i.h:92`).

## 7. Not modelled

* Texts: labels, the default name of a save, the UID in hexadecimal, the raw
  view, the help pages, temperatures. No state depends on them; the name of a
  save is one the user may edit, and CfsApp lets it be any.
* AES, and the self-test, which compares constants.
* Access bits and the delays. A UID of seven bytes is modelled in dumps, where
  four bytes of it are kept although the keys come from all seven; the worker's
  tags are told apart by a UID of unspecified length.
* A limit of the event queue: it is the firmware's, and a worker that finds the
  queue full while the GUI thread joins it would wait for ever.
* Numbers of the settings file beyond sixteen bits, which the load truncates,
  and other hand edits of it, except a table with five digits in CfsCodec.

## 8. Plan

1. Done: CfsWorkerSpec, CfsNfcWorker, CfsApp, the refinement of the contract,
   and the worker's safety proofs.
2. Done: CfsSettingsSpec, CfsSettings and the proof of the refinement; CfsSpool
   with its proofs; CfsTagData, CfsCodec and CfsDump.
3. Done: proofs of all safety properties of CfsDump, CfsApp and CfsCodec, and
   that CfsNfcWorker implements CfsWorkerSpec.
4. Next: what the properties do not say yet. That a spool's numbers follow the
   sequence with no number left out but those of clones and of writes that were
   given up (CfsSpool); that a dump of one dump, loaded and saved again, is the
   same (CfsDump); and the step of the composition, that CfsApp over the
   detailed worker meets `RunIsOver`, as one theorem and not as two that fit.

## Running

    tlc -config worker_safety.cfg MCNfcWorker.tla
    tlc -config app_patient.cfg MCApp.tla
    tlc -config settings.cfg CfsSettings.tla
    tlc -config codec.cfg MCCodec.tla
    tlc -config dump.cfg MCDump.tla
    tlc -config spool.cfg MCSpool.tla
    tlapm CfsNfcWorkerProofs.tla
    tlapm CfsSettingsProofs.tla
    tlapm CfsSpoolProofs.tla
    tlapm CfsWorkerContractProofs.tla
    tlapm CfsAppProofs.tla
    tlapm CfsAppPatientProofs.tla
    tlapm CfsDumpProofs.tla
    tlapm CfsCodecProofs.tla
