------------------------------- MODULE CfsApp --------------------------------
(***************************************************************************)
(* The GUI thread (src/core, src/scenes): the scene manager's stack, the   *)
(* queue of custom events, the CfsApp struct the scenes share, the popup,  *)
(* and the saved files, driven by the keys of a user and by the NFC worker *)
(* of CfsWorkerSpec.                                                       *)
(*                                                                         *)
(* Custom events are the numbers of the code, because worker events, menu  *)
(* ids and list indices share one namespace.  An event also carries who    *)
(* sent it; no handler looks at that, only the properties do.              *)
(*                                                                         *)
(* Key presses reach a screen on their own way, past the custom events     *)
(* that wait.  A patient user presses a key only when nothing but a result *)
(* of the screen he looks at is still waiting; a hasty one at any time.    *)
(***************************************************************************)
EXTENDS CfsWorkerSpec, Integers, FiniteSets, SequencesExt

CONSTANTS
    Records,        \* payloads a tag or a file can hold
    Names,          \* file names
    SerialModes,    \* the serial modes the user chooses from
    Hasty,          \* may keys overtake events of other screens, and be doubled?
    MaxWaiting      \* bound: keys are pressed while fewer events wait

ASSUME RecordAssumption == Records \cap {"none", "edited"} = {}

ASSUME UserAssumption ==
    /\ Names # {} /\ Hasty \in BOOLEAN /\ MaxWaiting \in Nat
    /\ SerialModes \subseteq {"prompt", "sequential", "random", "keep"}

VARIABLES
    stack,          \* the scene manager's stack, the top last
    goto,           \* the stack a scene in its on_exit is left for
    queue,          \* custom events, each with its sender
    popup,          \* the popup's callback
    app,            \* the CfsApp struct
    wdata,          \* tag_data and read_plain of the worker
    serial_mode,    \* settings.serial_mode
    files,          \* the .nfc files
    spool           \* history: results and counter bumps of this WriteProgress visit

guiVars == <<stack, goto, queue, popup, app, serial_mode, files, spool>>
vars    == <<workerVars, guiVars, wdata>>

------------------------------------------------------------------------------
(* Custom events. *)

\* Worker events are cast to custom events: the order of the two enums agrees.
WorkerCodes == <<"Success", "BlankTag", "NotPresent", "WrongType",
                 "AuthFailed", "ReadFailed", "WriteFailed", "VerifyFailed">>

ToCustom(e) == (CHOOSE i \in DOMAIN WorkerCodes : WorkerCodes[i] = e) - 1

WorkerSuccess  == 0
WorkerBlankTag == 1

ButtonWrite     == 100
ButtonWriteDual == 101
ButtonSave      == 102
ButtonReread    == 106
ButtonWriteTag2 == 107
ButtonErase     == 108
ButtonOverwrite == 109
ButtonDetails   == 110

\* Mutant: the menu ids start where the other lists do.
MenuBaseMutant == 0

MenuBase == 200

\* The menu ids, in the order of StartItem.
MenuTargets == <<"Read", "WriteBrand", "EraseConfirm", "SavedTags",
                 "Settings", "Help", "About">>

MenuId(scene) == MenuBase + (CHOOSE i \in DOMAIN MenuTargets : MenuTargets[i] = scene) - 1

MenuIds == {MenuId(s) : s \in ToSet(MenuTargets)}

\* List items are sent by index.  The lists of materials and of colours are
\* longer than the worker's range; two entries of each stand for all.
BrandCount    == 3
MaterialCount == 56
ColorCount    == 8
WeightCount   == 5

\* Mutant: a verification that failed is forgotten.
OpResultsMutant == {2, 3, 6}

\* The failures of a write or an erase.
OpResults == {2, 3, 6, 7}

\* What a scene's on_event acts on.
Accepts(scene) ==
    CASE scene = "Start"            -> MenuIds
      [] scene = "Read"             -> 0..5
      [] scene = "ReadResult"       -> {ButtonSave, ButtonWrite, ButtonDetails, ButtonReread}
      [] scene = "TagActions"       -> 0..1
      [] scene = "SaveName"         -> {ButtonSave}
      [] scene = "SaveOverwrite"    -> {ButtonOverwrite}
      [] scene = "WriteBrand"       -> 0..(BrandCount - 1)
      [] scene = "WriteMaterial"    -> 0..(MaterialCount - 1)
      [] scene = "WriteColor"       -> 0..ColorCount
      [] scene = "WriteColorCustom" -> {ButtonWrite}
      [] scene = "WriteWeight"      -> 0..(WeightCount - 1)
      [] scene = "WriteSerial"      -> {ButtonWrite}
      [] scene = "WriteConfirm"     -> {ButtonWrite, ButtonWriteDual, ButtonSave}
      [] scene = "WriteProgress"    -> {WorkerSuccess, ButtonWriteTag2} \cup OpResults
      [] scene = "EraseConfirm"     -> {ButtonErase}
      [] scene = "EraseProgress"    -> {WorkerSuccess} \cup OpResults
      [] scene = "SavedEntry"       -> 0..3
      [] scene = "SettingsWeight"   -> 0..(WeightCount - 1) \cup {ButtonSave}
      [] scene = "Help"             -> 0..MenuBase + 6
      [] OTHER                      -> {}

\* What the view of a scene can send when a key is pressed.
Sends(scene) ==
    CASE scene = "ReadResult"     -> IF app.is_blank THEN {ButtonReread}
                                     ELSE {ButtonSave, ButtonWrite, ButtonDetails}
      [] scene \in {"WriteBrand", "WriteMaterial", "WriteWeight", "Help"} -> {0, 1}
      [] scene = "WriteColor"     -> {0, ColorCount}
      [] scene = "SettingsWeight" -> {0, ButtonSave}
      [] scene = "WriteProgress"  -> IF popup = "tag2" THEN {ButtonWriteTag2} ELSE {}
      [] scene \in {"Read", "EraseProgress"} -> {}
      [] OTHER                    -> Accepts(scene)

------------------------------------------------------------------------------
(* Scenes. *)

ModeOf == [Read |-> "read", WriteProgress |-> "write", EraseProgress |-> "erase"]

WorkerScenes == DOMAIN ModeOf

SceneOf(m) == CHOOSE s \in WorkerScenes : ModeOf[s] = m

Top == Last(stack)

Push(scene) == Append(stack, scene)

Pop == Front(stack)

\* Mutant: the scene is entered anew instead of gone back to.
BackToMutant(scene) == Push(scene)

\* scene_manager_search_and_switch_to_previous_scene: the stack cut back to
\* scene, or as it is when scene is not on it.
BackTo(scene) ==
    IF scene \in ToSet(stack)
      THEN SubSeq(stack, 1, CHOOSE i \in DOMAIN stack :
                    stack[i] = scene /\ \A j \in DOMAIN stack : stack[j] = scene => j <= i)
      ELSE stack

\* Mutant: a live read does not take back what viewing a saved entry set.
EnteredMutant(scene, a) ==
    IF scene = "WriteProgress" THEN [a EXCEPT !.write_tag_index = 0] ELSE a

\* The part of on_enter that touches the struct.
Entered(scene, a) ==
    CASE scene = "Read" -> [a EXCEPT !.result_read_only = FALSE]
      [] scene = "WriteProgress" -> [a EXCEPT !.write_tag_index = 0]
      [] OTHER -> a

\* start_write keeps a copy of its input; start_write_raw does not.
StartWrite(a) ==
    /\ CallStart("write")
    /\ wdata' = IF a.write_exact THEN wdata ELSE [wdata EXCEPT !.tag_data = a.pending]

NewSpool == [results |-> 0, bumps |-> 0]

\* Mutant: an erase goes on when its screen is left.
StopsMutant(scene) == scene \in {"Read", "WriteProgress"}

\* The scenes whose on_exit stops the worker.
Stops(scene) == scene \in WorkerScenes

\* The scene on top is left for the stack s, the struct being a.  on_exit of a
\* scene with a run stops the worker and blocks in the join; on_enter of one
\* starts it.
Go(s, a) ==
    /\ popup' = "none"
    /\ IF Stops(Top)
         THEN /\ CallStop
              /\ goto' = s
              /\ app' = a
              /\ spool' = NewSpool
              /\ UNCHANGED <<stack, wdata>>
         ELSE /\ stack' = s
              /\ app' = Entered(Last(s), a)
              /\ CASE Last(s) = "WriteProgress" -> StartWrite(a)
                   [] Last(s) \in WorkerScenes \ {"WriteProgress"} ->
                        CallStart(ModeOf[Last(s)]) /\ UNCHANGED wdata
                   [] OTHER -> UNCHANGED <<workerVars, wdata>>
              /\ UNCHANGED <<goto, spool>>

\* The scene stays, with the struct a and the popup callback p.
Stay(a, p) ==
    /\ app' = a
    /\ popup' = p
    /\ UNCHANGED <<workerVars, stack, goto, wdata>>

------------------------------------------------------------------------------
\* Not a whole record: zeros, or what a refused decode left behind.
NoContent == "none"

\* What a tag's payload, a file or the staged fields hold; "edited" stands for
\* fields that went through the wizard.
Contents == Records \cup {NoContent, "edited"}

AppInit == [tag_data |-> NoContent, tag_plain |-> NoContent, is_blank |-> FALSE,
            result_read_only |-> FALSE, pending |-> NoContent, write_exact |-> FALSE,
            dual_tag |-> FALSE, write_tag_index |-> 0, save_from_write |-> FALSE,
            save_name |-> CHOOSE n \in Names : TRUE,
            selected_path |-> CHOOSE n \in Names : TRUE]

\* cfs_app_alloc and the first scene.
Init ==
    /\ WorkerInit
    /\ stack = <<"Start">>
    /\ goto = <<>> /\ queue = <<>> /\ popup = "none"
    /\ app = AppInit
    /\ serial_mode \in SerialModes
    /\ wdata = [tag_data |-> NoContent, read_plain |-> NoContent]
    /\ files \in [Names -> Records \cup {NoContent}]
    /\ spool = NewSpool

\* The GUI thread is in none of its blocking calls and the app is open; the
\* file browser of SavedTags blocks it too.
Idle == call = "none" /\ stack # <<>> /\ Top # "SavedTags"

\* The next custom event goes to the scene on top.
Take(scene) ==
    /\ Idle /\ Top = scene
    /\ queue # <<>>
    /\ queue' = Tail(queue)

Code == Head(queue).code

\* Event code of scene from opens scene to, the struct becoming a.
Opens(from, code, to, a) ==
    /\ Take(from) /\ Code = code
    /\ Go(Push(to), a)
    /\ UNCHANGED <<serial_mode, files>>

\* The menu, but for a write from scratch.
HandleMenu ==
    \E s \in ToSet(MenuTargets) \ {"WriteBrand"} : Opens("Start", MenuId(s), s, app)

HandleResultOpens ==
    \/ Opens("ReadResult", ButtonWrite, "TagActions", app)
    \/ Opens("ReadResult", ButtonDetails, "ReadRaw", app)

HandleEraseConfirm == Opens("EraseConfirm", ButtonErase, "EraseProgress", app)

\* Any event opens a help topic.
HandleHelp ==
    /\ Take("Help")
    /\ Go(Push("HelpTopic"), app)
    /\ UNCHANGED <<serial_mode, files>>

\* Mutant: write_exact of an earlier clone stays.
FreshMutant == [app EXCEPT !.pending = "edited", !.dual_tag = FALSE]

\* A write from scratch starts from the defaults.
Fresh == [app EXCEPT !.pending = "edited", !.dual_tag = FALSE, !.write_exact = FALSE]

HandleMenuWrite == Opens("Start", MenuId("WriteBrand"), "WriteBrand", Fresh)

\* cfs_read_capture_result takes what the worker has now, also for a blank tag.
HandleReadDone ==
    /\ Take("Read") /\ Code \in {WorkerSuccess, WorkerBlankTag}
    /\ Go(Push("ReadResult"),
          [app EXCEPT !.tag_data = wdata.tag_data, !.tag_plain = wdata.read_plain,
                      !.is_blank = (Code = WorkerBlankTag)])
    /\ UNCHANGED <<serial_mode, files>>

HandleReadError ==
    /\ Take("Read") /\ Code \in 2..5
    /\ Stay(app, "none")
    /\ UNCHANGED <<serial_mode, files, spool>>

HandleReread ==
    /\ Take("ReadResult") /\ Code = ButtonReread
    /\ Go(IF "Read" \in ToSet(stack) THEN BackTo("Read") ELSE Push("Read"), app)
    /\ UNCHANGED <<serial_mode, files>>

\* cfs_app_stage_write_from_loaded.
Staged(exact) ==
    [app EXCEPT !.pending = app.tag_data, !.dual_tag = FALSE, !.write_exact = exact]

\* Clone goes straight to the confirm screen, edit through the wizard.
HandleTagActions ==
    \/ Opens("TagActions", 0, "WriteConfirm", Staged(TRUE))
    \/ Opens("TagActions", 1, "WriteBrand", Staged(FALSE))

HandleView ==
    Opens("SavedEntry", 0, "ReadResult",
          [app EXCEPT !.is_blank = FALSE, !.result_read_only = TRUE])

HandleSavedWrite ==
    \/ Opens("SavedEntry", 1, "WriteConfirm", Staged(TRUE))
    \/ Opens("SavedEntry", 2, "WriteBrand", Staged(FALSE))

\* The file is removed, or it cannot be and nothing tells.
HandleDelete ==
    /\ Take("SavedEntry") /\ Code = 3
    /\ files' \in {files, [files EXCEPT ![app.selected_path] = NoContent]}
    /\ Go(Pop, app)
    /\ UNCHANGED serial_mode

\* The wizard: each step changes a field of pending and opens the next.
Edited == [app EXCEPT !.pending = "edited"]

HandleBrand ==
    Opens("WriteBrand", Code, "WriteMaterial", Edited) /\ Code \in Accepts("WriteBrand")

HandleMaterial ==
    Opens("WriteMaterial", Code, "WriteColor", Edited) /\ Code \in Accepts("WriteMaterial")

HandleColor ==
    \/ Opens("WriteColor", Code, "WriteWeight", Edited) /\ Code < ColorCount
    \/ Opens("WriteColor", ColorCount, "WriteColorCustom", app)

HandleColorCustom == Opens("WriteColorCustom", ButtonWrite, "WriteWeight", Edited)

\* The weight closes the wizard, unless the serial number is to be typed in.
HandleWeight ==
    /\ Opens("WriteWeight", Code,
             IF serial_mode = "prompt" THEN "WriteSerial" ELSE "WriteConfirm", Edited)
    /\ Code \in Accepts("WriteWeight")

HandleSerial == Opens("WriteSerial", ButtonWrite, "WriteConfirm", app)

HandleConfirm ==
    \E c \in {ButtonWrite, ButtonWriteDual} :
        Opens("WriteConfirm", c, "WriteProgress",
              [app EXCEPT !.dual_tag = (c = ButtonWriteDual)])

\* Mutant: a save from the read result does not reset the flag.
FromConfirmMutant == app.save_from_write \/ Top = "WriteConfirm"

FromConfirm == Top = "WriteConfirm"

\* Save, under a proposed name.
SaveFrom(scene) ==
    \E n \in Names :
        Opens(scene, ButtonSave, "SaveName",
              [app EXCEPT !.save_from_write = FromConfirm, !.save_name = n])

HandleResultSave == SaveFrom("ReadResult")

HandleConfirmSave == SaveFrom("WriteConfirm")

\* cfs_app_save_pending: the file is replaced, or the write fails and only a
\* notification tells.
SavePending ==
    \/ files' = [files EXCEPT ![app.save_name] =
                    IF app.save_from_write THEN app.pending ELSE app.tag_plain]
    \/ UNCHANGED files

\* Mutant: the file is not looked for.
ExistsMutant(n) == FALSE

Exists(n) == files[n] # NoContent

HandleSaveName ==
    /\ Take("SaveName") /\ Code = ButtonSave
    /\ IF Exists(app.save_name)
         THEN Go(Push("SaveOverwrite"), app) /\ UNCHANGED files
         ELSE SavePending /\ Go(Pop, app)
    /\ UNCHANGED serial_mode

HandleOverwrite ==
    /\ Take("SaveOverwrite") /\ Code = ButtonOverwrite
    /\ SavePending
    /\ Go(BackTo(IF app.save_from_write THEN "WriteConfirm" ELSE "ReadResult"), app)
    /\ UNCHANGED serial_mode

\* Mutant: the pause comes after the second tag.
PauseMutant == app.dual_tag /\ app.write_tag_index = 1

\* The first of two tags is written.
Pause == app.dual_tag /\ app.write_tag_index = 0

\* A run succeeded: pause for the second tag, or the spool is done and the
\* sequential counter moves.
HandleWritten ==
    /\ Take("WriteProgress") /\ Code = WorkerSuccess
    /\ LET bump == ~Pause /\ serial_mode = "sequential"
       IN  spool' = [results |-> spool.results + 1,
                     bumps |-> spool.bumps + IF bump THEN 1 ELSE 0]
    /\ Stay(app, IF Pause THEN "tag2" ELSE "done")
    /\ UNCHANGED <<serial_mode, files>>

HandleTag2 ==
    /\ Take("WriteProgress") /\ Code = ButtonWriteTag2
    /\ app' = [app EXCEPT !.write_tag_index = 1]
    /\ popup' = "none"
    /\ StartWrite(app)
    /\ UNCHANGED <<stack, goto, serial_mode, files, spool>>

\* A failed write, and every end of an erase, close with a popup.
HandleWriteFails ==
    /\ Take("WriteProgress") /\ Code \in OpResults
    /\ Stay(app, "done")
    /\ UNCHANGED <<serial_mode, files, spool>>

HandleErased ==
    /\ Take("EraseProgress") /\ Code \in Accepts("EraseProgress")
    /\ Stay(app, "done")
    /\ UNCHANGED <<serial_mode, files, spool>>

\* A weight's length is picked or stored in the settings.
HandleSettingsWeight ==
    /\ Take("SettingsWeight") /\ Code \in Accepts("SettingsWeight")
    /\ Stay(app, popup)
    /\ UNCHANGED <<serial_mode, files, spool>>

\* No on_event wants the event.
HandleNothing ==
    /\ Idle /\ Take(Top) /\ Code \notin Accepts(Top)
    /\ Stay(app, popup)
    /\ UNCHANGED <<serial_mode, files, spool>>

HandleEvent ==
    \/ HandleMenu \/ HandleMenuWrite \/ HandleHelp
    \/ HandleReadDone \/ HandleReadError
    \/ HandleResultOpens \/ HandleResultSave \/ HandleReread
    \/ HandleTagActions \/ HandleView \/ HandleSavedWrite \/ HandleDelete
    \/ HandleBrand \/ HandleMaterial \/ HandleColor \/ HandleColorCustom
    \/ HandleWeight \/ HandleSerial \/ HandleConfirm \/ HandleConfirmSave
    \/ HandleSaveName \/ HandleOverwrite
    \/ HandleWritten \/ HandleTag2 \/ HandleWriteFails
    \/ HandleEraseConfirm \/ HandleErased
    \/ HandleSettingsWeight \/ HandleNothing

------------------------------------------------------------------------------
(* Keys. *)

Event(code, from) == [code |-> code, from |-> from]

\* When the user presses a key.
Ready ==
    /\ Idle
    /\ Hasty \/ \A i \in DOMAIN queue :
                   queue[i].from = Top /\ Top \in WorkerScenes
                      /\ queue[i].code < Len(WorkerCodes)

\* A key that makes the view send an event; some views set a field first.
PressKey ==
    /\ Ready /\ Len(queue) < MaxWaiting
    /\ \E c \in Sends(Top) : queue' = Append(queue, Event(c, Top))
    /\ app' \in CASE Top = "SaveName" -> {[app EXCEPT !.save_name = n] : n \in Names}
                  [] Top = "WriteSerial" -> {[app EXCEPT !.pending = "edited"]}
                  [] OTHER -> {app}
    /\ UNCHANGED <<workerVars, stack, goto, popup, serial_mode, wdata, files, spool>>

\* Back: a live read result skips the Read scene, every other scene is popped.
PressBack ==
    /\ Ready /\ Top # "Start"
    /\ Go(IF Top = "ReadResult" /\ ~app.result_read_only THEN BackTo("Start") ELSE Pop, app)
    /\ UNCHANGED <<queue, serial_mode, files>>

\* Back on the menu closes the app; it can be opened again.
Close ==
    /\ Ready /\ Top = "Start"
    /\ stack' = <<>> /\ queue' = <<>> /\ app' = AppInit
    /\ CallStop
    /\ wdata' = [tag_data |-> NoContent, read_plain |-> NoContent]
    /\ spool' = NewSpool
    /\ UNCHANGED <<goto, popup, serial_mode, files>>

Launch ==
    /\ stack = <<>> /\ call = "none"
    /\ stack' = <<"Start">>
    /\ UNCHANGED <<workerVars, goto, queue, popup, app, serial_mode, wdata, files, spool>>

\* The settings list calls back directly.
PressSettings ==
    /\ Ready /\ Top = "Settings"
    /\ \/ \E s \in {"SettingsWeight", "DebugSelftest"} :
            Go(Push(s), app) /\ UNCHANGED serial_mode
       \/ \E m \in SerialModes \ {serial_mode} :
            serial_mode' = m /\ Stay(app, popup) /\ UNCHANGED spool
    /\ UNCHANGED <<queue, files>>

\* The popup's timeout, or a key on it, returns to the menu.
PopupDone ==
    /\ Idle /\ popup = "done"
    /\ Go(BackTo("Start"), app)
    /\ UNCHANGED <<queue, serial_mode, files>>

\* The file browser of SavedTags: a record is loaded, or none is.
Browse ==
    /\ call = "none" /\ stack # <<>> /\ Top = "SavedTags"
    /\ \/ \E n \in Names :
            /\ files[n] # NoContent
            /\ Go(Push("SavedEntry"),
                  [app EXCEPT !.tag_data = files[n], !.tag_plain = files[n],
                              !.is_blank = FALSE, !.selected_path = n])
       \/ Go(Pop, app)
    /\ UNCHANGED <<queue, serial_mode, files>>

\* A join returns: the scene left in on_exit gives way, a run begins.
GuiReturns ==
    /\ Return
    /\ IF goto # <<>> THEN stack' = goto /\ goto' = <<>> ELSE UNCHANGED <<stack, goto>>
    /\ UNCHANGED <<queue, popup, app, serial_mode, wdata, files, spool>>

------------------------------------------------------------------------------
(* The worker, with what a read leaves in its getters. *)

WorkerDecides ==
    /\ \E e \in WorkerEvents :
          /\ Decide(e)
          /\ wdata' \in
               IF mode # "read" THEN {wdata}
               ELSE CASE e = "Success" -> {[tag_data |-> r, read_plain |-> r] : r \in Records}
                      [] e = "ReadFailed" -> {[tag_data |-> NoContent, read_plain |-> NoContent]}
                      [] OTHER -> {wdata}
    /\ UNCHANGED guiVars

\* cfs_worker_callback puts the event into the GUI's queue.
WorkerSends ==
    /\ Send
    /\ queue' = Append(queue, Event(ToCustom(result), SceneOf(mode)))
    /\ UNCHANGED <<stack, goto, popup, app, serial_mode, files, spool, wdata>>

WorkerExits == Exit /\ UNCHANGED <<guiVars, wdata>>

WorkerThread == WorkerDecides \/ WorkerSends \/ WorkerExits

Key == PressKey \/ PressBack \/ PressSettings \/ Close

Next == HandleEvent \/ Key \/ PopupDone \/ Browse \/ GuiReturns \/ Launch \/ WorkerThread

Spec == Init /\ [][Next]_vars

\* Both threads are scheduled and the popup's timer runs; no key need be pressed.
FairSpec ==
    /\ Spec
    /\ WF_vars(HandleEvent) /\ WF_vars(GuiReturns) /\ WF_vars(WorkerThread)
    /\ WF_vars(PopupDone)

------------------------------------------------------------------------------
(* Properties. *)

Scenes == {"Start", "Read", "ReadResult", "ReadRaw", "TagActions", "SaveName",
           "SaveOverwrite", "WriteBrand", "WriteMaterial", "WriteColor",
           "WriteColorCustom", "WriteWeight", "WriteSerial", "WriteConfirm",
           "WriteProgress", "EraseConfirm", "EraseProgress", "SavedTags", "SavedEntry",
           "Settings", "SettingsWeight", "Help", "HelpTopic", "About", "DebugSelftest"}

\* The shape of the variables; no scene is ever on the stack twice.
TypeOK ==
    /\ stack \in Seq(Scenes) /\ IsInjective(stack)
    /\ goto \in Seq(Scenes)
    /\ \A i \in DOMAIN queue : queue[i].code \in Nat /\ queue[i].from \in Scenes
    /\ popup \in {"none", "tag2", "done"}
    /\ serial_mode \in SerialModes
    /\ files \in [Names -> Records \cup {NoContent, "edited"}]
    /\ wdata \in [tag_data : Contents, read_plain : Contents]
    /\ app.tag_data \in Contents /\ app.tag_plain \in Contents /\ app.pending \in Contents
    /\ app.write_tag_index \in 0..1

\* The step takes the next event off the queue for the scene on top.
Handles == queue # <<>> /\ queue' = Tail(queue) /\ stack' # <<>>

\* An event that a scene acts on was sent by that scene's own view or run, so no
\* number of one scene is ever taken for a choice made on another (the shared
\* namespace of CfsCustomEvent).
EventsReachTheirScene ==
    [][Handles /\ Code \in Accepts(Top) => Head(queue).from = Top]_vars

\* No NFC operation goes on behind another screen: a run nobody has stopped is
\* the run of the scene on top (the stops in the three on_exits).
NfcOnlyOnItsScreen ==
    thread # "stopped" /\ ~stop => Top \in WorkerScenes /\ ModeOf[Top] = mode

\* A run is started only when the one before has handed over its event: what
\* start_write fills before it stops anything is not in use (write_plain,
\* tag_data).  This is RunIsOver, on which CfsNfcWorker relies.
StartsAfterTheRun ==
    [][call = "none" /\ call' \in RunModes => thread \in {"exiting", "stopped"}]_vars

\* What the confirm screen shows of a clone is what goes to the tag: it shows
\* pending and tag_plain is written (cfs_app_stage_write_from_loaded).
CloneWritesWhatIsShown ==
    stack # <<>> /\ Top \in {"WriteConfirm", "WriteProgress"} /\ app.write_exact =>
        /\ app.tag_plain = app.pending
        /\ app.tag_plain # NoContent

\* The read result screen shows a whole record, and Back from it goes where the
\* user came from (result_read_only).
ResultKnowsItsOrigin ==
    stack # <<>> /\ Top = "ReadResult" =>
        /\ app.result_read_only <=> "SavedEntry" \in ToSet(stack)
        /\ ~app.is_blank => app.tag_data = app.tag_plain /\ app.tag_data # NoContent

\* The record saved is the one of the screen Save was pressed on, and that screen
\* is there to return to (save_from_write).
SaveKnowsItsInvoker ==
    stack # <<>> /\ Top \in {"SaveName", "SaveOverwrite"} =>
        LET invoker == stack[SelectInSeq(stack, LAMBDA s : s = "SaveName") - 1]
        IN  invoker = IF app.save_from_write THEN "WriteConfirm" ELSE "ReadResult"

\* A file changes only by Overwrite or Delete, once it exists.
NoSilentClobber ==
    [][\A n \in Names : files[n] # NoContent /\ files'[n] # files[n] =>
          \/ Top = "SaveOverwrite" /\ n = app.save_name
          \/ Top = "SavedEntry" /\ n = app.selected_path]_vars

\* The counter moves once per spool, when its last tag is written: after one
\* result, or after two of a dual write (cfs_progress_bump_serial).
OneBumpPerSpool ==
    [][spool'.bumps # spool.bumps /\ spool' # NewSpool =>
          /\ spool'.bumps = 1
          /\ spool'.results = IF app.dual_tag THEN 2 ELSE 1]_vars

\* A write or an erase ends: the user is asked for the second tag or is back.
ProgressEnds ==
    (stack # <<>> /\ Top \in {"WriteProgress", "EraseProgress"}) ~>
        (popup = "tag2" \/ stack = <<>> \/ Top \notin {"WriteProgress", "EraseProgress"})

\* Whatever the keys, no worker event that waits is taken for a choice in the
\* menu (CfsCustomEventMenuBase).
MenuIsSafe ==
    [][Handles /\ Top = "Start" /\ Head(queue).from \in WorkerScenes =>
          Code \notin Accepts("Start")]_vars

\* Worker events do not reach another scene than the one that ran the worker
\* (cfs_emit).
NoStaleWorkerEvent ==
    [][Handles /\ Code < Len(WorkerCodes) /\ Head(queue).from \in WorkerScenes =>
          Head(queue).from = Top]_vars
==============================================================================
