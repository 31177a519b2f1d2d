------------------------------- MODULE CfsSpool -------------------------------
(***************************************************************************)
(* One spool after the other: where the serial number of a payload comes   *)
(* from, which payload reaches the two tags of a spool and the saved file, *)
(* and how the sequential counter keeps up, over failed saves, crashes and *)
(* restarts.  The scenes of a spool are composed with the abstract store   *)
(* of CfsSettingsSpec; the GUI thread is blocked while a save is at work.  *)
(*                                                                         *)
(* A payload is its serial number and the rest that no field holds.  Where *)
(* a serial number comes from is part of its value, although a random or   *)
(* typed number may happen to be one of the counter's.                     *)
(***************************************************************************)
EXTENDS CfsSettingsSpec, Naturals, Sequences

CONSTANTS
    SerialModes,    \* the serial modes the user chooses from, "keep" being the default
    Rests,          \* contents of the bytes that decode drops; "zeros" is the app's
    SerialSpace,    \* 1000000: the counter is taken modulo this
    MaxCounter      \* bound: a write is begun while the counter is smaller

ASSUME ModeAssumption == SerialModes \subseteq {"random", "keep", "sequential", "prompt"}

\* As far as this module looks at them.
ASSUME SettingsAssumption ==
    Settings \subseteq [serial_mode : SerialModes, serial_counter : Nat]

ASSUME ClosedAssumption ==
    \A s \in Settings :
        /\ \A m \in SerialModes :
               [serial_mode |-> m, serial_counter |-> s.serial_counter] \in Settings
        /\ s.serial_counter < MaxCounter =>
               [serial_mode    |-> s.serial_mode,
                serial_counter |-> s.serial_counter + 1] \in Settings

ASSUME SpoolAssumption ==
    /\ "zeros" \in Rests
    /\ SerialSpace \in Nat \ {0}
    /\ MaxCounter \in Nat

VARIABLES
    screen,     \* the scene on top; "wizard" stands for brand, material and colour
    loaded,     \* tag_plain
    pending,    \* pending.serial
    app,        \* the flags of the staging
    run,        \* the worker's run: idle, busy, or the result that waits
    file,       \* the saved file
    origin,     \* history: how the staging began
    written,    \* history: the payloads of this visit of WriteProgress
    onTags,     \* history: the counter's numbers that reached a tag
    finished,   \* history: those on spools finished in sequential mode
    lost        \* history: did a start give other settings than the app last
                \* had, after a save of them that had not reported success?

spoolVars == <<screen, loaded, pending, app, run, file, origin, written, onTags,
               finished, lost>>
vars      == <<storeVars, spoolVars>>

------------------------------------------------------------------------------
(* Serial numbers and payloads. *)

Kinds == {"counter", "random", "typed", "source", "default"}

Counted(n) == [from |-> "counter", number |-> n % SerialSpace]

Uncounted(kind) == [from |-> kind, number |-> 0]

\* cfs_data_decode keeps the serial number, cfs_data_encode pads with zeros.
Encode(serial) == [serial |-> serial, rest |-> "zeros"]

\* The tags of other writers.
ForeignPayloads == {[serial |-> Uncounted("source"), rest |-> r] : r \in Rests}

NoPayload == Encode(Uncounted("default"))

\* Mutant: only the first tag of a clone is written byte for byte.
PayloadMutant ==
    IF app.write_exact /\ app.write_tag_index = 0 THEN loaded ELSE Encode(pending)

\* What start_write or start_write_raw is given.
Payload == IF app.write_exact THEN loaded ELSE Encode(pending)

\* The counter's number in a set of payloads, if it is one.
CountedIn(p) == IF p.serial.from = "counter" THEN {p.serial.number} ELSE {}

------------------------------------------------------------------------------

NoFlags == [write_exact |-> FALSE, has_source_serial |-> FALSE,
            dual_tag |-> FALSE, write_tag_index |-> 0]

Init ==
    /\ StoreInit
    /\ screen = "start"
    /\ loaded = NoPayload
    /\ pending = Uncounted("default")
    /\ app = NoFlags
    /\ run = "idle"
    /\ file \in ForeignPayloads
    /\ origin = "none"
    /\ written = <<>>
    /\ onTags = {} /\ finished = {}
    /\ lost = FALSE

\* The GUI thread handles an event on a screen.
On(s) == running /\ ~saving /\ screen = s

\* A tag is read, or the file loaded.
Obtain ==
    /\ On("start")
    /\ loaded' \in ForeignPayloads \cup {file}
    /\ screen' = "loaded"
    /\ UNCHANGED <<storeVars, pending, app, run, file, origin, written, onTags, finished, lost>>

\* Save on a read result: the captured payload; a save may fail.
SaveResult ==
    /\ On("loaded")
    /\ file' \in {file, loaded}
    /\ UNCHANGED <<storeVars, screen, loaded, pending, app, run, origin, written, onTags, finished, lost>>

\* Save on the confirm screen: the fields encoded.
SaveStaged ==
    /\ On("confirm")
    /\ file' \in {file, Encode(pending)}
    /\ UNCHANGED <<storeVars, screen, loaded, pending, app, run, origin, written, onTags, finished, lost>>

\* Mutant: the menu does not reset has_source_serial.
StageNewMutant ==
    /\ On("start")
    /\ pending' = Uncounted("default")
    /\ app' = [app EXCEPT !.write_exact = FALSE, !.dual_tag = FALSE]
    /\ origin' = "new"
    /\ screen' = "wizard"
    /\ UNCHANGED <<storeVars, loaded, run, file, written, onTags, finished, lost>>

\* Mutant: the menu does not reset write_exact.
StageNewExactMutant ==
    /\ On("start")
    /\ pending' = Uncounted("default")
    /\ app' = [app EXCEPT !.dual_tag = FALSE, !.has_source_serial = FALSE]
    /\ origin' = "new"
    /\ screen' = "wizard"
    /\ UNCHANGED <<storeVars, loaded, run, file, written, onTags, finished, lost>>

\* Write Tag in the menu.
StageNew ==
    /\ On("start")
    /\ pending' = Uncounted("default")
    /\ app' = [app EXCEPT !.write_exact = FALSE, !.dual_tag = FALSE,
                          !.has_source_serial = FALSE]
    /\ origin' = "new"
    /\ screen' = "wizard"
    /\ UNCHANGED <<storeVars, loaded, run, file, written, onTags, finished, lost>>

\* cfs_app_stage_write_from_loaded
StageLoaded(exact) ==
    /\ On("loaded")
    /\ pending' = loaded.serial
    /\ app' = [app EXCEPT !.write_exact = exact, !.dual_tag = FALSE,
                          !.has_source_serial = TRUE]
    /\ UNCHANGED <<storeVars, loaded, run, file, written, onTags, finished, lost>>

\* Clone goes to the confirm screen at once.
Clone ==
    /\ StageLoaded(TRUE)
    /\ origin' = "clone"
    /\ screen' = "confirm"

Edit ==
    /\ StageLoaded(FALSE)
    /\ origin' = "edit"
    /\ screen' = "wizard"

\* The brand, the material and the colour are picked.
PickFields ==
    /\ On("wizard")
    /\ screen' = "weight"
    /\ UNCHANGED <<storeVars, loaded, pending, app, run, file, origin, written, onTags, finished, lost>>

\* The weight finalizes the serial number by the mode.
PickWeight ==
    /\ On("weight")
    /\ pending' = CASE settings.serial_mode = "sequential" -> Counted(settings.serial_counter)
                    [] settings.serial_mode = "random" -> Uncounted("random")
                    [] settings.serial_mode = "keep" /\ ~app.has_source_serial ->
                           Uncounted("random")
                    [] OTHER -> pending
    /\ screen' = IF settings.serial_mode = "prompt" THEN "serial" ELSE "confirm"
    /\ UNCHANGED <<storeVars, loaded, app, run, file, origin, written, onTags, finished, lost>>

TypeSerial ==
    /\ On("serial")
    /\ pending' = Uncounted("typed")
    /\ screen' = "confirm"
    /\ UNCHANGED <<storeVars, loaded, app, run, file, origin, written, onTags, finished, lost>>

\* Write or x2 opens WriteProgress, which starts the run.
PressWrite ==
    /\ On("confirm")
    /\ settings.serial_counter < MaxCounter
    /\ \E dual \in BOOLEAN : app' = [app EXCEPT !.dual_tag = dual, !.write_tag_index = 0]
    /\ written' = <<>>
    /\ run' = "busy"
    /\ screen' = "write"
    /\ UNCHANGED <<storeVars, loaded, pending, file, origin, onTags, finished, lost>>

\* The worker has written and verified the tag.
TagWritten ==
    /\ running /\ run = "busy"
    /\ run' = "success"
    /\ written' = Append(written, Payload)
    /\ onTags' = onTags \cup CountedIn(Payload)
    /\ UNCHANGED <<storeVars, screen, loaded, pending, app, file, origin, finished, lost>>

\* The run fails; the serial number may have reached the tag nevertheless.
TagFailed ==
    /\ running /\ run = "busy"
    /\ run' = "failure"
    /\ onTags' \in {onTags, onTags \cup CountedIn(Payload)}
    /\ UNCHANGED <<storeVars, screen, loaded, pending, app, file, origin, written, finished, lost>>

\* The first of two tags is written.
Pause ==
    /\ On("write") /\ run = "success"
    /\ app.dual_tag /\ app.write_tag_index = 0
    /\ screen' = "pause"
    /\ run' = "idle"
    /\ UNCHANGED <<storeVars, loaded, pending, app, file, origin, written, onTags, finished, lost>>

\* Mutant: the second tag counts as the first again.
SecondTagMutant ==
    /\ On("pause")
    /\ run' = "busy"
    /\ screen' = "write"
    /\ UNCHANGED <<storeVars, loaded, pending, app, file, origin, written, onTags, finished, lost>>

SecondTag ==
    /\ On("pause")
    /\ app' = [app EXCEPT !.write_tag_index = 1]
    /\ run' = "busy"
    /\ screen' = "write"
    /\ UNCHANGED <<storeVars, loaded, pending, file, origin, written, onTags, finished, lost>>

\* Mutant: a spool with two tags is not counted.
BumpsMutant == settings.serial_mode = "sequential" /\ ~app.dual_tag

\* cfs_progress_bump_serial
Bumps == settings.serial_mode = "sequential"

Bumped == [settings EXCEPT !.serial_counter = settings.serial_counter + 1]

\* The spool is finished: the counter moves and is saved, then the popup shows.
Finish ==
    /\ On("write") /\ run = "success"
    /\ ~(app.dual_tag /\ app.write_tag_index = 0)
    /\ IF Bumps
         THEN Change(Bumped)
         ELSE UNCHANGED storeVars
    /\ finished' = IF settings.serial_mode = "sequential"
                   THEN finished \cup CountedIn(Payload) ELSE finished
    /\ screen' = "done"
    /\ run' = "idle"
    /\ UNCHANGED <<loaded, pending, app, file, origin, written, onTags, lost>>

ShowFailure ==
    /\ On("write") /\ run = "failure"
    /\ screen' = "failed"
    /\ run' = "idle"
    /\ UNCHANGED <<storeVars, loaded, pending, app, file, origin, written, onTags, finished, lost>>

\* The popup's timeout leads to the menu.
PopupDone ==
    /\ On("done") \/ On("failed")
    /\ screen' = "start"
    /\ written' = <<>>
    /\ origin' = "none"
    /\ UNCHANGED <<storeVars, loaded, pending, app, run, file, onTags, finished, lost>>

\* Back.  Leaving WriteProgress stops a run, and a result that waits is dropped;
\* the confirm screen keeps what was staged, also after the spool is finished.
BackTo ==
    [loaded |-> "start", wizard |-> IF origin = "new" THEN "start" ELSE "loaded",
     weight |-> "wizard", serial |-> "weight",
     confirm |-> IF origin = "clone" THEN "loaded"
                 ELSE IF settings.serial_mode = "prompt" THEN "serial" ELSE "weight",
     write |-> "confirm", pause |-> "confirm", done |-> "confirm", failed |-> "confirm"]

Back ==
    /\ running /\ ~saving
    /\ screen \in DOMAIN BackTo
    /\ screen' = BackTo[screen]
    /\ run' = "idle"
    /\ written' = <<>>
    /\ origin' = IF BackTo[screen] \in {"start", "loaded"} THEN "none" ELSE origin
    /\ UNCHANGED <<storeVars, loaded, pending, app, file, onTags, finished, lost>>

NewMode(m) == [settings EXCEPT !.serial_mode = m]

\* The serial mode in the settings.
ChangeMode ==
    /\ On("start")
    /\ \E m \in SerialModes \ {settings.serial_mode} : Change(NewMode(m))
    /\ UNCHANGED spoolVars

\* The save goes on while the GUI thread waits for it.
SaveGoesOn == (Truncate \/ Persist \/ Commit \/ Abandon) /\ UNCHANGED spoolVars

\* The app is closed or the device loses its power, at any moment.
PowerOff ==
    /\ Stop
    /\ screen' = "off"
    /\ loaded' = NoPayload
    /\ pending' = Uncounted("default")
    /\ app' = NoFlags
    /\ run' = "idle"
    /\ origin' = "none"
    /\ written' = <<>>
    /\ UNCHANGED <<file, onTags, finished, lost>>

PowerOn ==
    /\ Start
    /\ screen' = "start"
    /\ lost' = (lost \/ (~saved /\ stored # settings))
    /\ UNCHANGED <<loaded, pending, app, run, file, origin, written, onTags, finished>>

------------------------------------------------------------------------------

Staging == StageNew \/ Clone \/ Edit \/ PickFields \/ PickWeight \/ TypeSerial

Writing ==
    \/ PressWrite \/ TagWritten \/ TagFailed
    \/ Pause \/ SecondTag \/ Finish \/ ShowFailure \/ PopupDone

Next ==
    \/ Obtain \/ SaveResult \/ SaveStaged
    \/ Staging \/ Writing \/ Back
    \/ ChangeMode \/ SaveGoesOn
    \/ PowerOff \/ PowerOn

Spec == Init /\ [][Next]_vars

------------------------------------------------------------------------------
(* Properties. *)

SerialNumbers == [from : Kinds, number : 0..(SerialSpace - 1)]

Payloads == [serial : SerialNumbers, rest : Rests]

Screens == {"start", "loaded", "wizard", "weight", "serial", "confirm", "write",
            "pause", "done", "failed", "off"}

\* The type invariant: no visit of WriteProgress writes more than two tags.
TypeOK ==
    /\ StoreTypeOK
    /\ screen \in Screens
    /\ loaded \in Payloads /\ file \in Payloads
    /\ pending \in SerialNumbers
    /\ app \in [write_exact : BOOLEAN, has_source_serial : BOOLEAN,
                dual_tag : BOOLEAN, write_tag_index : {0, 1}]
    /\ run \in {"idle", "busy", "success", "failure"}
    /\ origin \in {"none", "new", "clone", "edit"}
    /\ written \in Seq(Payloads) /\ Len(written) <= 2
    /\ onTags \subseteq 0..(SerialSpace - 1) /\ finished \subseteq onTags
    /\ lost \in BOOLEAN

\* No start has lost settings whose save had not reported success, and the
\* counter has not come round.
Counting == ~lost /\ settings.serial_counter < SerialSpace

\* The counter is past the number of every spool that was finished in sequential
\* mode, a clone's included, so that no such spool is given its number again,
\* over crashes and restarts, too; and no number on any tag is past the one it
\* gives next.  Spools that were not finished can have the next number, any of
\* them the same one: a failed run, one that is left while its result waits, a
\* pause that is left; and so can a clone of a payload that was saved with it,
\* finished in another mode.  Nothing is said after a start that has lost the
\* counter, which only a save that reported no success allows (write_progress
\* does not look at what cfs_settings_save returns), nor once it comes round.
CounterAhead ==
    Counting =>
        /\ \A n \in finished : n < settings.serial_counter
        /\ \A n \in onTags : n <= settings.serial_counter

\* What the wizard puts on the confirm screen has the serial number the mode
\* asks for: the source's is kept in no other mode than "keep", and never for a
\* new spool, nor does one get the number of the defaults.
SerialComesFromMode ==
    screen = "confirm" /\ origin \in {"new", "edit"} =>
        CASE settings.serial_mode = "sequential" -> pending.from = "counter"
          [] settings.serial_mode = "random"     -> pending.from = "random"
          [] settings.serial_mode = "prompt"     -> pending.from = "typed"
          [] settings.serial_mode = "keep"       ->
                 IF origin = "new" THEN pending.from = "random" ELSE pending = loaded.serial

\* When the popup says Done, as many tags as were asked for have been written,
\* all with the same payload: that of the source for a clone, byte for byte,
\* and otherwise the fields of the confirm screen.
BothTagsAlike ==
    screen = "done" =>
        /\ Len(written) = IF app.dual_tag THEN 2 ELSE 1
        /\ \A i \in DOMAIN written :
               written[i] = IF origin = "clone" THEN loaded ELSE Encode(pending)

\* Clone and edit keep the source's serial number unless the settings say
\* otherwise (the help topic on cloning): a mode that gives a number of its own
\* gives it to a clone, too.
SerialFollowsMode ==
    screen = "confirm" /\ settings.serial_mode = "sequential" => pending.from = "counter"

\* What Save keeps on the confirm screen is the spool that Write writes: its
\* fields are those of the payload at hand, also when that is a clone's, of
\* which Save encodes the fields anew (cfs_app_save_pending).
SavedNamesTheSpool ==
    [][screen = "confirm" /\ file' # file => file' = Encode(Payload.serial)]_vars
==============================================================================
