----------------------------- MODULE CfsSettings -----------------------------
(***************************************************************************)
(* The settings store (src/settings) and the scenes that call it: the file *)
(* is truncated, then written key by key, and a write may fail or be cut   *)
(* off by a crash at any point.                                            *)
(*                                                                         *)
(* A file is a function from the keys it holds to their numbers.  A number *)
(* that was cut off may read as one of its leading digits.  The header     *)
(* (file type and version) counts as the key "Version".                    *)
(***************************************************************************)
EXTENDS Naturals, Sequences

CONSTANTS
    Version,        \* CFS_SETTINGS_VERSION
    BrandCount,     \* CfsBrandCount; the last brand cannot be chosen
    ModeCount,      \* CfsSerialModeCount
    PaletteCount,   \* CfsPaletteCount
    WeightCount,    \* CFS_WEIGHT_COUNT
    Lengths,        \* lengths a user enters for a weight
    DefaultLength,  \* the length of every weight in a new table
    MaxCounter      \* bound: the counter is moved while it is smaller

ASSUME CountAssumption ==
    /\ Version \in Nat
    /\ BrandCount \in Nat /\ BrandCount > 2
    /\ ModeCount \in Nat /\ ModeCount > 2
    /\ WeightCount \in Nat /\ WeightCount > 0
    /\ MaxCounter \in Nat /\ MaxCounter > 0

ASSUME LengthAssumption == Lengths \subseteq 1..9999 /\ DefaultLength \in Lengths

\* The enumerator of a palette is one digit.
ASSUME PaletteAssumption == PaletteCount \in 1..10

VARIABLES
    settings,   \* app->settings
    file,       \* the settings file; no keys when there is none
    next,       \* the key cfs_settings_save writes next, 0 before it opens
    saving,     \* is the GUI thread inside cfs_settings_save?
    saved,      \* what the last cfs_settings_save returned
    running     \* is the application running?

vars == <<settings, file, next, saving, saved, running>>

------------------------------------------------------------------------------
(* The settings and their file. *)

Brands   == 0..(BrandCount - 1)
Modes    == 0..(ModeCount - 1)
Palettes == 0..(PaletteCount - 1)
Weights  == 1..WeightCount

SerialSequential == 2

Settings ==
    [default_brand  : Brands,
     serial_mode    : Modes,
     weight_len     : [Weights -> Lengths],
     serial_counter : 0..MaxCounter,
     color_palette  : Palettes]

\* cfs_settings_default
Default ==
    [default_brand  |-> 1,
     serial_mode    |-> 1,
     weight_len     |-> [w \in Weights |-> DefaultLength],
     serial_counter |-> 1,
     color_palette  |-> 0]

\* Mutant: the palette is written before the counter.
FieldsMutant ==
    <<"Version", "DefaultBrand", "SerialMode", "WeightLen", "ColorPalette", "SerialCounter">>

\* The keys in the order they are written and read.
Fields ==
    <<"Version", "DefaultBrand", "SerialMode", "WeightLen", "SerialCounter", "ColorPalette">>

Last == 6

Keys == {Fields[i] : i \in 1..Last}

\* The numbers written under a key.
Values(s, key) ==
    CASE key = "Version"       -> <<Version>>
      [] key = "DefaultBrand"  -> <<s.default_brand>>
      [] key = "SerialMode"    -> <<s.serial_mode>>
      [] key = "WeightLen"     -> s.weight_len
      [] key = "SerialCounter" -> <<s.serial_counter>>
      [] key = "ColorPalette"  -> <<s.color_palette>>

\* The file with one more key.
With(f, key, values) ==
    [k \in DOMAIN f \cup {key} |-> IF k = key THEN values ELSE f[k]]

\* What a number can read as when its last digits are missing.
Leading(n) == {d \in 1..(n \div 10) : \E k \in 1..9 : d = n \div 10^k}

\* What is read under a key whose line was not written completely: all of its
\* numbers (the end of the line is missing) or the last of them cut.
Cut(values) ==
    {values} \cup {[values EXCEPT ![Len(values)] = d] : d \in Leading(values[Len(values)])}

\* Mutant: a file without the last key is good enough.
ReadableMutant(f) ==
    /\ Keys \ {"ColorPalette"} \subseteq DOMAIN f
    /\ f["Version"] = <<Version>>
    /\ f["DefaultBrand"][1] < BrandCount
    /\ f["SerialMode"][1] < ModeCount

\* Every key is there, and the enumerators are in range.
Readable(f) ==
    /\ DOMAIN f = Keys
    /\ f["Version"] = <<Version>>
    /\ f["DefaultBrand"][1] < BrandCount
    /\ f["SerialMode"][1] < ModeCount
    /\ f["ColorPalette"][1] < PaletteCount

\* The settings in a file, "tmp" of cfs_settings_load at its end.
Parsed(f) ==
    [default_brand  |-> f["DefaultBrand"][1],
     serial_mode    |-> f["SerialMode"][1],
     weight_len     |-> f["WeightLen"],
     serial_counter |-> f["SerialCounter"][1],
     color_palette  |-> IF "ColorPalette" \in DOMAIN f THEN f["ColorPalette"][1]
                        ELSE Default.color_palette]

\* cfs_settings_load: all of the file or the defaults.
Load(f) == IF Readable(f) THEN Parsed(f) ELSE Default

------------------------------------------------------------------------------

\* The file of a whole save.
FileOf(s) == [k \in Keys |-> Values(s, k)]

NoFile == [k \in {} |-> <<>>]

\* The first start, without a file or with one of an older version.
Init ==
    /\ file \in {NoFile, [FileOf(Default) EXCEPT !["Version"] = <<Version + 1>>]}
    /\ settings = Default
    /\ next = 0
    /\ saving = FALSE
    /\ saved = TRUE
    /\ running = TRUE

\* A scene puts s into app->settings and calls cfs_settings_save.
CallSave(s) ==
    /\ running /\ ~saving
    /\ settings' = s
    /\ saving' = TRUE
    /\ next' = 0
    /\ saved' = FALSE
    /\ UNCHANGED <<file, running>>

\* Mutant: one brand too many in the list.
ChangeBrandMutant ==
    \E b \in 0..BrandCount : CallSave([settings EXCEPT !.default_brand = b])

\* Only the writable brands are in the list (CFS_BRAND_WRITABLE_COUNT).
ChangeBrand ==
    \E b \in 0..(BrandCount - 2) : CallSave([settings EXCEPT !.default_brand = b])

ChangeMode ==
    \E m \in Modes : CallSave([settings EXCEPT !.serial_mode = m])

ChangePalette ==
    \E p \in Palettes : CallSave([settings EXCEPT !.color_palette = p])

EditWeight ==
    \E w \in Weights, n \in Lengths : CallSave([settings EXCEPT !.weight_len[w] = n])

\* cfs_progress_bump_serial: a spool has been written.
BumpSerial ==
    /\ settings.serial_mode = SerialSequential
    /\ settings.serial_counter < MaxCounter
    /\ CallSave([settings EXCEPT !.serial_counter = settings.serial_counter + 1])

\* flipper_format_file_open_always truncates.
OpenAlways ==
    /\ saving /\ next = 0
    /\ file' = NoFile
    /\ next' = 1
    /\ UNCHANGED <<settings, saving, saved, running>>

\* Mutant: the weight table is not written.
WriteMutant ==
    /\ saving /\ next \in 1..Last
    /\ file' = IF Fields[next] = "WeightLen" THEN file
               ELSE With(file, Fields[next], Values(settings, Fields[next]))
    /\ next' = next + 1
    /\ UNCHANGED <<settings, saving, saved, running>>

Write ==
    /\ saving /\ next \in 1..Last
    /\ file' = With(file, Fields[next], Values(settings, Fields[next]))
    /\ next' = next + 1
    /\ UNCHANGED <<settings, saving, saved, running>>

\* What is left of the key that is being written.
Torn ==
    \/ UNCHANGED file
    \/ /\ next \in 1..Last
       /\ \E v \in Cut(Values(settings, Fields[next])) : file' = With(file, Fields[next], v)

\* An open or a write fails, and cfs_settings_save returns FALSE.
SaveFails ==
    /\ saving /\ next \in 0..Last
    /\ Torn
    /\ saving' = FALSE
    /\ next' = 0
    /\ UNCHANGED <<settings, saved, running>>

SaveReturns ==
    /\ saving /\ next = Last + 1
    /\ saving' = FALSE
    /\ saved' = TRUE
    /\ next' = 0
    /\ UNCHANGED <<settings, file, running>>

\* The device loses its power; what is in RAM is never looked at again.
Crash ==
    /\ running
    /\ Torn
    /\ running' = FALSE
    /\ saving' = FALSE
    /\ next' = 0
    /\ UNCHANGED <<settings, saved>>

\* cfs_app_free saves nothing.
Close ==
    /\ running /\ ~saving
    /\ running' = FALSE
    /\ UNCHANGED <<settings, file, next, saving, saved>>

\* cfs_app_alloc
Launch ==
    /\ ~running
    /\ running' = TRUE
    /\ settings' = Load(file)
    /\ saved' = TRUE
    /\ UNCHANGED <<file, next, saving>>

------------------------------------------------------------------------------

Ask == ChangeBrand \/ ChangeMode \/ ChangePalette \/ EditWeight \/ BumpSerial

Next ==
    \/ Ask
    \/ OpenAlways \/ Write \/ SaveFails \/ SaveReturns
    \/ Crash \/ Close \/ Launch

Spec == Init /\ [][Next]_vars

------------------------------------------------------------------------------
(* Properties. *)

Positions == 0..(Last + 1)

IsFile(f) ==
    /\ DOMAIN f \subseteq Keys
    /\ \A k \in DOMAIN f : f[k] \in Seq(Nat)

\* The type invariant.
TypeOK ==
    /\ settings \in Settings
    /\ IsFile(file)
    /\ next \in Positions
    /\ saving \in BOOLEAN /\ saved \in BOOLEAN /\ running \in BOOLEAN

\* However a save ends, a start never finds a mixture of old, new and default
\* settings or a number that lost its last digits: what it would load only
\* ever changes to the defaults or to what was being saved.
LoadedIsWhole == [][Load(file)' \in {Load(file), Default, settings}]_vars

\* When cfs_settings_save has returned TRUE, the next start gives these
\* settings, until the scenes save others.
SavedSurvives == saved /\ ~saving => Load(file) = settings

Store == INSTANCE CfsSettingsSpec WITH stored <- Load(file)

\* The file with its keys is an implementation of the abstract store.
KeepsStore == Store!StoreSpec
==============================================================================
