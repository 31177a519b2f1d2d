-------------------------- MODULE CfsSettingsProofs --------------------------
(***************************************************************************)
(* Proofs about CfsSettings, for every number of brands, modes and weights *)
(* and every number of palettes of one digit.  That digit is the argument: *)
(* the last key of the file cannot be cut and still be read, so a file     *)
(* that is readable was written as a whole.                                *)
(***************************************************************************)
EXTENDS CfsSettings, TLAPS

------------------------------------------------------------------------------
(* The file format. *)

\* The six keys.
LEMMA KeysAre ==
    Keys = {"Version", "DefaultBrand", "SerialMode", "WeightLen",
            "SerialCounter", "ColorPalette"}
BY DEF Keys, Fields, Last

LEMMA FieldsType ==
    /\ \A i \in 1..Last : Fields[i] \in Keys
    /\ \A i, j \in 1..Last : Fields[i] = Fields[j] => i = j
BY DEF Keys, Fields, Last

LEMMA PositionsAre ==
    /\ 0 \in Positions
    /\ \A n \in 1..Last : n + 1 \in Positions
    /\ 1 \in Positions
BY DEF Positions, Last

LEMMA DefaultType == Default \in Settings
<1>1. [w \in Weights |-> DefaultLength] \in [Weights -> Lengths]
  BY LengthAssumption
<1>2. 1 \in Brands /\ 1 \in Modes /\ 1 \in 0..MaxCounter /\ 0 \in Palettes
  BY CountAssumption, PaletteAssumption DEF Brands, Modes, Palettes
<1> QED
  BY <1>1, <1>2 DEF Default, Settings

\* A table of weights is a list of numbers.
LEMMA WeightsType ==
    ASSUME NEW s \in Settings
    PROVE  /\ s.weight_len \in Seq(Nat)
           /\ Len(s.weight_len) = WeightCount
<1>1. s.weight_len \in [1..WeightCount -> Lengths]
  BY DEF Settings, Weights
<1>2. Lengths \subseteq Nat
  BY LengthAssumption
<1>3. s.weight_len \in [1..WeightCount -> Nat]
  BY <1>1, <1>2
<1> QED
  BY <1>3, CountAssumption

\* What is written is numbers, at least one for each key.
LEMMA ValuesType ==
    ASSUME NEW s \in Settings, NEW k \in Keys
    PROVE  Values(s, k) \in Seq(Nat) /\ Len(Values(s, k)) > 0
<1>1. /\ s.default_brand \in Nat /\ s.serial_mode \in Nat
      /\ s.serial_counter \in Nat /\ s.color_palette \in Nat
  BY DEF Settings, Brands, Modes, Palettes
<1>2. Version \in Nat /\ WeightCount > 0
  BY CountAssumption
<1>3. CASE k = "WeightLen"
  BY <1>3, <1>2, WeightsType DEF Values
<1>4. CASE k # "WeightLen"
  BY <1>1, <1>2, <1>4, KeysAre DEF Values
<1> QED
  BY <1>3, <1>4

\* A number that is cut is a number.
LEMMA CutType ==
    ASSUME NEW v \in Seq(Nat), Len(v) > 0, NEW c \in Cut(v)
    PROVE  c \in Seq(Nat)
<1>1. CASE c = v
  BY <1>1
<1>2. ASSUME NEW d \in Leading(v[Len(v)]), c = [v EXCEPT ![Len(v)] = d]
      PROVE  c \in Seq(Nat)
  <2>1. d \in Nat
    BY DEF Leading
  <2> QED
    BY <1>2, <2>1
<1> QED
  BY <1>1, <1>2 DEF Cut

\* A palette has one digit and cannot be cut.
LEMMA PaletteIsWhole ==
    ASSUME NEW s \in Settings, NEW c \in Cut(Values(s, "ColorPalette"))
    PROVE  c = <<s.color_palette>>
<1>1. s.color_palette \in 0..9
  BY PaletteAssumption DEF Settings, Palettes
<1>2. s.color_palette \div 10 = 0
  BY <1>1
<1>3. Leading(s.color_palette) = {}
  BY <1>2 DEF Leading
<1>4. Values(s, "ColorPalette") = <<s.color_palette>>
  BY DEF Values
<1>5. Len(<<s.color_palette>>) = 1 /\ <<s.color_palette>>[1] = s.color_palette
  OBVIOUS
<1> QED
  BY <1>3, <1>4, <1>5 DEF Cut

\* What is read from the file of a whole save is what was saved.
LEMMA LoadWhole ==
    ASSUME NEW s \in Settings PROVE Load(FileOf(s)) = s
<1> DEFINE f == FileOf(s)
<1>1. /\ DOMAIN f = Keys
      /\ f["Version"] = <<Version>>
      /\ f["DefaultBrand"] = <<s.default_brand>>
      /\ f["SerialMode"] = <<s.serial_mode>>
      /\ f["WeightLen"] = s.weight_len
      /\ f["SerialCounter"] = <<s.serial_counter>>
      /\ f["ColorPalette"] = <<s.color_palette>>
  BY KeysAre DEF FileOf, Values
<1> HIDE DEF f
<1>2. /\ s.default_brand < BrandCount
      /\ s.serial_mode < ModeCount
      /\ s.color_palette < PaletteCount
  BY CountAssumption, PaletteAssumption DEF Settings, Brands, Modes, Palettes
<1>3. Readable(f)
  BY <1>1, <1>2 DEF Readable
<1>4. Parsed(f) = s
  BY <1>1, KeysAre DEF Parsed, Settings
<1> QED
  BY <1>3, <1>4 DEF Load, f

\* A file that misses a key gives the defaults.
LEMMA LoadPartial ==
    ASSUME NEW f, DOMAIN f # Keys PROVE Load(f) = Default
BY DEF Load, Readable

\* The file a save has written when key n is the next.
FileBefore(s, n) == [k \in {Fields[j] : j \in 1..(n - 1)} |-> Values(s, k)]

\* A key is missing until the last one is written, and the last one is whole.
LEMMA LoadWritten ==
    ASSUME NEW s \in Settings, NEW n \in 1..Last,
           NEW v \in Cut(Values(s, Fields[n]))
    PROVE  Load(With(FileBefore(s, n), Fields[n], v)) = IF n = Last THEN s ELSE Default
<1> DEFINE f == With(FileBefore(s, n), Fields[n], v)
<1>1. DOMAIN f = {Fields[j] : j \in 1..n}
  BY DEF With, FileBefore, Last
<1>2. CASE n < Last
  <2>1. Fields[Last] \notin DOMAIN f
    BY <1>1, <1>2, FieldsType DEF Last
  <2>2. DOMAIN f # Keys
    BY <2>1, FieldsType DEF Last
  <2> QED
    BY <1>2, <2>2, LoadPartial
<1>3. CASE n = Last
  <2>1. Fields[n] = "ColorPalette"
    BY <1>3 DEF Fields, Last
  <2>2. v = <<s.color_palette>>
    BY <2>1, PaletteIsWhole
  <2>3. DOMAIN f = Keys
    BY <1>1, <1>3 DEF Keys
  <2>4. \A k \in Keys : f[k] = Values(s, k)
    <3> SUFFICES ASSUME NEW k \in Keys PROVE f[k] = Values(s, k)
      OBVIOUS
    <3>1. CASE k = "ColorPalette"
      BY <3>1, <2>1, <2>2 DEF With, Values
    <3>2. CASE k # "ColorPalette"
      <4>1. k \in {Fields[j] : j \in 1..(n - 1)}
        BY <3>2, <1>3 DEF Keys, Fields, Last
      <4> QED
        BY <4>1, <3>2, <2>1 DEF With, FileBefore
    <3> QED
      BY <3>1, <3>2
  <2>5. f = FileOf(s)
    BY <2>3, <2>4 DEF FileOf, With
  <2> QED
    BY <1>3, <2>5, LoadWhole
<1> QED
  BY <1>2, <1>3 DEF Last

------------------------------------------------------------------------------
(* The invariant. *)

\* A save writes the settings in RAM key by key, and whatever it leaves, a
\* start gives settings of the right shape.
IInv ==
    /\ TypeOK
    /\ Load(file) \in Settings
    /\ next # 0 => saving /\ file = FileBefore(settings, next)
    /\ saving => running /\ ~saved
    /\ SavedSurvives

\* Every save changes the settings within their type.
LEMMA AskCalls ==
    ASSUME TypeOK, Ask
    PROVE  \E s \in Settings : CallSave(s)
<1>1. CASE ChangeBrand
  <2>1. PICK b \in 0..(BrandCount - 2) : CallSave([settings EXCEPT !.default_brand = b])
    BY <1>1 DEF ChangeBrand
  <2>2. [settings EXCEPT !.default_brand = b] \in Settings
    BY CountAssumption DEF TypeOK, Settings, Brands
  <2> QED
    BY <2>1, <2>2
<1>2. CASE ChangeMode
  <2>1. PICK m \in Modes : CallSave([settings EXCEPT !.serial_mode = m])
    BY <1>2 DEF ChangeMode
  <2>2. [settings EXCEPT !.serial_mode = m] \in Settings
    BY DEF TypeOK, Settings
  <2> QED
    BY <2>1, <2>2
<1>3. CASE ChangePalette
  <2>1. PICK p \in Palettes : CallSave([settings EXCEPT !.color_palette = p])
    BY <1>3 DEF ChangePalette
  <2>2. [settings EXCEPT !.color_palette = p] \in Settings
    BY DEF TypeOK, Settings
  <2> QED
    BY <2>1, <2>2
<1>4. CASE EditWeight
  <2>1. PICK w \in Weights, n \in Lengths : CallSave([settings EXCEPT !.weight_len[w] = n])
    BY <1>4 DEF EditWeight
  <2>2. [settings EXCEPT !.weight_len[w] = n] \in Settings
    BY DEF TypeOK, Settings
  <2> QED
    BY <2>1, <2>2
<1>5. CASE BumpSerial
  <2>1. [settings EXCEPT !.serial_counter = settings.serial_counter + 1] \in Settings
    BY <1>5, CountAssumption DEF BumpSerial, TypeOK, Settings
  <2> QED
    BY <1>5, <2>1 DEF BumpSerial
<1> QED
  BY <1>1, <1>2, <1>3, <1>4, <1>5 DEF Ask

\* The key that is being written, whole or cut: the file has the right shape
\* and gives the defaults until the last key is there.
LEMMA WithType ==
    ASSUME IInv, next \in 1..Last, NEW v \in Cut(Values(settings, Fields[next]))
    PROVE  LET f == With(file, Fields[next], v)
           IN  /\ IsFile(f)
               /\ Load(f) = IF next = Last THEN settings ELSE Default
<1> DEFINE f == With(file, Fields[next], v)
<1>1. Fields[next] \in Keys /\ settings \in Settings
  BY FieldsType DEF IInv, TypeOK
<1>2. v \in Seq(Nat)
  BY <1>1, ValuesType, CutType
<1>3. DOMAIN f = DOMAIN file \cup {Fields[next]}
  BY DEF With
<1>4. \A k \in DOMAIN f : f[k] \in Seq(Nat)
  BY <1>2 DEF With, IInv, TypeOK, IsFile
<1>5. file = FileBefore(settings, next)
  BY DEF IInv, Last
<1>6. Load(f) = IF next = Last THEN settings ELSE Default
  BY <1>1, <1>5, LoadWritten
<1> QED
  BY <1>1, <1>3, <1>4, <1>6 DEF IInv, TypeOK, IsFile

\* What a save that does not return leaves behind.
LEMMA TornType ==
    ASSUME IInv, Torn
    PROVE  /\ IsFile(file')
           /\ \/ Load(file') = Load(file)
              \/ saving /\ Load(file') \in {Default, settings}
           /\ Load(file') \in Settings
<1>1. CASE UNCHANGED file
  BY <1>1 DEF IInv, TypeOK
<1>2. CASE /\ next \in 1..Last
           /\ \E v \in Cut(Values(settings, Fields[next])) :
                  file' = With(file, Fields[next], v)
  <2>1. saving
    BY <1>2 DEF IInv, Last
  <2> QED
    BY <1>2, <2>1, WithType, DefaultType DEF IInv, TypeOK
<1> QED
  BY <1>1, <1>2 DEF Torn

LEMMA InitIInv == Init => IInv
<1> SUFFICES ASSUME Init PROVE IInv
  OBVIOUS
<1> DEFINE Old == [FileOf(Default) EXCEPT !["Version"] = <<Version + 1>>]
<1>1. CASE file = NoFile
  <2>1. DOMAIN file = {}
    BY <1>1 DEF NoFile
  <2>2. Load(file) = Default
    BY <2>1, KeysAre, LoadPartial
  <2> QED
    BY <2>1, <2>2, DefaultType, PositionsAre DEF Init, IInv, TypeOK, IsFile, SavedSurvives
<1>2. CASE file = Old
  <2>1. DOMAIN file = Keys
    BY <1>2 DEF FileOf
  <2>2. \A k \in Keys : file[k] \in Seq(Nat)
    BY <1>2, DefaultType, ValuesType, CountAssumption DEF FileOf
  <2>3. file["Version"] = <<Version + 1>>
    BY <1>2, KeysAre DEF FileOf
  <2>4. <<Version + 1>> # <<Version>>
    BY CountAssumption
  <2>5. Load(file) = Default
    BY <2>3, <2>4 DEF Load, Readable
  <2> QED
    BY <2>1, <2>2, <2>5, DefaultType, PositionsAre DEF Init, IInv, TypeOK, IsFile, SavedSurvives
<1> QED
  BY <1>1, <1>2 DEF Init

\* No step breaks the invariant.
LEMMA NextIInv == IInv /\ [Next]_vars => IInv'
<1> SUFFICES ASSUME IInv, [Next]_vars PROVE IInv'
  OBVIOUS
<1>1. CASE Ask
  <2>1. PICK s \in Settings : CallSave(s)
    BY <1>1, AskCalls DEF IInv
  <2> QED
    BY <2>1, PositionsAre DEF CallSave, IInv, TypeOK, SavedSurvives
<1>2. CASE OpenAlways
  <2>1. DOMAIN file' = {} /\ file' = NoFile
    BY <1>2 DEF OpenAlways, NoFile
  <2>2. Load(file') = Default
    BY <2>1, KeysAre, LoadPartial
  <2>3. FileBefore(settings, 1) = NoFile
    BY DEF FileBefore, NoFile
  <2> QED
    BY <1>2, <2>1, <2>2, <2>3, DefaultType, PositionsAre DEF OpenAlways, IInv, TypeOK, IsFile, SavedSurvives
<1>3. CASE Write
  <2> DEFINE v == Values(settings, Fields[next])
  <2>1. v \in Cut(v)
    BY DEF Cut
  <2>2. file' = With(file, Fields[next], v) /\ next \in 1..Last
    BY <1>3 DEF Write
  <2>3. /\ IsFile(file')
        /\ Load(file') \in Settings
    BY <2>1, <2>2, WithType, DefaultType DEF IInv, TypeOK
  <2>4. file = FileBefore(settings, next)
    BY <2>2 DEF IInv, Last
  <2>5. file' = FileBefore(settings, next + 1)
    BY <2>2, <2>4, FieldsType DEF With, FileBefore, Last
  <2> QED
    BY <1>3, <2>2, <2>3, <2>5, PositionsAre DEF Write, IInv, TypeOK, SavedSurvives
<1>4. CASE SaveFails
  <2>1. ~saved
    BY <1>4 DEF SaveFails, IInv
  <2>2. Torn
    BY <1>4 DEF SaveFails
  <2>3. IsFile(file') /\ Load(file') \in Settings
    BY <2>2, TornType
  <2> QED
    BY <1>4, <2>1, <2>3, PositionsAre DEF SaveFails, IInv, TypeOK, SavedSurvives
<1>5. CASE SaveReturns
  <2>1. file = FileBefore(settings, Last + 1)
    BY <1>5 DEF SaveReturns, IInv, Last
  <2>2. file = FileOf(settings)
    BY <2>1 DEF FileBefore, FileOf, Keys, Last
  <2> QED
    BY <1>5, <2>2, LoadWhole, PositionsAre DEF SaveReturns, IInv, TypeOK, SavedSurvives
<1>6. CASE Crash
  <2>1. Torn
    BY <1>6 DEF Crash
  <2>2. /\ IsFile(file') /\ Load(file') \in Settings
        /\ ~saving => Load(file') = Load(file)
    BY <2>1, TornType
  <2> QED
    BY <1>6, <2>2, PositionsAre DEF Crash, IInv, TypeOK, SavedSurvives
<1>7. CASE Close
  BY <1>7 DEF Close, IInv, TypeOK, SavedSurvives
<1>8. CASE Launch
  BY <1>8 DEF Launch, IInv, TypeOK, SavedSurvives
<1>9. CASE UNCHANGED vars
  BY <1>9 DEF vars, IInv, TypeOK, SavedSurvives
<1> QED
  BY <1>1, <1>2, <1>3, <1>4, <1>5, <1>6, <1>7, <1>8, <1>9 DEF Next

LEMMA Invariance == Spec => []IInv
BY InitIInv, NextIInv, PTL DEF Spec

\* The settings, the keys of the file and the position of a save are always
\* of their types (cfs_settings_load gives no brand, mode or palette outside
\* the enumerations, however the file was left).
THEOREM TypeCorrect == Spec => []TypeOK
<1>1. IInv => TypeOK
  BY DEF IInv
<1> QED
  BY <1>1, Invariance, PTL

\* When cfs_settings_save has returned TRUE, cfs_settings_load gives the same
\* settings until the scenes save others.
THEOREM SaveIsDurable == Spec => []SavedSurvives
<1>1. IInv => SavedSurvives
  BY DEF IInv
<1> QED
  BY <1>1, Invariance, PTL

------------------------------------------------------------------------------
(* What a start would load, step by step. *)

\* A key that is written, or what a write that fails leaves, brings either the
\* defaults or all the settings that are being saved.
LEMMA LoadStep ==
    ASSUME IInv, [Next]_vars
    PROVE  \/ Load(file') = Load(file)
           \/ saving /\ Load(file') \in {Default, settings}
<1>1. CASE Ask
  <2>1. PICK s \in Settings : CallSave(s)
    BY <1>1, AskCalls DEF IInv
  <2> QED
    BY <2>1 DEF CallSave
<1>2. CASE OpenAlways
  <2>1. DOMAIN file' = {}
    BY <1>2 DEF OpenAlways, NoFile
  <2> QED
    BY <1>2, <2>1, KeysAre, LoadPartial DEF OpenAlways
<1>3. CASE Write
  <2> DEFINE v == Values(settings, Fields[next])
  <2>1. v \in Cut(v)
    BY DEF Cut
  <2>2. saving /\ file' = With(file, Fields[next], v) /\ next \in 1..Last
    BY <1>3 DEF Write
  <2> QED
    BY <2>1, <2>2, WithType
<1>4. CASE SaveFails \/ Crash
  <2>1. Torn
    BY <1>4 DEF SaveFails, Crash
  <2> QED
    BY <2>1, TornType
<1>5. CASE SaveReturns \/ Close \/ Launch \/ UNCHANGED vars
  BY <1>5 DEF SaveReturns, Close, Launch, vars
<1> QED
  BY <1>1, <1>2, <1>3, <1>4, <1>5 DEF Next

\* What a start would load only ever changes to the defaults or to all of what
\* is being saved, at every write, failed write and crash of cfs_settings_save.
THEOREM NoMixture == Spec => LoadedIsWhole
<1>1. IInv /\ [Next]_vars => [Load(file)' \in {Load(file), Default, settings}]_vars
  BY LoadStep
<1> QED
  BY <1>1, Invariance, PTL DEF Spec, LoadedIsWhole

------------------------------------------------------------------------------
(* The refinement. *)

\* Once the file is open it gives the defaults until the last key is written,
\* so a save that does not return leaves what a start would have loaded before
\* it ended, or all the settings.
LEMMA TornKeeps ==
    ASSUME IInv, Torn
    PROVE  Load(file') \in {Load(file), settings}
<1>1. CASE UNCHANGED file
  BY <1>1
<1>2. CASE /\ next \in 1..Last
           /\ \E v \in Cut(Values(settings, Fields[next])) :
                  file' = With(file, Fields[next], v)
  <2>1. DOMAIN file = {Fields[j] : j \in 1..(next - 1)}
    BY <1>2 DEF IInv, FileBefore, Last
  <2>2. Fields[Last] \notin DOMAIN file
    BY <1>2, <2>1, FieldsType DEF Last
  <2>3. Load(file) = Default
    BY <2>2, FieldsType, LoadPartial DEF Last
  <2>4. Load(file') \in {Default, settings}
    BY <1>2, WithType
  <2> QED
    BY <2>3, <2>4
<1> QED
  BY <1>1, <1>2 DEF Torn

LEMMA StoreInitially == Init => Store!StoreInit
<1> SUFFICES ASSUME Init PROVE Store!StoreInit
  OBVIOUS
<1>1. IInv /\ saved /\ ~saving
  BY InitIInv DEF Init
<1>2. Load(file) = settings
  BY <1>1 DEF IInv, SavedSurvives
<1> QED
  BY <1>2 DEF Init, Store!StoreInit

\* Every step of the file is a step of the store, or none.
LEMMA StoreStep ==
    ASSUME IInv, [Next]_vars
    PROVE  [Store!StoreNext]_(Store!storeVars)
<1> USE DEF Store!storeVars
<1>1. CASE Ask
  <2>1. PICK s \in Settings : CallSave(s)
    BY <1>1, AskCalls DEF IInv
  <2>2. Store!Change(s)
    BY <2>1 DEF CallSave, Store!Change
  <2> QED
    BY <2>2 DEF Store!StoreNext
<1>2. CASE OpenAlways
  <2>1. DOMAIN file' = {}
    BY <1>2 DEF OpenAlways, NoFile
  <2>2. Load(file') = Default
    BY <2>1, KeysAre, LoadPartial
  <2>3. Store!Truncate
    BY <1>2, <2>2 DEF OpenAlways, Store!Truncate
  <2> QED
    BY <2>3 DEF Store!StoreNext
<1>3. CASE Write
  <2>1. saving /\ UNCHANGED <<settings, saving, saved, running>>
    BY <1>3 DEF Write
  <2>2. Load(file') \in {Load(file), Default, settings}
    BY LoadStep
  <2>3. CASE Load(file') = Load(file)
    BY <2>1, <2>3
  <2>4. CASE Load(file') = Default
    <3>1. Store!Truncate
      BY <2>1, <2>4 DEF Store!Truncate
    <3> QED
      BY <3>1 DEF Store!StoreNext
  <2>5. CASE Load(file') = settings
    <3>1. Store!Persist
      BY <2>1, <2>5 DEF Store!Persist
    <3> QED
      BY <3>1 DEF Store!StoreNext
  <2> QED
    BY <2>2, <2>3, <2>4, <2>5
<1>4. CASE SaveFails
  <2>1. /\ saving /\ Torn /\ saving' = FALSE
        /\ UNCHANGED <<settings, saved, running>>
    BY <1>4 DEF SaveFails
  <2>2. CASE Load(file') \in {Load(file), settings}
    <3>1. Store!Abandon
      BY <2>1, <2>2 DEF Store!Abandon
    <3> QED
      BY <3>1 DEF Store!StoreNext
  <2>3. Load(file') \in {Load(file), settings}
    BY <2>1, TornKeeps
  <2> QED
    BY <2>2, <2>3
<1>5. CASE SaveReturns
  <2>1. file = FileBefore(settings, Last + 1)
    BY <1>5 DEF SaveReturns, IInv, Last
  <2>2. file = FileOf(settings)
    BY <2>1 DEF FileBefore, FileOf, Keys, Last
  <2>3. Load(file) = settings
    BY <2>2, LoadWhole DEF IInv, TypeOK
  <2>4. Store!Commit
    BY <1>5, <2>3 DEF SaveReturns, Store!Commit
  <2> QED
    BY <2>4 DEF Store!StoreNext
<1>6. CASE Crash \/ Close
  <2>1. /\ running /\ running' = FALSE /\ saving' = FALSE
        /\ UNCHANGED <<settings, saved>>
    BY <1>6 DEF Crash, Close, IInv, TypeOK
  <2>2. Load(file') \in IF saving THEN {Load(file), settings} ELSE {Load(file)}
    <3>1. CASE Crash
      BY <3>1, TornKeeps, TornType DEF Crash
    <3>2. CASE Close
      BY <3>2 DEF Close
    <3> QED
      BY <1>6, <3>1, <3>2
  <2>3. Store!Stop
    BY <2>1, <2>2 DEF Store!Stop
  <2> QED
    BY <2>3 DEF Store!StoreNext
<1>7. CASE Launch
  <2>1. Store!Start
    BY <1>7 DEF Launch, Store!Start
  <2> QED
    BY <2>1 DEF Store!StoreNext
<1>8. CASE UNCHANGED vars
  BY <1>8 DEF vars
<1> QED
  BY <1>1, <1>2, <1>3, <1>4, <1>5, <1>6, <1>7, <1>8 DEF Next

\* The file written key by key, with its failures and crashes, implements the
\* abstract store: a start gives all of one save or the defaults.
THEOREM StoreIsKept == Spec => KeepsStore
BY StoreInitially, StoreStep, Invariance, PTL DEF Spec, KeepsStore, Store!StoreSpec
==============================================================================
