---------------------------- MODULE CfsSpoolProofs ----------------------------
(***************************************************************************)
(* The safety properties of CfsSpool for every set of settings, every      *)
(* number space and every bound.  The inductive invariant has four parts   *)
(* besides the types: the store (StoreInv), one visit of WriteProgress     *)
(* (VisitInv), what the staging remembers of its beginning (OriginInv),    *)
(* and the numbers below the counter (CountInv).                           *)
(***************************************************************************)
EXTENDS CfsSpool, TLAPS

\* What the last save reported is what the next start gives.
StoreInv ==
    /\ saving => running
    /\ saved => ~saving /\ stored = settings

\* One visit of WriteProgress, from Write to Done.
VisitInv ==
    /\ run # "idle" => running /\ screen = "write"
    /\ screen \in {"write", "pause", "done"} =>
           \A i \in DOMAIN written : written[i] = Payload
    /\ screen = "write" =>
           /\ app.write_tag_index = 1 => app.dual_tag
           /\ run = "busy" => Len(written) = app.write_tag_index
           /\ run = "success" => /\ Len(written) = app.write_tag_index + 1
                                 /\ CountedIn(Payload) \subseteq onTags
    /\ screen = "pause" => app.dual_tag /\ Len(written) = 1
    /\ screen \in {"write", "pause"} => settings.serial_counter < MaxCounter
    /\ screen = "done" => Len(written) = IF app.dual_tag THEN 2 ELSE 1

Chosen == {"confirm", "write", "pause", "done", "failed"}

Staged == {"wizard", "weight", "serial"} \cup Chosen

\* The serial number is one the mode asks for.
ModeFits ==
    CASE settings.serial_mode = "sequential" -> pending.from = "counter"
      [] settings.serial_mode = "random"     -> pending.from = "random"
      [] settings.serial_mode = "prompt"     -> pending.from = "typed"
      [] settings.serial_mode = "keep"       ->
             IF origin = "new" THEN pending.from = "random" ELSE pending = loaded.serial

\* What a staging remembers of its beginning.
OriginInv ==
    /\ screen \in Staged =>
           /\ app.write_exact <=> origin = "clone"
           /\ app.has_source_serial <=> origin # "new"
           /\ origin = "edit" /\ settings.serial_mode = "keep" => pending = loaded.serial
           /\ origin = "clone" => screen \in Chosen /\ pending = loaded.serial
    /\ screen = "serial" => settings.serial_mode = "prompt"
    /\ screen \in Chosen /\ origin \in {"new", "edit"} => ModeFits

\* A number of the counter that is at most n, or another number.
AtMost(s, n) == s.from = "counter" => s.number <= n

\* No number in any place is past the counter.
CountInv ==
    Counting =>
        /\ \A n \in finished : n < settings.serial_counter
        /\ \A n \in onTags : n <= settings.serial_counter
        /\ AtMost(pending, settings.serial_counter)
        /\ AtMost(loaded.serial, settings.serial_counter)
        /\ AtMost(file.serial, settings.serial_counter)

IInv == TypeOK /\ StoreInv /\ VisitInv /\ OriginInv /\ CountInv

------------------------------------------------------------------------------
(* Serial numbers. *)

\* A counter is printed as a number of the space.
LEMMA CountedType ==
    ASSUME NEW n \in Nat
    PROVE  /\ Counted(n) \in SerialNumbers
           /\ Counted(n).from = "counter"
           /\ n < SerialSpace => Counted(n).number = n
<1>1. n % SerialSpace \in 0..(SerialSpace - 1)
  BY SpoolAssumption, SMT
<1>2. n < SerialSpace => n % SerialSpace = n
  BY SpoolAssumption, SMT
<1> QED
  BY <1>1, <1>2 DEF Counted, SerialNumbers, Kinds

\* The other numbers are not the counter's.
LEMMA UncountedType ==
    ASSUME NEW k \in Kinds \ {"counter"}
    PROVE  /\ Uncounted(k) \in SerialNumbers
           /\ Uncounted(k).from = k
           /\ \A n : AtMost(Uncounted(k), n)
BY SpoolAssumption DEF Uncounted, SerialNumbers, Kinds, AtMost

\* Encoding fields gives a payload with their number.
LEMMA EncodeType ==
    ASSUME NEW s \in SerialNumbers
    PROVE  Encode(s) \in Payloads /\ Encode(s).serial = s
BY SpoolAssumption DEF Encode, Payloads

\* A foreign payload has no number of the counter.
LEMMA ForeignType ==
    ASSUME NEW p \in ForeignPayloads
    PROVE  p \in Payloads /\ \A n : AtMost(p.serial, n)
<1>1. "source" \in Kinds \ {"counter"}
  BY DEF Kinds
<1> QED
  BY <1>1, UncountedType DEF ForeignPayloads, Payloads

\* A device that is off holds no number of the counter.
LEMMA NoPayloadType ==
    /\ Uncounted("default") \in SerialNumbers
    /\ NoPayload \in Payloads
    /\ \A n : AtMost(Uncounted("default"), n) /\ AtMost(NoPayload.serial, n)
<1>1. "default" \in Kinds \ {"counter"}
  BY DEF Kinds
<1> QED
  BY <1>1, UncountedType, EncodeType DEF NoPayload

\* What is written is a payload, with the number of the fields or of the source.
LEMMA PayloadType ==
    ASSUME TypeOK
    PROVE  /\ Payload \in Payloads
           /\ Payload.serial \in {loaded.serial, pending}
           /\ CountedIn(Payload) \subseteq 0..(SerialSpace - 1)
           /\ \A n \in CountedIn(Payload) :
                  Payload.serial.from = "counter" /\ n = Payload.serial.number
<1>1. Payload \in Payloads /\ Payload.serial \in {loaded.serial, pending}
  BY EncodeType DEF Payload, TypeOK
<1>2. Payload.serial \in SerialNumbers
  BY <1>1 DEF Payloads
<1> QED
  BY <1>1, <1>2 DEF CountedIn, SerialNumbers

------------------------------------------------------------------------------
(* The store's steps. *)

\* The settings are a record of a mode and a counter, and what a change makes
\* of them are settings too.
LEMMA SettingsType ==
    ASSUME settings \in Settings
    PROVE  /\ settings.serial_counter \in Nat /\ settings.serial_mode \in SerialModes
           /\ \A m \in SerialModes :
                  /\ NewMode(m) \in Settings
                  /\ NewMode(m).serial_counter = settings.serial_counter
           /\ settings.serial_counter < MaxCounter => Bumped \in Settings
           /\ Bumped.serial_mode = settings.serial_mode
           /\ Bumped.serial_counter = settings.serial_counter + 1
<1>1. settings \in [serial_mode : SerialModes, serial_counter : Nat]
  BY SettingsAssumption
<1>2. ASSUME NEW m \in SerialModes
      PROVE  NewMode(m) \in Settings /\ NewMode(m).serial_counter = settings.serial_counter
  <2>1. NewMode(m) = [serial_mode |-> m, serial_counter |-> settings.serial_counter]
    BY <1>1 DEF NewMode
  <2>2. [serial_mode |-> m, serial_counter |-> settings.serial_counter] \in Settings
    BY ClosedAssumption, Zenon
  <2> QED
    BY <2>1, <2>2
<1>3. Bumped = [serial_mode    |-> settings.serial_mode,
                serial_counter |-> settings.serial_counter + 1]
  BY <1>1 DEF Bumped
<1>4. settings.serial_counter < MaxCounter => Bumped \in Settings
  BY <1>3, ClosedAssumption
<1> QED
  BY <1>1, <1>2, <1>3, <1>4

------------------------------------------------------------------------------
(* The types. *)

\* The first state has the types.
LEMMA TypeInit == Init => TypeOK
<1> SUFFICES ASSUME Init PROVE TypeOK
  OBVIOUS
<1>1. StoreTypeOK
  BY DefaultAssumption DEF Init, StoreInit, StoreTypeOK
<1>2. loaded \in Payloads /\ pending \in SerialNumbers /\ file \in Payloads
  BY NoPayloadType, ForeignType DEF Init
<1>3. app \in [write_exact : BOOLEAN, has_source_serial : BOOLEAN,
              dual_tag : BOOLEAN, write_tag_index : {0, 1}]
  BY DEF Init, NoFlags
<1>4. written \in Seq(Payloads) /\ Len(written) <= 2
  BY DEF Init
<1> QED
  BY <1>1, <1>2, <1>3, <1>4 DEF Init, TypeOK, Screens

\* A step of the store, as it is composed with the scenes.
StoreMoves ==
    \/ UNCHANGED storeVars
    \/ Truncate \/ Persist \/ Commit \/ Abandon
    \/ Stop \/ Start
    \/ settings.serial_counter < MaxCounter /\ Change(Bumped)
    \/ \E m \in SerialModes : Change(NewMode(m))

\* Every step moves the store in one of these ways.
LEMMA NextMovesStore ==
    ASSUME VisitInv, [Next]_vars
    PROVE  StoreMoves
<1>1. CASE Finish
  BY <1>1 DEF Finish, VisitInv, StoreMoves, On
<1>2. CASE ChangeMode
  BY <1>2 DEF ChangeMode, StoreMoves
<1>3. CASE SaveGoesOn
  BY <1>3 DEF SaveGoesOn, StoreMoves
<1>4. CASE PowerOff \/ PowerOn
  BY <1>4 DEF PowerOff, PowerOn, StoreMoves
<1>5. CASE Obtain \/ SaveResult \/ SaveStaged \/ Staging \/ Back
  BY <1>5 DEF Obtain, SaveResult, SaveStaged, Staging, StageNew, Clone, Edit, StageLoaded,
              PickFields, PickWeight, TypeSerial, Back, StoreMoves
<1>6. CASE PressWrite \/ TagWritten \/ TagFailed \/ Pause \/ SecondTag \/ ShowFailure \/ PopupDone
  BY <1>6 DEF PressWrite, TagWritten, TagFailed, Pause, SecondTag, ShowFailure, PopupDone,
              StoreMoves
<1>7. CASE UNCHANGED vars
  BY <1>7 DEF vars, StoreMoves
<1> QED
  BY <1>1, <1>2, <1>3, <1>4, <1>5, <1>6, <1>7 DEF Next, Writing

\* A step of the store keeps its types.
LEMMA StoreTypeStep ==
    ASSUME StoreTypeOK, StoreMoves
    PROVE  StoreTypeOK'
<1>1. CASE UNCHANGED storeVars
  BY <1>1 DEF storeVars, StoreTypeOK
<1>2. CASE Truncate \/ Persist \/ Commit \/ Abandon
  BY <1>2, DefaultAssumption DEF Truncate, Persist, Commit, Abandon, StoreTypeOK
<1>3. CASE Stop \/ Start
  BY <1>3 DEF Stop, Start, StoreTypeOK
<1>4. ASSUME NEW s \in Settings, Change(s) PROVE StoreTypeOK'
  BY <1>4 DEF Change, StoreTypeOK
<1>5. CASE settings.serial_counter < MaxCounter /\ Change(Bumped)
  BY <1>4, <1>5, SettingsType DEF StoreTypeOK
<1>6. CASE \E m \in SerialModes : Change(NewMode(m))
  BY <1>4, <1>6, SettingsType DEF StoreTypeOK
<1> QED
  BY <1>1, <1>2, <1>3, <1>5, <1>6 DEF StoreMoves

\* TypeOK without the store.
SpoolTypeOK ==
    /\ screen \in Screens
    /\ loaded \in Payloads /\ file \in Payloads
    /\ pending \in SerialNumbers
    /\ app \in [write_exact : BOOLEAN, has_source_serial : BOOLEAN,
                dual_tag : BOOLEAN, write_tag_index : {0, 1}]
    /\ run \in {"idle", "busy", "success", "failure"}
    /\ origin \in {"none", "new", "clone", "edit"}
    /\ written \in Seq(Payloads) /\ Len(written) <= 2
    /\ onTags \subseteq 0..(SerialSpace - 1) /\ finished \subseteq onTags
    /\ lost \in BOOLEAN

\* Steps of the staging keep the types.
LEMMA StagingType ==
    ASSUME TypeOK, Obtain \/ SaveResult \/ SaveStaged \/ Staging
    PROVE  SpoolTypeOK'
<1> USE DEF TypeOK
<1>1. CASE Obtain
  BY <1>1, ForeignType DEF Obtain, SpoolTypeOK, Screens
<1>2. CASE SaveResult
  BY <1>2 DEF SaveResult, SpoolTypeOK
<1>3. CASE SaveStaged
  BY <1>3, EncodeType DEF SaveStaged, SpoolTypeOK
<1>4. CASE StageNew
  BY <1>4, NoPayloadType DEF StageNew, SpoolTypeOK, Screens
<1>5. CASE Clone \/ Edit
  <2>1. loaded.serial \in SerialNumbers
    BY DEF Payloads
  <2> QED
    BY <1>5, <2>1 DEF Clone, Edit, StageLoaded, SpoolTypeOK, Screens
<1>6. CASE PickFields
  BY <1>6 DEF PickFields, SpoolTypeOK, Screens
<1>7. CASE PickWeight
  <2>1. Counted(settings.serial_counter) \in SerialNumbers
    BY CountedType, SettingsType DEF StoreTypeOK
  <2>2. Uncounted("random") \in SerialNumbers
    BY UncountedType DEF Kinds
  <2>3. pending' \in SerialNumbers
    BY <1>7, <2>1, <2>2 DEF PickWeight
  <2>4. screen' \in Screens
    BY <1>7 DEF PickWeight, Screens
  <2> QED
    BY <1>7, <2>3, <2>4 DEF PickWeight, SpoolTypeOK
<1>8. CASE TypeSerial
  <2>1. Uncounted("typed") \in SerialNumbers
    BY UncountedType DEF Kinds
  <2> QED
    BY <1>8, <2>1 DEF TypeSerial, SpoolTypeOK, Screens
<1> QED
  BY <1>1, <1>2, <1>3, <1>4, <1>5, <1>6, <1>7, <1>8 DEF Staging

\* Steps of WriteProgress keep the types.
LEMMA WritingType ==
    ASSUME TypeOK, VisitInv, Writing
    PROVE  SpoolTypeOK'
<1> USE DEF TypeOK
<1>1. CASE PressWrite
  <2>1. PICK dual \in BOOLEAN : app' = [app EXCEPT !.dual_tag = dual, !.write_tag_index = 0]
    BY <1>1 DEF PressWrite
  <2>2. app' \in [write_exact : BOOLEAN, has_source_serial : BOOLEAN,
                 dual_tag : BOOLEAN, write_tag_index : {0, 1}]
    BY <2>1
  <2> QED
    BY <1>1, <2>2 DEF PressWrite, SpoolTypeOK, Screens
<1>2. CASE TagWritten
  <2>1. Len(written) \in {0, 1}
    BY <1>2 DEF TagWritten, VisitInv
  <2>2. written' \in Seq(Payloads) /\ Len(written') <= 2
    BY <1>2, <2>1, PayloadType DEF TagWritten
  <2>3. onTags' \subseteq 0..(SerialSpace - 1) /\ finished' \subseteq onTags'
    BY <1>2, PayloadType DEF TagWritten
  <2> QED
    BY <1>2, <2>2, <2>3 DEF TagWritten, SpoolTypeOK
<1>3. CASE TagFailed
  <2>1. onTags' \subseteq 0..(SerialSpace - 1) /\ finished' \subseteq onTags'
    BY <1>3, PayloadType DEF TagFailed
  <2> QED
    BY <1>3, <2>1 DEF TagFailed, SpoolTypeOK
<1>4. CASE Pause
  BY <1>4 DEF Pause, SpoolTypeOK, Screens
<1>5. CASE SecondTag
  BY <1>5 DEF SecondTag, SpoolTypeOK, Screens
<1>6. CASE Finish
  <2>1. finished' \subseteq onTags'
    <3>1. CountedIn(Payload) \subseteq onTags
      BY <1>6 DEF Finish, On, VisitInv
    <3> QED
      BY <1>6, <3>1 DEF Finish
  <2> QED
    BY <1>6, <2>1 DEF Finish, SpoolTypeOK, Screens
<1>7. CASE ShowFailure
  BY <1>7 DEF ShowFailure, SpoolTypeOK, Screens
<1>8. CASE PopupDone
  BY <1>8 DEF PopupDone, SpoolTypeOK, Screens
<1> QED
  BY <1>1, <1>2, <1>3, <1>4, <1>5, <1>6, <1>7, <1>8 DEF Writing

\* The other steps keep the types.
LEMMA OtherType ==
    ASSUME TypeOK, Back \/ ChangeMode \/ SaveGoesOn \/ PowerOff \/ PowerOn \/ UNCHANGED vars
    PROVE  SpoolTypeOK'
<1> USE DEF TypeOK
<1>1. CASE Back
  <2>1. screen' \in Screens
    BY <1>1 DEF Back, BackTo, Screens
  <2>2. origin' \in {"none", "new", "clone", "edit"}
    BY <1>1 DEF Back
  <2> QED
    BY <1>1, <2>1, <2>2 DEF Back, SpoolTypeOK
<1>2. CASE ChangeMode \/ SaveGoesOn \/ UNCHANGED vars
  BY <1>2 DEF ChangeMode, SaveGoesOn, vars, spoolVars, SpoolTypeOK
<1>3. CASE PowerOff
  BY <1>3, NoPayloadType DEF PowerOff, SpoolTypeOK, Screens, NoFlags
<1>4. CASE PowerOn
  BY <1>4 DEF PowerOn, SpoolTypeOK, Screens
<1> QED
  BY <1>1, <1>2, <1>3, <1>4

\* Every step keeps the types.
LEMMA TypeStep ==
    ASSUME TypeOK, VisitInv, [Next]_vars
    PROVE  TypeOK'
<1>1. StoreTypeOK'
  BY NextMovesStore, StoreTypeStep DEF TypeOK
<1>2. SpoolTypeOK'
  BY StagingType, WritingType, OtherType DEF Next
<1> QED
  BY <1>1, <1>2 DEF TypeOK, SpoolTypeOK

------------------------------------------------------------------------------
(* One visit of WriteProgress. *)

\* Away from WriteProgress the invariant says nothing.
LEMMA VisitAway ==
    ASSUME run' = "idle", screen' \notin {"write", "pause", "done"}
    PROVE  VisitInv'
BY DEF VisitInv

\* The payload of the next run depends on the staging alone.
LEMMA SamePayload ==
    ASSUME UNCHANGED <<loaded, pending>>, app'.write_exact = app.write_exact
    PROVE  Payload' = Payload
BY DEF Payload

\* Every step keeps VisitInv.
LEMMA VisitStep ==
    ASSUME TypeOK, VisitInv, [Next]_vars
    PROVE  VisitInv'
<1> USE DEF TypeOK
<1>1. CASE Obtain \/ SaveResult \/ SaveStaged \/ Staging \/ ShowFailure \/ PopupDone
  <2>1. run' = "idle" /\ screen' \notin {"write", "pause", "done"}
    BY <1>1 DEF Obtain, SaveResult, SaveStaged, Staging, StageNew, Clone, Edit, StageLoaded,
                PickFields, PickWeight, TypeSerial, ShowFailure, PopupDone, On, VisitInv
  <2> QED
    BY <2>1, VisitAway
<1>2. CASE Back
  <2>1. run' = "idle" /\ screen' \notin {"write", "pause", "done"}
    BY <1>2 DEF Back, BackTo
  <2> QED
    BY <2>1, VisitAway
<1>3. CASE ChangeMode \/ PowerOff
  <2>1. run' = "idle" /\ screen' \notin {"write", "pause", "done"}
    BY <1>3 DEF ChangeMode, PowerOff, On, spoolVars, VisitInv
  <2> QED
    BY <2>1, VisitAway
<1>4. CASE PressWrite
  <2>1. PICK dual \in BOOLEAN : app' = [app EXCEPT !.dual_tag = dual, !.write_tag_index = 0]
    BY <1>4 DEF PressWrite
  <2>2. app'.write_tag_index = 0
    BY <2>1
  <2> QED
    BY <1>4, <2>2 DEF PressWrite, On, VisitInv, storeVars
<1>5. CASE TagWritten
  <2>1. screen = "write" /\ Len(written) = app.write_tag_index /\ UNCHANGED <<app, screen>>
    BY <1>5 DEF TagWritten, VisitInv
  <2>2. Payload' = Payload
    BY <1>5, SamePayload DEF TagWritten
  <2>3. Payload \in Payloads /\ written' = Append(written, Payload)
    BY <1>5, PayloadType DEF TagWritten
  <2>4. Len(written') = app.write_tag_index + 1
    BY <2>1, <2>3
  <2>5. \A i \in DOMAIN written' : written'[i] = Payload'
    BY <2>1, <2>2, <2>3 DEF VisitInv
  <2>6. CountedIn(Payload)' \subseteq onTags'
    BY <1>5, <2>2 DEF TagWritten, CountedIn
  <2>7. settings' = settings /\ run' = "success" /\ running' = TRUE
    BY <1>5 DEF TagWritten, storeVars
  <2> QED
    BY <2>1, <2>4, <2>5, <2>6, <2>7 DEF VisitInv
<1>6. CASE TagFailed
  <2>1. screen = "write" /\ run' = "failure" /\ running'
           /\ UNCHANGED <<app, screen, written, settings, loaded, pending>>
    BY <1>6 DEF TagFailed, VisitInv, storeVars
  <2>2. Payload' = Payload
    BY <2>1, SamePayload
  <2> QED
    BY <2>1, <2>2 DEF VisitInv
<1>7. CASE Pause
  <2>1. /\ screen' = "pause" /\ run' = "idle" /\ screen = "write" /\ run = "success"
        /\ app.dual_tag /\ app.write_tag_index = 0
        /\ UNCHANGED <<app, written, settings, loaded, pending>>
    BY <1>7 DEF Pause, On, storeVars
  <2>2. Payload' = Payload
    BY <2>1, SamePayload
  <2> QED
    BY <2>1, <2>2 DEF VisitInv
<1>8. CASE SecondTag
  <2>1. /\ screen' = "write" /\ run' = "busy" /\ screen = "pause" /\ running'
        /\ app' = [app EXCEPT !.write_tag_index = 1]
        /\ UNCHANGED <<written, settings, loaded, pending>>
    BY <1>8 DEF SecondTag, On, storeVars
  <2>2. /\ app'.write_exact = app.write_exact /\ app'.dual_tag = app.dual_tag
        /\ app'.write_tag_index = 1
    BY <2>1
  <2>3. Payload' = Payload
    BY <2>1, <2>2, SamePayload
  <2> QED
    BY <2>1, <2>2, <2>3 DEF VisitInv
<1>9. CASE Finish
  <2>1. /\ screen' = "done" /\ run' = "idle" /\ screen = "write" /\ run = "success"
        /\ ~(app.dual_tag /\ app.write_tag_index = 0)
        /\ UNCHANGED <<app, written, loaded, pending>>
    BY <1>9 DEF Finish, On
  <2>2. Payload' = Payload
    BY <2>1, SamePayload
  <2>3. app.write_tag_index \in {0, 1} /\ app.dual_tag \in BOOLEAN
    OBVIOUS
  <2>4. Len(written) = app.write_tag_index + 1 /\ (app.write_tag_index = 1 => app.dual_tag)
    BY <2>1 DEF VisitInv
  <2>5. Len(written) = IF app.dual_tag THEN 2 ELSE 1
    BY <2>1, <2>3, <2>4
  <2> QED
    BY <2>1, <2>2, <2>5 DEF VisitInv
<1>10. CASE SaveGoesOn \/ UNCHANGED vars
  <2>1. UNCHANGED <<settings, running, screen, loaded, pending, app, run, written, onTags>>
    BY <1>10 DEF SaveGoesOn, Truncate, Persist, Commit, Abandon, vars, storeVars, spoolVars
  <2>2. Payload' = Payload /\ CountedIn(Payload)' = CountedIn(Payload)
    BY <2>1, SamePayload DEF CountedIn
  <2> QED
    BY <2>1, <2>2 DEF VisitInv
<1>11. CASE PowerOn
  <2>1. run' = "idle" /\ screen' = "start"
    BY <1>11 DEF PowerOn, Start, VisitInv
  <2> QED
    BY <2>1, VisitAway
<1> QED
  BY <1>1, <1>2, <1>3, <1>4, <1>5, <1>6, <1>7, <1>8, <1>9, <1>10, <1>11 DEF Next, Writing

------------------------------------------------------------------------------
(* What a staging remembers. *)

\* Out of the staging the invariant says nothing.
LEMMA OriginAway ==
    ASSUME screen' \notin Staged
    PROVE  OriginInv'
BY DEF OriginInv, Staged, Chosen

\* A step that keeps what the staging chose.
LEMMA OriginKept ==
    ASSUME OriginInv, screen \in Staged,
           UNCHANGED <<pending, loaded, origin>>,
           settings'.serial_mode = settings.serial_mode,
           app'.write_exact = app.write_exact,
           app'.has_source_serial = app.has_source_serial,
           screen' = "serial" => settings.serial_mode = "prompt",
           screen' \in Chosen => screen \in Chosen,
           origin = "clone" => screen' \in Chosen
    PROVE  OriginInv'
<1>1. ModeFits' = ModeFits
  BY DEF ModeFits
<1> QED
  BY <1>1 DEF OriginInv

\* The choice of the weight settles the serial number.
LEMMA PickWeightFits ==
    ASSUME TypeOK, OriginInv, PickWeight
    PROVE  OriginInv'
<1> DEFINE mode == settings.serial_mode
<1>1. settings.serial_counter \in Nat /\ mode \in {"random", "keep", "sequential", "prompt"}
  BY SettingsType, ModeAssumption DEF TypeOK, StoreTypeOK
<1>2. UNCHANGED <<settings, loaded, app, origin>> /\ screen = "weight"
  BY DEF PickWeight, On, storeVars
<1>3. /\ app.write_exact <=> origin = "clone"
      /\ app.has_source_serial <=> origin # "new"
      /\ origin = "edit" /\ mode = "keep" => pending = loaded.serial
      /\ origin # "clone"
  BY <1>2 DEF OriginInv, Staged, Chosen
<1>4. /\ mode = "sequential" => pending' = Counted(settings.serial_counter)
      /\ mode = "random" => pending' = Uncounted("random")
      /\ mode = "keep" /\ ~app.has_source_serial => pending' = Uncounted("random")
      /\ mode = "keep" /\ app.has_source_serial => pending' = pending
  BY <1>1 DEF PickWeight
<1>5. IF mode = "prompt" THEN screen' = "serial" ELSE screen' = "confirm"
  BY DEF PickWeight
<1>6. Counted(settings.serial_counter).from = "counter" /\ Uncounted("random").from = "random"
  BY <1>1, CountedType, UncountedType DEF Kinds
<1>7. origin = "edit" /\ mode = "keep" => pending' = loaded.serial
  BY <1>3, <1>4
<1>8. screen' \in Chosen /\ origin \in {"new", "edit"} => ModeFits'
  <2> SUFFICES ASSUME screen' \in Chosen, origin \in {"new", "edit"} PROVE ModeFits'
    OBVIOUS
  <2>1. mode # "prompt"
    BY <1>5 DEF Chosen
  <2>2. CASE mode = "sequential"
    BY <2>2, <1>2, <1>4, <1>6 DEF ModeFits
  <2>3. CASE mode = "random"
    BY <2>3, <1>2, <1>4, <1>6 DEF ModeFits
  <2>4. CASE mode = "keep"
    BY <2>4, <1>2, <1>3, <1>4, <1>6, <1>7 DEF ModeFits
  <2> QED
    BY <1>1, <2>1, <2>2, <2>3, <2>4
<1> QED
  BY <1>2, <1>3, <1>5, <1>7, <1>8 DEF OriginInv

\* Every step keeps OriginInv.
LEMMA OriginStep ==
    ASSUME TypeOK, OriginInv, [Next]_vars
    PROVE  OriginInv'
<1> USE DEF TypeOK
<1>1. CASE Obtain \/ SaveResult \/ PopupDone \/ ChangeMode \/ PowerOff \/ PowerOn
  <2>1. screen' \notin Staged
    BY <1>1 DEF Obtain, SaveResult, PopupDone, ChangeMode, PowerOff, PowerOn, On, spoolVars,
                Staged, Chosen
  <2> QED
    BY <2>1, OriginAway
<1>2. CASE StageNew \/ Clone \/ Edit
  <2>1. /\ app'.write_exact <=> origin' = "clone"
        /\ app'.has_source_serial <=> origin' # "new"
        /\ origin' \in {"edit", "clone"} => pending' = loaded'.serial
        /\ screen' \in IF origin' = "clone" THEN {"confirm"} ELSE {"wizard"}
    BY <1>2 DEF StageNew, Clone, Edit, StageLoaded
  <2> QED
    BY <2>1 DEF OriginInv, Chosen
<1>3. CASE PickWeight
  BY <1>3, PickWeightFits
<1>4. CASE TypeSerial
  <2>1. /\ UNCHANGED <<settings, loaded, app, origin>> /\ screen = "serial"
        /\ screen' = "confirm" /\ pending' = Uncounted("typed")
    BY <1>4 DEF TypeSerial, On, storeVars
  <2>2. settings.serial_mode = "prompt" /\ pending'.from = "typed"
    BY <2>1, UncountedType DEF OriginInv, Kinds
  <2>3. origin # "clone"
    BY <2>1 DEF OriginInv, Staged, Chosen
  <2> QED
    BY <2>1, <2>2, <2>3 DEF OriginInv, ModeFits, Staged
<1>5. CASE PickFields \/ SaveStaged \/ TagWritten \/ TagFailed \/ Pause \/ ShowFailure
  <2>1. UNCHANGED <<pending, loaded, origin, settings, app>>
    BY <1>5 DEF PickFields, SaveStaged, TagWritten, TagFailed, Pause, ShowFailure, storeVars
  <2>2. CASE screen \notin Staged
    BY <1>5, <2>2, OriginAway DEF PickFields, SaveStaged, TagWritten, TagFailed, Pause,
                                  ShowFailure, On, Staged, Chosen
  <2>3. CASE screen \in Staged
    <3>1. /\ screen' \in Chosen <=> screen \in Chosen
          /\ screen' = "serial" => screen = "serial"
      BY <1>5 DEF PickFields, SaveStaged, TagWritten, TagFailed, Pause, ShowFailure, On, Chosen
    <3> QED
      BY <2>1, <2>3, <3>1, OriginKept DEF OriginInv
  <2> QED
    BY <2>2, <2>3
<1>6. CASE PressWrite \/ SecondTag \/ Finish
  <2>1. UNCHANGED <<pending, loaded, origin>> /\ screen \in Chosen /\ screen' \in Chosen
    BY <1>6 DEF PressWrite, SecondTag, Finish, On, Chosen
  <2>2. settings'.serial_mode = settings.serial_mode
    BY <1>6, SettingsType DEF PressWrite, SecondTag, Finish, Change, storeVars, StoreTypeOK
  <2>3. app'.write_exact = app.write_exact /\ app'.has_source_serial = app.has_source_serial
    BY <1>6 DEF PressWrite, SecondTag, Finish
  <2>4. screen \in Staged /\ screen' # "serial"
    BY <2>1 DEF Staged, Chosen
  <2> QED
    BY <2>1, <2>2, <2>3, <2>4, OriginKept
<1>7. CASE Back
  <2>1. UNCHANGED <<pending, loaded, settings, app>> /\ screen' = BackTo[screen]
    BY <1>7 DEF Back, storeVars
  <2>2. CASE screen' \notin Staged
    BY <2>2, OriginAway
  <2>3. CASE screen' \in Staged
    <3>1. origin' = origin
      BY <1>7, <2>1, <2>3 DEF Back, Staged, Chosen
    <3>2. screen \in Staged /\ (screen' \in Chosen => screen \in Chosen)
      BY <1>7, <2>1, <2>3 DEF Back, BackTo, Staged, Chosen
    <3>3. screen' = "serial" => settings.serial_mode = "prompt"
      BY <1>7, <2>1 DEF Back, BackTo
    <3>4. origin = "clone" => screen' \in Chosen
      <4> SUFFICES ASSUME origin = "clone" PROVE screen' \in Chosen
        OBVIOUS
      <4>1. screen \in Chosen
        BY <3>2 DEF OriginInv
      <4> QED
        BY <4>1, <1>7, <2>1, <2>3 DEF Back, BackTo, Staged, Chosen
    <3> QED
      BY <2>1, <3>1, <3>2, <3>3, <3>4, OriginKept
  <2> QED
    BY <2>2, <2>3
<1>8. CASE SaveGoesOn \/ UNCHANGED vars
  <2>1. UNCHANGED <<pending, loaded, origin, settings, app, screen>>
    BY <1>8 DEF SaveGoesOn, Truncate, Persist, Commit, Abandon, vars, storeVars, spoolVars
  <2> QED
    BY <2>1 DEF OriginInv, ModeFits
<1> QED
  BY <1>1, <1>2, <1>3, <1>4, <1>5, <1>6, <1>7, <1>8 DEF Next, Staging, Writing

------------------------------------------------------------------------------
(* The store and the counter. *)

\* Every step keeps StoreInv.
LEMMA StoreStep ==
    ASSUME StoreInv, StoreMoves
    PROVE  StoreInv'
<1>1. CASE UNCHANGED storeVars
  BY <1>1 DEF storeVars, StoreInv
<1>2. CASE Truncate \/ Persist \/ Commit \/ Abandon
  BY <1>2 DEF Truncate, Persist, Commit, Abandon, StoreInv
<1>3. CASE Stop \/ Start
  BY <1>3 DEF Stop, Start, StoreInv
<1>4. ASSUME NEW s, Change(s) PROVE StoreInv'
  BY <1>4 DEF Change, StoreInv
<1> QED
  BY <1>1, <1>2, <1>3, <1>4 DEF StoreMoves

\* The counter goes back only in a start, and then it counts as lost: after a
\* save that reported success, a start gives the counter it had.
LEMMA CounterGrows ==
    ASSUME TypeOK, StoreInv, VisitInv, [Next]_vars, Counting'
    PROVE  /\ Counting
           /\ settings.serial_counter \in Nat /\ settings'.serial_counter \in Nat
           /\ settings.serial_counter <= settings'.serial_counter
<1>1. settings.serial_counter \in Nat /\ settings'.serial_counter \in Nat
  <2>1. settings \in Settings /\ settings' \in Settings
    BY TypeStep DEF TypeOK, StoreTypeOK
  <2> QED
    BY <2>1, SettingsAssumption
<1>2. StoreMoves
  BY NextMovesStore
<1>3. lost = FALSE /\ (Start => settings' = settings)
  <2>1. CASE PowerOn
    BY <2>1 DEF PowerOn, Start, Counting, TypeOK, StoreInv
  <2>2. CASE ~PowerOn
    <3>1. lost' = lost
      BY <2>2 DEF Next, Staging, Writing, Obtain, SaveResult, SaveStaged, StageNew, Clone, Edit,
                  StageLoaded, PickFields, PickWeight, TypeSerial, PressWrite, TagWritten,
                  TagFailed, Pause, SecondTag, Finish, ShowFailure, PopupDone, Back, ChangeMode,
                  SaveGoesOn, PowerOff, vars, spoolVars
    <3>2. ~Start \/ settings' = settings
      BY <2>2 DEF Next, Staging, Writing, Obtain, SaveResult, SaveStaged, StageNew, Clone, Edit,
                  StageLoaded, PickFields, PickWeight, TypeSerial, PressWrite, TagWritten,
                  TagFailed, Pause, SecondTag, Finish, ShowFailure, PopupDone, Back, ChangeMode,
                  SaveGoesOn, PowerOff, vars, storeVars, On, Start, Stop, Change,
                  Truncate, Persist, Commit, Abandon
    <3> QED
      BY <3>1, <3>2 DEF Counting, TypeOK
  <2> QED
    BY <2>1, <2>2
<1>4. settings.serial_counter <= settings'.serial_counter
  <2>1. CASE UNCHANGED settings
    BY <1>1, <2>1
  <2>2. CASE Change(Bumped)
    BY <1>1, <2>2, SettingsType DEF Change, TypeOK, StoreTypeOK
  <2>3. ASSUME NEW m \in SerialModes, Change(NewMode(m))
        PROVE  settings.serial_counter <= settings'.serial_counter
    BY <1>1, <2>3, SettingsType DEF Change, TypeOK, StoreTypeOK
  <2> QED
    BY <1>2, <1>3, <2>1, <2>2, <2>3
       DEF StoreMoves, storeVars, Truncate, Persist, Commit, Abandon, Stop
<1> QED
  <2>1. settings'.serial_counter < SerialSpace
    BY DEF Counting
  <2> QED
    BY <1>1, <1>3, <1>4, <2>1, SpoolAssumption DEF Counting

\* Every step keeps CountInv.
LEMMA CountStep ==
    ASSUME TypeOK, StoreInv, VisitInv, CountInv, [Next]_vars
    PROVE  CountInv'
<1> SUFFICES ASSUME Counting' PROVE CountInv'
  BY DEF CountInv
<1> DEFINE now == settings.serial_counter
<1> DEFINE then == settings'.serial_counter
<1>1. Counting /\ now \in Nat /\ then \in Nat /\ now <= then
  BY CounterGrows
<1>2. /\ \A n \in finished : n < now
      /\ \A n \in onTags : n <= now
      /\ AtMost(pending, now) /\ AtMost(loaded.serial, now) /\ AtMost(file.serial, now)
  BY <1>1 DEF CountInv
<1>3. finished \subseteq Nat /\ onTags \subseteq Nat
  BY SpoolAssumption DEF TypeOK
<1>4. ASSUME NEW s \in SerialNumbers, AtMost(s, now) PROVE AtMost(s, then)
  BY <1>1, <1>4, SpoolAssumption DEF AtMost, SerialNumbers
<1>5. pending \in SerialNumbers /\ loaded.serial \in SerialNumbers /\ file.serial \in SerialNumbers
  BY DEF TypeOK, Payloads
<1>6. AtMost(pending, then) /\ AtMost(loaded.serial, then) /\ AtMost(file.serial, then)
  BY <1>2, <1>4, <1>5
<1>7. \A n \in CountedIn(Payload) : n \in Nat /\ n <= now
  BY <1>1, <1>2, <1>5, PayloadType, SpoolAssumption DEF AtMost, SerialNumbers
<1>8. \A n \in onTags' : n <= then
  <2>1. onTags' \subseteq onTags \cup CountedIn(Payload)
    BY DEF Next, Staging, Writing, Obtain, SaveResult, SaveStaged, StageNew, Clone, Edit,
           StageLoaded, PickFields, PickWeight, TypeSerial, PressWrite, TagWritten,
           TagFailed, Pause, SecondTag, Finish, ShowFailure, PopupDone, Back, ChangeMode,
           SaveGoesOn, PowerOff, PowerOn, vars, spoolVars
  <2> QED
    BY <1>1, <1>2, <1>3, <1>7, <2>1
<1>9. \A n \in finished' : n < then
  <2>1. CASE Finish /\ settings.serial_mode = "sequential"
    <3>1. then = now + 1
      BY <2>1, SettingsType DEF Finish, Bumps, Change, TypeOK, StoreTypeOK
    <3>2. finished' = finished \cup CountedIn(Payload)
      BY <2>1 DEF Finish
    <3> QED
      BY <1>1, <1>2, <1>3, <1>7, <3>1, <3>2
  <2>2. CASE ~(Finish /\ settings.serial_mode = "sequential")
    <3>1. finished' = finished
      BY <2>2 DEF Next, Staging, Writing, Obtain, SaveResult, SaveStaged, StageNew, Clone, Edit,
                  StageLoaded, PickFields, PickWeight, TypeSerial, PressWrite, TagWritten,
                  TagFailed, Pause, SecondTag, Finish, ShowFailure, PopupDone, Back, ChangeMode,
                  SaveGoesOn, PowerOff, PowerOn, vars, spoolVars
    <3> QED
      BY <1>1, <1>2, <1>3, <3>1
  <2> QED
    BY <2>1, <2>2
<1>10. AtMost(pending', then)
  <2>1. CASE PickWeight
    <3>1. /\ now < SerialSpace
          /\ pending' \in {Counted(now), Uncounted("random"), pending}
      BY <1>1, <2>1 DEF PickWeight, Counting
    <3>2. AtMost(Counted(now), then)
      BY <1>1, <3>1, CountedType DEF AtMost
    <3>3. AtMost(Uncounted("random"), then)
      BY UncountedType DEF Kinds
    <3> QED
      BY <1>6, <3>1, <3>2, <3>3
  <2>2. CASE TypeSerial
    <3>1. AtMost(Uncounted("typed"), then)
      BY UncountedType DEF Kinds
    <3> QED
      BY <2>2, <3>1 DEF TypeSerial
  <2>3. CASE ~(PickWeight \/ TypeSerial)
    <3>1. pending' \in {pending, loaded.serial, Uncounted("default")}
      BY <2>3 DEF Next, Staging, Writing, Obtain, SaveResult, SaveStaged, StageNew, Clone, Edit,
                  StageLoaded, PickFields, PressWrite, TagWritten,
                  TagFailed, Pause, SecondTag, Finish, ShowFailure, PopupDone, Back, ChangeMode,
                  SaveGoesOn, PowerOff, PowerOn, vars, spoolVars
    <3> QED
      BY <1>6, <3>1, NoPayloadType
  <2> QED
    BY <2>1, <2>2, <2>3
<1>11. AtMost(loaded'.serial, then)
  <2>1. loaded' \in ForeignPayloads \cup {loaded, file, NoPayload}
    BY DEF Next, Staging, Writing, Obtain, SaveResult, SaveStaged, StageNew, Clone, Edit,
           StageLoaded, PickFields, PickWeight, TypeSerial, PressWrite, TagWritten,
           TagFailed, Pause, SecondTag, Finish, ShowFailure, PopupDone, Back, ChangeMode,
           SaveGoesOn, PowerOff, PowerOn, vars, spoolVars
  <2> QED
    BY <1>6, <2>1, ForeignType, NoPayloadType
<1>12. AtMost(file'.serial, then)
  <2>1. file' \in {file, loaded, Encode(pending)}
    BY DEF Next, Staging, Writing, Obtain, SaveResult, SaveStaged, StageNew, Clone, Edit,
           StageLoaded, PickFields, PickWeight, TypeSerial, PressWrite, TagWritten,
           TagFailed, Pause, SecondTag, Finish, ShowFailure, PopupDone, Back, ChangeMode,
           SaveGoesOn, PowerOff, PowerOn, vars, spoolVars
  <2> QED
    BY <1>5, <1>6, <2>1, EncodeType
<1> QED
  BY <1>8, <1>9, <1>10, <1>11, <1>12 DEF CountInv

------------------------------------------------------------------------------
(* The theorems. *)

\* The whole invariant holds of every behaviour.
LEMMA Invariant == Spec => []IInv
<1>1. Init => IInv
  <2> SUFFICES ASSUME Init PROVE IInv
    OBVIOUS
  <2>1. TypeOK
    BY TypeInit
  <2>2. StoreInv
    BY DEF Init, StoreInit, StoreInv
  <2>3. VisitInv
    BY DEF Init, VisitInv
  <2>4. OriginInv
    BY DEF Init, OriginInv, Staged, Chosen
  <2>5. CountInv
    <3>1. file \in ForeignPayloads /\ loaded = NoPayload /\ pending = Uncounted("default")
             /\ finished = {} /\ onTags = {}
      BY DEF Init
    <3> QED
      BY <3>1, ForeignType, NoPayloadType DEF CountInv
  <2> QED
    BY <2>1, <2>2, <2>3, <2>4, <2>5 DEF IInv
<1>2. IInv /\ [Next]_vars => IInv'
  <2> SUFFICES ASSUME IInv, [Next]_vars PROVE IInv'
    OBVIOUS
  <2>1. TypeOK /\ StoreInv /\ VisitInv /\ OriginInv /\ CountInv
    BY DEF IInv
  <2>2. TypeOK' /\ VisitInv' /\ OriginInv' /\ CountInv'
    BY <2>1, TypeStep, VisitStep, OriginStep, CountStep
  <2>3. StoreInv'
    BY <2>1, NextMovesStore, StoreStep
  <2> QED
    BY <2>2, <2>3 DEF IInv
<1> QED
  BY <1>1, <1>2, PTL DEF Spec

\* Every variable keeps its type, and a visit of WriteProgress writes at most
\* two tags, whenever the user leaves and comes back.
THEOREM TypeCorrect == Spec => []TypeOK
<1>1. IInv => TypeOK
  BY DEF IInv
<1> QED
  BY <1>1, Invariant, PTL

\* For every number space: the counter is past the numbers on the spools
\* finished in sequential mode and not behind that of any tag, over restarts, as
\* long as the saves that failed or were cut off lost nothing
\* (cfs_progress_bump_serial, cfs_settings_save).
THEOREM CounterStaysAhead == Spec => []CounterAhead
<1>1. IInv => CounterAhead
  BY DEF IInv, CountInv, CounterAhead
<1> QED
  BY <1>1, Invariant, PTL

\* The confirm screen of the wizard has the number the mode asks for
\* (cfs_scene_write_weight_on_event).
THEOREM SerialKeepsMode == Spec => []SerialComesFromMode
<1>1. IInv => SerialComesFromMode
  BY DEF IInv, OriginInv, ModeFits, Chosen, SerialComesFromMode
<1> QED
  BY <1>1, Invariant, PTL

\* Both tags of a spool get the same payload (cfs_progress_prompt).
THEOREM TagsAreAlike == Spec => []BothTagsAlike
<1>1. IInv => BothTagsAlike
  <2> SUFFICES ASSUME IInv, screen = "done"
               PROVE  /\ Len(written) = IF app.dual_tag THEN 2 ELSE 1
                      /\ \A i \in DOMAIN written :
                             written[i] = IF origin = "clone" THEN loaded ELSE Encode(pending)
    BY DEF BothTagsAlike
  <2>1. app.write_exact <=> origin = "clone"
    BY DEF IInv, OriginInv, Staged, Chosen
  <2>2. /\ Len(written) = IF app.dual_tag THEN 2 ELSE 1
        /\ \A i \in DOMAIN written : written[i] = Payload
    BY DEF IInv, VisitInv
  <2>3. Payload = IF origin = "clone" THEN loaded ELSE Encode(pending)
    BY <2>1 DEF Payload
  <2> QED
    BY <2>2, <2>3
<1> QED
  BY <1>1, Invariant, PTL

\* Save on the confirm screen keeps the spool that Write writes: a clone's fields
\* are those of its payload (cfs_app_save_pending).
THEOREM SaveKeepsTheSpool == Spec => SavedNamesTheSpool
<1>1. IInv /\ [Next]_vars =>
          [screen = "confirm" /\ file' # file => file' = Encode(Payload.serial)]_vars
  <2> SUFFICES ASSUME IInv, Next, screen = "confirm", file' # file
               PROVE  file' = Encode(Payload.serial)
    BY DEF vars
  <2>1. SaveStaged
    BY DEF Next, Staging, Writing, Obtain, SaveResult, StageNew, Clone, Edit, StageLoaded,
           PickFields, PickWeight, TypeSerial, PressWrite, TagWritten, TagFailed, Pause,
           SecondTag, Finish, ShowFailure, PopupDone, Back, ChangeMode, SaveGoesOn,
           PowerOff, PowerOn, spoolVars, On
  <2>2. file' = Encode(pending)
    BY <2>1 DEF SaveStaged
  <2>3. app.write_exact => pending = loaded.serial
    BY DEF IInv, OriginInv, Staged, Chosen
  <2>4. Payload.serial = pending
    BY <2>3 DEF Payload, Encode
  <2> QED
    BY <2>2, <2>4
<1> QED
  BY <1>1, Invariant, PTL DEF Spec, SavedNamesTheSpool
==============================================================================
