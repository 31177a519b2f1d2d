-------------------------- MODULE CfsAppPatientProofs --------------------------
(***************************************************************************)
(* What CfsApp keeps for a user who presses a key only when no event waits *)
(* that his screen did not send (~Hasty), for every number of records,     *)
(* names and waiting events: at most one event waits, so that each reaches *)
(* the screen it was sent for, and the CfsApp struct has what the scenes   *)
(* on the stack stand for.  A hasty user breaks each of these theorems.    *)
(***************************************************************************)
EXTENDS CfsAppProofs

\* What a scene is opened from.
Below(scene) ==
    CASE scene \in {"Read", "SavedTags", "EraseConfirm", "Settings", "Help", "About"} -> {"Start"}
      [] scene = "SavedEntry"       -> {"SavedTags"}
      [] scene = "EraseProgress"    -> {"EraseConfirm"}
      [] scene \in {"SettingsWeight", "DebugSelftest"} -> {"Settings"}
      [] scene = "HelpTopic"        -> {"Help"}
      [] scene = "ReadResult"       -> {"Read", "SavedEntry"}
      [] scene \in {"ReadRaw", "TagActions"} -> {"ReadResult"}
      [] scene = "WriteBrand"       -> {"Start", "TagActions", "SavedEntry"}
      [] scene = "WriteMaterial"    -> {"WriteBrand"}
      [] scene = "WriteColor"       -> {"WriteMaterial"}
      [] scene = "WriteColorCustom" -> {"WriteColor"}
      [] scene = "WriteWeight"      -> {"WriteColor", "WriteColorCustom"}
      [] scene = "WriteSerial"      -> {"WriteWeight"}
      [] scene = "WriteConfirm"     -> {"WriteWeight", "WriteSerial", "TagActions", "SavedEntry"}
      [] scene = "WriteProgress"    -> {"WriteConfirm"}
      [] scene = "SaveName"         -> {"ReadResult", "WriteConfirm"}
      [] scene = "SaveOverwrite"    -> {"SaveName"}
      [] OTHER                      -> {}

\* A scene is opened from a higher level only.
Level(scene) ==
    CASE scene = "Start" -> 0
      [] scene \in {"Read", "SavedTags", "EraseConfirm", "Settings", "Help", "About"} -> 1
      [] scene \in {"SavedEntry", "EraseProgress", "SettingsWeight", "DebugSelftest",
                    "HelpTopic"}   -> 2
      [] scene = "ReadResult"       -> 3
      [] scene \in {"ReadRaw", "TagActions"} -> 4
      [] scene = "WriteBrand"       -> 5
      [] scene = "WriteMaterial"    -> 6
      [] scene = "WriteColor"       -> 7
      [] scene = "WriteColorCustom" -> 8
      [] scene = "WriteWeight"      -> 9
      [] scene = "WriteSerial"      -> 10
      [] scene = "WriteConfirm"     -> 11
      [] scene \in {"WriteProgress", "SaveName"} -> 12
      [] OTHER                      -> 13

\* The stack s is a path from the menu down.
Ordered(s) ==
    /\ \A i \in DOMAIN s : i > 1 => s[i - 1] \in Below(s[i])
    /\ \A i, j \in DOMAIN s : i < j => Level(s[i]) < Level(s[j])

OrderInv == Ordered(stack) /\ Ordered(goto)

Wizard == {"WriteBrand", "WriteMaterial", "WriteColor", "WriteColorCustom", "WriteWeight",
           "WriteSerial"}

\* The struct a holds one whole record that was read or loaded.
Loaded(a) == a.tag_data = a.tag_plain /\ a.tag_data # NoContent

\* The struct a has what a scene opened from the scene below stands for.
Stands(scene, below, a) ==
    /\ scene = "Read" => ~a.result_read_only
    /\ scene = "SavedEntry" => Loaded(a) /\ ~a.is_blank
    /\ scene = "ReadResult" =>
          /\ a.result_read_only <=> below = "SavedEntry"
          /\ ~a.is_blank => Loaded(a)
    /\ scene = "TagActions" => Loaded(a)
    /\ scene \in Wizard => ~a.write_exact
    /\ scene = "WriteConfirm" /\ a.write_exact =>
          a.tag_plain = a.pending /\ a.tag_plain # NoContent

Fits(s, a) == \A i \in DOMAIN s : i > 1 => Stands(s[i], s[i - 1], a)

FitsInv == Fits(stack, app) /\ Fits(goto, app)

\* The run has handed over its event, or never will.
Over == thread \in {"exiting", "stopped"}

\* Where Back leads from a scene with a run, its event still waiting or not.
Returns == {"Start", "WriteConfirm", "EraseConfirm"}

Whole == wdata.tag_data = wdata.read_plain /\ wdata.tag_data # NoContent

\* The event e was sent by the scene on top, or by a run that was left behind.
Waits(e) ==
    \/ e.from = Top /\ e.code \in Sends(Top)
    \/ e.from = Top /\ Top \in WorkerScenes /\ e.code < 8 /\ popup = "none"
    \/ e.from \in WorkerScenes /\ e.code < 8 /\ Top \in Returns

OneEvent ==
    /\ Len(queue) <= 1
    /\ queue # <<>> => Over /\ call \in {"none", "stop"} /\ stack # <<>> /\ Waits(queue[1])

\* A read that reports a success has left one whole record, until it is taken.
WholeInv ==
    /\ queue # <<>> /\ queue[1].from = "Read" /\ queue[1].code = 0 => Whole
    /\ thread = "sending" /\ mode = "read" /\ result = "Success" => Whole

LeaveInv ==
    goto # <<>> =>
        /\ popup = "none" /\ Last(goto) \notin WorkerScenes
        /\ Last(goto) \in Returns \/ (queue = <<>> /\ Over)

PopupInv ==
    /\ call \in RunModes => Over
    /\ popup # "none" => /\ stack # <<>> /\ Over /\ call \notin RunModes
                         /\ Top \in {"WriteProgress", "EraseProgress"}
    /\ popup = "tag2" => Top = "WriteProgress"

OnSpool == stack # <<>> /\ Top = "WriteProgress" /\ goto = <<>>

\* How far the spool is: no tag written or one, or the pause between the two.
SpoolInv ==
    /\ ~OnSpool => spool = NewSpool
    /\ OnSpool /\ popup = "none" =>
          /\ spool.results = app.write_tag_index /\ spool.bumps = 0
          /\ app.write_tag_index = 1 => app.dual_tag
    /\ OnSpool /\ popup = "tag2" =>
          /\ spool.results = 1 /\ spool.bumps = 0
          /\ app.write_tag_index = 0 /\ app.dual_tag

PatientInv ==
    OrderInv /\ FitsInv /\ OneEvent /\ WholeInv /\ LeaveInv /\ PopupInv /\ SpoolInv

Patient == BaseInv /\ PatientInv

------------------------------------------------------------------------------
(* Paths of scenes. *)

\* The way down leads down.
LEMMA BelowFacts ==
    \A x \in Scenes :
        /\ Level(x) \in 0..13
        /\ \A y \in Below(x) : y \in Scenes /\ Level(y) < Level(x)
<1> SUFFICES ASSUME NEW x \in Scenes
             PROVE  /\ Level(x) \in 0..13
                    /\ \A y \in Below(x) : y \in Scenes /\ Level(y) < Level(x)
  OBVIOUS
<1>1. Level(x) \in 0..13
  BY DEF Level
<1>2. \A y \in Below(x) : y \in Scenes
  BY DEF Below, Scenes
<1>3. \A y \in Below(x) : Level(y) < Level(x)
  BY DEF Below, Level, Scenes
<1> QED
  BY <1>1, <1>2, <1>3

LEMMA PrefixOrdered ==
    ASSUME stack \in Stacks, NEW k \in 1..Len(stack), Ordered(stack), NEW a, Fits(stack, a)
    PROVE  Ordered(SubSeq(stack, 1, k)) /\ Fits(SubSeq(stack, 1, k), a)
<1> DEFINE s == SubSeq(stack, 1, k)
<1>1. Len(stack) \in Nat /\ DOMAIN stack = 1..Len(stack)
  BY StackLen
<1>2. s \in Stacks /\ Len(s) = k /\ \A i \in 1..k : s[i] = stack[i]
  BY PrefixIs
<1>3. DOMAIN s = 1..k
  BY <1>2, StackLen
<1> HIDE DEF s
<1>4. \A i \in DOMAIN s : i > 1 => i - 1 \in DOMAIN s
  BY <1>3
<1>5. \A i \in DOMAIN s : i \in DOMAIN stack /\ s[i] = stack[i]
  BY <1>1, <1>2, <1>3
<1>6. Ordered(s)
  BY <1>4, <1>5 DEF Ordered
<1>7. Fits(s, a)
  BY <1>4, <1>5 DEF Fits
<1> QED
  BY <1>6, <1>7 DEF s

LEMMA PushOrdered ==
    ASSUME stack \in Stacks, NEW x \in Scenes \ {"Start"}, Ordered(stack), Top \in Below(x),
           NEW a, Fits(stack, a)
    PROVE  Ordered(Push(x)) /\ (Stands(x, Top, a) => Fits(Push(x), a))
<1> DEFINE s == Push(x)
           n == Len(stack)
<1>1. /\ n \in Nat /\ n >= 1 /\ DOMAIN stack = 1..n /\ Top = stack[n]
      /\ \A i \in 1..n : stack[i] \in Scenes
  BY StackLen DEF Top, Last
<1>2. s \in Stacks /\ Len(s) = n + 1 /\ s[n + 1] = x /\ \A i \in 1..n : s[i] = stack[i]
  BY PushIs
<1>3. DOMAIN s = 1..(n + 1)
  BY <1>2, StackLen
<1> HIDE DEF s, n
<1>4. ASSUME NEW i \in 1..(n + 1), i > 1
      PROVE  /\ s[i - 1] \in Below(s[i])
             /\ Stands(x, Top, a) => Stands(s[i], s[i - 1], a)
             /\ i - 1 \in 1..n /\ s[i - 1] = stack[i - 1]
  <2>1. i - 1 \in 1..n
    BY <1>1, <1>4
  <2>2. CASE i \in 1..n
    <3>1. s[i] = stack[i] /\ s[i - 1] = stack[i - 1]
      BY <1>2, <2>1, <2>2
    <3> QED
      BY <1>1, <1>4, <2>1, <2>2, <3>1 DEF Ordered, Fits
  <2>3. CASE i = n + 1
    <3>1. i - 1 = n
      BY <1>1, <2>3
    <3>2. s[i] = x /\ s[i - 1] = Top
      BY <1>1, <1>2, <2>1, <2>3, <3>1
    <3> QED
      BY <1>1, <2>1, <3>1, <3>2
  <2> QED
    BY <1>1, <2>2, <2>3
<1>5. Level(Top) < Level(x) /\ Level(x) \in Nat /\ \A i \in 1..n : Level(stack[i]) \in Nat
  BY <1>1, BelowFacts
<1>6. \A i \in 1..n : Level(stack[i]) < Level(x)
  <2> SUFFICES ASSUME NEW i \in 1..n PROVE Level(stack[i]) < Level(x)
    OBVIOUS
  <2>1. i = n \/ Level(stack[i]) < Level(stack[n])
    BY <1>1 DEF Ordered
  <2> QED
    BY <1>1, <1>5, <2>1
<1>7. ASSUME NEW i \in 1..(n + 1), NEW j \in 1..(n + 1), i < j
      PROVE  Level(s[i]) < Level(s[j])
  <2>1. i \in 1..n
    BY <1>1, <1>7
  <2>2. CASE j \in 1..n
    <3>1. s[i] = stack[i] /\ s[j] = stack[j]
      BY <1>2, <2>1, <2>2
    <3> QED
      BY <1>1, <1>7, <2>1, <2>2, <3>1 DEF Ordered
  <2>3. CASE j = n + 1
    BY <1>2, <1>6, <2>1, <2>3
  <2> QED
    BY <1>1, <2>2, <2>3
<1>8. Ordered(s)
  BY <1>3, <1>4, <1>7 DEF Ordered
<1>9. Stands(x, Top, a) => Fits(s, a)
  BY <1>3, <1>4 DEF Fits
<1> QED
  BY <1>8, <1>9 DEF s

\* The scene below the top of a path.
LEMMA TopIs ==
    ASSUME NEW s \in Stacks, Ordered(s), Last(s) # "Start", NEW a, Fits(s, a)
    PROVE  /\ Len(s) \in Nat /\ Len(s) > 1 /\ Len(s) - 1 \in 1..Len(s)
           /\ s[Len(s) - 1] \in Below(Last(s)) /\ Stands(Last(s), s[Len(s) - 1], a)
           /\ s[Len(s) - 1] = "Start" => Len(s) = 2
<1> DEFINE n == Len(s)
<1>1. n \in Nat /\ n >= 1 /\ DOMAIN s = 1..n /\ s[1] = "Start" /\ Last(s) = s[n]
  BY StackLen DEF Last
<1>2. n # 1
  BY <1>1
<1>3. n \in DOMAIN s /\ n - 1 \in DOMAIN s /\ n > 1
  BY <1>1, <1>2
<1>4. s[n - 1] \in Below(s[n]) /\ Stands(s[n], s[n - 1], a)
  BY <1>3 DEF Ordered, Fits
<1>5. s[n - 1] = "Start" => n - 1 = 1
  BY <1>3 DEF Stacks, Rooted
<1> QED
  BY <1>1, <1>3, <1>4, <1>5

\* No scene on a path is of a lower level than its end.
LEMMA LevelsAbove ==
    ASSUME stack \in Stacks, Ordered(stack)
    PROVE  \A j \in 1..Len(stack) : Level(stack[j]) <= Level(Top)
<1> DEFINE n == Len(stack)
<1> SUFFICES ASSUME NEW j \in 1..n PROVE Level(stack[j]) <= Level(Top)
  OBVIOUS
<1>1. /\ n \in Nat /\ n \in 1..n /\ DOMAIN stack = 1..n /\ Top = stack[n]
      /\ \A i \in 1..n : stack[i] \in Scenes
  BY StackLen DEF Top, Last
<1> HIDE DEF n
<1>2. Level(stack[j]) \in Nat /\ Level(stack[n]) \in Nat
  BY <1>1, BelowFacts
<1>3. j = n \/ j < n
  BY <1>1
<1>4. j < n => Level(stack[j]) < Level(stack[n])
  BY <1>1 DEF Ordered
<1> QED
  BY <1>1, <1>2, <1>3, <1>4

\* A path that ends one level below the menu.
LEMMA ShortIs ==
    ASSUME NEW s \in Stacks, Ordered(s), Last(s) \in {"Read", "SavedTags"}
    PROVE  Len(s) = 2 /\ DOMAIN s = 1..2 /\ s[2] = Last(s) /\ s[1] = "Start"
<1> DEFINE n == Len(s)
<1>1. n \in Nat /\ n >= 1 /\ DOMAIN s = 1..n /\ s[1] = "Start" /\ Last(s) = s[n]
  BY StackLen DEF Last
<1>2. n \in DOMAIN s /\ n - 1 \in DOMAIN s /\ n > 1
  BY <1>1
<1>3. s[n - 1] \in Below(s[n])
  BY <1>2 DEF Ordered
<1>4. s[n - 1] = "Start"
  BY <1>1, <1>3 DEF Below
<1>5. n - 1 = 1
  BY <1>2, <1>4 DEF Stacks, Rooted
<1> QED
  BY <1>1, <1>5

------------------------------------------------------------------------------
(* The struct. *)

\* What Stands looks at is the same, or the write became one from fields.
LEMMA FitsSame ==
    ASSUME NEW s, NEW a, NEW b, Fits(s, a),
           /\ b.tag_data = a.tag_data /\ b.tag_plain = a.tag_plain /\ b.is_blank = a.is_blank
           /\ b.result_read_only = a.result_read_only,
           ~b.write_exact \/ (b.write_exact = a.write_exact /\ b.pending = a.pending)
    PROVE  Fits(s, b)
<1>1. ASSUME NEW x, NEW y, Stands(x, y, a) PROVE Stands(x, y, b)
  BY <1>1 DEF Stands, Loaded
<1> QED
  BY <1>1 DEF Fits

\* on_enter leaves the struct fit for the path to the scene it enters.
LEMMA EnteredFits ==
    ASSUME NEW s \in Stacks, Ordered(s), NEW a \in AppType, Last(s) = "Read" \/ Fits(s, a)
    PROVE  Fits(s, Entered(Last(s), a))
<1> DEFINE b == Entered(Last(s), a)
<1>1. CASE Last(s) = "Read"
  <2>1. DOMAIN s = 1..2 /\ s[2] = "Read"
    BY <1>1, ShortIs
  <2>2. ~b.result_read_only
    BY <1>1 DEF Entered, AppType
  <2>3. Stands("Read", s[1], b)
    BY <2>2 DEF Stands, Wizard
  <2>4. \A i \in 1..2 : i > 1 => i = 2 /\ i - 1 = 1
    OBVIOUS
  <2> HIDE DEF b
  <2>5. Fits(s, b)
    BY <2>1, <2>3, <2>4 DEF Fits
  <2> QED
    BY <2>5 DEF b
<1>2. CASE Last(s) = "WriteProgress"
  <2>1. b = [a EXCEPT !.write_tag_index = 0]
    BY <1>2 DEF Entered
  <2>2. /\ b.tag_data = a.tag_data /\ b.tag_plain = a.tag_plain /\ b.is_blank = a.is_blank
        /\ b.result_read_only = a.result_read_only
        /\ b.write_exact = a.write_exact /\ b.pending = a.pending
    BY <2>1 DEF AppType
  <2> HIDE DEF b
  <2>3. Fits(s, b)
    BY <1>2, <2>2, FitsSame
  <2> QED
    BY <2>3 DEF b
<1>3. CASE Last(s) \notin {"Read", "WriteProgress"}
  <2>1. b = a
    BY <1>3 DEF Entered
  <2> QED
    BY <1>3, <2>1
<1> QED
  BY <1>1, <1>2, <1>3

------------------------------------------------------------------------------
(* Steps of the scene manager. *)

\* What the screens with a run can send.
LEMMA RunSends ==
    /\ Sends("Read") = {} /\ Sends("EraseProgress") = {}
    /\ \A c \in Sends("WriteProgress") : popup = "tag2" /\ c = ButtonWriteTag2
BY DEF Sends

LEMMA NoPath == Ordered(<<>>) /\ \A a : Fits(<<>>, a)
BY DEF Ordered, Fits

\* A scene without a run is left; the one opened may start one.
LEMMA GoFromScreen ==
    ASSUME Patient, Acts, Top \notin WorkerScenes, queue' = <<>>,
           NEW s \in Stacks, NEW a \in AppType, Go(s, a), Ordered(s),
           Last(s) = "Read" \/ Fits(s, a)
    PROVE  PatientInv'
<1>1. /\ popup' = "none" /\ stack' = s /\ app' = Entered(Last(s), a) /\ goto' = goto
      /\ spool' = spool
      /\ CASE Last(s) = "WriteProgress" -> StartWrite(a)
           [] Last(s) \in WorkerScenes \ {"WriteProgress"} ->
                CallStart(ModeOf[Last(s)]) /\ UNCHANGED wdata
           [] OTHER -> UNCHANGED <<workerVars, wdata>>
  BY DEF Go, Stops
<1>2. goto = <<>> /\ thread = "stopped"
  BY ActsFacts DEF Patient
<1>3. thread' = thread
  BY <1>1 DEF StartWrite, CallStart, workerVars
<1>4. OrderInv'
  BY <1>1, <1>2, NoPath DEF OrderInv
<1>5. FitsInv'
  BY <1>1, <1>2, NoPath, EnteredFits DEF FitsInv
<1>6. OneEvent' /\ WholeInv' /\ LeaveInv'
  BY <1>1, <1>2, <1>3 DEF OneEvent, WholeInv, LeaveInv
<1>7. PopupInv'
  BY <1>1, <1>2, <1>3 DEF PopupInv, Over
<1>8. SpoolInv'
  <2>1. spool' = NewSpool
    BY <1>1, SceneFacts DEF Patient, PatientInv, SpoolInv, OnSpool
  <2>2. OnSpool' => app'.write_tag_index = 0
    BY <1>1 DEF OnSpool, Top, Entered, AppType
  <2> QED
    BY <1>1, <2>1, <2>2 DEF SpoolInv, NewSpool
<1> QED
  BY <1>4, <1>5, <1>6, <1>7, <1>8 DEF PatientInv

\* A scene with a run is left: the run is told to stop and waited for.
LEMMA GoFromRun ==
    ASSUME Patient, Acts, Top \in WorkerScenes,
           NEW s \in Stacks, NEW a \in AppType, Go(s, a), Ordered(s), Fits(s, a),
           Fits(stack, a), Last(s) \notin WorkerScenes,
           \/ queue' = <<>> /\ Over
           \/ /\ Last(s) \in Returns /\ queue' = queue
              /\ queue # <<>> => queue[1].from = Top /\ queue[1].code < 8
    PROVE  PatientInv'
<1>1. /\ popup' = "none" /\ CallStop /\ goto' = s /\ app' = a /\ spool' = NewSpool
      /\ stack' = stack /\ wdata' = wdata
  BY DEF Go, Stops
<1>2. call' = "stop" /\ UNCHANGED <<thread, mode, result>>
  BY <1>1 DEF CallStop
<1>3. s # <<>>
  BY DEF Stacks
<1>4. OrderInv'
  BY <1>1 DEF Patient, PatientInv, OrderInv
<1>5. FitsInv'
  BY <1>1 DEF FitsInv
<1>6. OneEvent'
  <2>1. CASE queue' = <<>>
    BY <2>1 DEF OneEvent
  <2>2. CASE queue' = queue /\ queue # <<>>
                /\ queue[1].from = Top /\ queue[1].code < 8
    BY <1>1, <1>2, <2>2 DEF Patient, PatientInv, OneEvent, Waits, Over, Acts, Top
  <2> QED
    BY <2>1, <2>2
<1>7. WholeInv'
  BY <1>1, <1>2 DEF Patient, PatientInv, WholeInv, Whole
<1>8. LeaveInv'
  BY <1>1, <1>2 DEF LeaveInv, Over, Returns
<1>9. PopupInv'
  BY <1>1, <1>2, SceneFacts DEF PopupInv
<1>10. SpoolInv'
  BY <1>1, <1>3 DEF SpoolInv, OnSpool
<1> QED
  BY <1>4, <1>5, <1>6, <1>7, <1>8, <1>9, <1>10 DEF PatientInv

\* An event is taken: it was the only one.
LEMMA TakeAlone ==
    ASSUME Patient, NEW scene, Take(scene)
    PROVE  /\ Acts /\ Top = scene /\ stack \in Stacks /\ goto = <<>> /\ app \in AppType
           /\ queue' = <<>> /\ Over /\ Waits(queue[1]) /\ Code = queue[1].code
           /\ Ordered(stack) /\ Fits(stack, app) /\ queue # <<>> /\ Len(queue) = 1
<1>1. /\ Acts /\ Top = scene /\ queue # <<>> /\ queue' = Tail(queue)
      /\ stack \in Stacks /\ goto = <<>> /\ app \in AppType
  BY TakeFacts DEF Patient
<1>2. queue \in Seq(Queued) /\ Len(queue) <= 1
  BY DEF Patient, BaseInv, TypeInv, PatientInv, OneEvent
<1>3. Head(queue) = queue[1] /\ Len(queue) = 1 /\ Tail(queue) = <<>>
  <2>1. Len(queue) \in Nat /\ Len(queue) # 0
    BY <1>1, <1>2, EmptySeq, LenProperties
  <2>2. Len(queue) = 1
    BY <1>2, <2>1
  <2>3. Tail(queue) \in Seq(Queued) /\ Len(Tail(queue)) = Len(queue) - 1
    BY <1>1, <1>2, HeadTailProperties
  <2>4. Tail(queue) = <<>>
    <3>1. \A t \in Seq(Queued) : Len(t) = 0 => t = <<>>
      BY EmptySeq
    <3>2. Len(Tail(queue)) = 0
      BY <2>2, <2>3
    <3> QED
      BY <2>3, <3>1, <3>2, Zenon
  <2>5. Head(queue) = queue[1]
    BY <1>1, <1>2
  <2> QED
    BY <2>2, <2>4, <2>5
<1> QED
  BY <1>1, <1>2, <1>3 DEF Patient, PatientInv, OneEvent, OrderInv, FitsInv, Code

\* An event of a screen without a run opens a scene.
LEMMA OpensPatient ==
    ASSUME Patient, NEW from, from \notin WorkerScenes, NEW code,
           NEW to \in Scenes \ {"Start"}, from \in Below(to),
           NEW a \in AppType, Opens(from, code, to, a), Fits(stack, a),
           to = "Read" \/ Stands(to, from, a)
    PROVE  PatientInv'
<1>1. Take(from) /\ Go(Push(to), a)
  BY DEF Opens
<1>2. Acts /\ Top = from /\ stack \in Stacks /\ queue' = <<>> /\ Ordered(stack)
  BY <1>1, TakeAlone
<1>3. /\ Push(to) \in Stacks /\ Ordered(Push(to)) /\ Last(Push(to)) = to
      /\ to = "Read" \/ Fits(Push(to), a)
  BY <1>2, PushIs, PushOrdered
<1> QED
  BY <1>1, <1>2, <1>3, GoFromScreen

\* The stack of a screen without a run is cut back.
LEMMA CutPatient ==
    ASSUME Patient, Acts, Top \notin WorkerScenes, queue' = <<>>,
           NEW k \in 1..Len(stack), Go(SubSeq(stack, 1, k), app)
    PROVE  PatientInv'
<1>1. stack \in Stacks /\ app \in AppType /\ Ordered(stack) /\ Fits(stack, app)
  BY ActsFacts DEF Patient, BaseInv, TypeInv, PatientInv, OrderInv, FitsInv
<1>2. /\ SubSeq(stack, 1, k) \in Stacks /\ Ordered(SubSeq(stack, 1, k))
      /\ Fits(SubSeq(stack, 1, k), app)
  BY <1>1, PrefixIs, PrefixOrdered
<1> QED
  BY <1>1, <1>2, GoFromScreen

\* The scene stays, its popup perhaps opening.
LEMMA StayPatient ==
    ASSUME Patient, NEW scene, Take(scene), NEW p, Stay(app, p),
           p # "none" => scene \in {"WriteProgress", "EraseProgress"},
           p = "tag2" => scene = "WriteProgress",
           SpoolInv'
    PROVE  PatientInv'
<1>1. /\ app' = app /\ popup' = p
      /\ UNCHANGED <<thread, mode, stop, call, result, stack, goto, wdata>>
  BY DEF Stay, workerVars
<1>2. Acts /\ Top = scene /\ goto = <<>> /\ queue' = <<>> /\ Over
  BY TakeAlone
<1>3. OrderInv' /\ FitsInv' /\ OneEvent' /\ LeaveInv'
  BY <1>1, <1>2 DEF Patient, PatientInv, OrderInv, FitsInv, OneEvent, LeaveInv
<1>4. WholeInv'
  BY <1>1, <1>2 DEF WholeInv, Over
<1>5. PopupInv'
  BY <1>1, <1>2, SceneFacts DEF PopupInv, Over, Acts, Top
<1> QED
  BY <1>3, <1>4, <1>5 DEF PatientInv

------------------------------------------------------------------------------
(* The handlers. *)

\* The struct as the handlers leave it fits the stack as before.
LEMMA StructFits ==
    ASSUME NEW s, app \in AppType, Fits(s, app)
    PROVE  /\ Fits(s, Fresh) /\ Fits(s, Staged(FALSE))
           /\ ~app.write_exact => Fits(s, Edited)
           /\ \A d \in BOOLEAN : Fits(s, [app EXCEPT !.dual_tag = d])
           /\ \A f \in BOOLEAN, n \in Names :
                 Fits(s, [app EXCEPT !.save_from_write = f, !.save_name = n])
           /\ \A n \in Names : Fits(s, [app EXCEPT !.save_name = n])
           /\ \A k \in 0..1 : Fits(s, [app EXCEPT !.write_tag_index = k])
<1> DEFINE Same(b) == /\ b.tag_data = app.tag_data /\ b.tag_plain = app.tag_plain
                      /\ b.is_blank = app.is_blank
                      /\ b.result_read_only = app.result_read_only
           Kept(b) == b.write_exact = app.write_exact /\ b.pending = app.pending
<1>0. ASSUME NEW b, Same(b), ~b.write_exact \/ Kept(b) PROVE Fits(s, b)
  BY <1>0, FitsSame
<1>1. Same(Fresh) /\ ~Fresh.write_exact
  BY DEF AppType, Fresh
<1>2. Same(Staged(FALSE)) /\ ~Staged(FALSE).write_exact
  BY DEF AppType, Staged
<1>3. Same(Edited) /\ Edited.write_exact = app.write_exact
  BY DEF AppType, Edited
<1>4. ASSUME NEW d \in BOOLEAN
      PROVE  Same([app EXCEPT !.dual_tag = d]) /\ Kept([app EXCEPT !.dual_tag = d])
  BY DEF AppType
<1>5. ASSUME NEW f \in BOOLEAN, NEW n \in Names
      PROVE  /\ Same([app EXCEPT !.save_from_write = f, !.save_name = n])
             /\ Kept([app EXCEPT !.save_from_write = f, !.save_name = n])
  BY DEF AppType
<1>6. ASSUME NEW n \in Names
      PROVE  Same([app EXCEPT !.save_name = n]) /\ Kept([app EXCEPT !.save_name = n])
  BY DEF AppType
<1>7. ASSUME NEW k \in 0..1
      PROVE  /\ Same([app EXCEPT !.write_tag_index = k])
             /\ Kept([app EXCEPT !.write_tag_index = k])
  BY DEF AppType
<1> HIDE DEF Same, Kept
<1> QED
  BY <1>0, <1>1, <1>2, <1>3, <1>4, <1>5, <1>6, <1>7

\* What the top of the stack stands for.
LEMMA TopFits ==
    ASSUME stack \in Stacks, Ordered(stack), Fits(stack, app), Top # "Start"
    PROVE  \E below \in Below(Top) : Stands(Top, below, app)
<1>1. Top = Last(stack)
  BY DEF Top
<1> QED
  BY <1>1, TopIs

\* The steps of the menu and the help.
LEMMA MenuPatient ==
    ASSUME Patient, HandleMenu \/ HandleMenuWrite \/ HandleHelp \/ HandleEraseConfirm
    PROVE  PatientInv'
<1>1. ASSUME HandleMenu PROVE PatientInv'
  <2>1. PICK s \in ToSet(MenuTargets) \ {"WriteBrand"} : Opens("Start", MenuId(s), s, app)
    BY <1>1 DEF HandleMenu
  <2>2. s \in Scenes \ {"Start"} /\ "Start" \in Below(s)
    BY MenuFacts DEF Below, Scenes
  <2>3. app \in AppType /\ Fits(stack, app)
    BY <2>1, TakeAlone DEF Opens
  <2>4. s = "Read" \/ Stands(s, "Start", app)
    BY MenuFacts DEF Stands, Wizard
  <2> QED
    BY <2>1, <2>2, <2>3, <2>4, OpensPatient, SceneFacts
<1>2. ASSUME HandleMenuWrite PROVE PatientInv'
  <2>1. Opens("Start", MenuId("WriteBrand"), "WriteBrand", Fresh)
    BY <1>2 DEF HandleMenuWrite
  <2>2. app \in AppType /\ Fits(stack, app)
    BY <2>1, TakeAlone DEF Opens
  <2>3. Fresh \in AppType /\ Fits(stack, Fresh)
    BY <2>2, StructFacts, StructFits
  <2>4. Stands("WriteBrand", "Start", Fresh)
    BY <2>2 DEF Stands, Wizard, Fresh, AppType
  <2> QED
    BY <2>1, <2>3, <2>4, OpensPatient, SceneFacts DEF Below, Scenes
<1>3. ASSUME HandleHelp PROVE PatientInv'
  <2>1. Take("Help") /\ Go(Push("HelpTopic"), app)
    BY <1>3 DEF HandleHelp
  <2>2. /\ Acts /\ Top = "Help" /\ stack \in Stacks /\ queue' = <<>> /\ Ordered(stack)
        /\ app \in AppType /\ Fits(stack, app)
    BY <2>1, TakeAlone
  <2>3. Stands("HelpTopic", "Help", app)
    BY DEF Stands, Wizard
  <2>4. Push("HelpTopic") \in Stacks /\ Ordered(Push("HelpTopic")) /\ Fits(Push("HelpTopic"), app)
    BY <2>2, <2>3, PushIs, PushOrdered DEF Below, Scenes
  <2> QED
    BY <2>1, <2>2, <2>4, GoFromScreen, SceneFacts
<1>4. ASSUME HandleEraseConfirm PROVE PatientInv'
  <2>1. Opens("EraseConfirm", ButtonErase, "EraseProgress", app)
    BY <1>4 DEF HandleEraseConfirm
  <2>2. app \in AppType /\ Fits(stack, app)
    BY <2>1, TakeAlone DEF Opens
  <2>3. Stands("EraseProgress", "EraseConfirm", app)
    BY DEF Stands, Wizard
  <2> QED
    BY <2>1, <2>2, <2>3, OpensPatient, SceneFacts DEF Below, Scenes
<1> QED
  BY <1>1, <1>2, <1>3, <1>4

\* The record a read hands over is whole, and the result screen knows it is live.
LEMMA ReadDonePatient ==
    ASSUME Patient, HandleReadDone
    PROVE  PatientInv'
<1> DEFINE a == [app EXCEPT !.tag_data = wdata.tag_data, !.tag_plain = wdata.read_plain,
                            !.is_blank = (Code = WorkerBlankTag)]
           s == Push("ReadResult")
<1>1. Take("Read") /\ Code \in {WorkerSuccess, WorkerBlankTag} /\ Go(s, a)
  BY DEF HandleReadDone
<1>2. /\ Acts /\ Top = "Read" /\ stack \in Stacks /\ app \in AppType /\ queue' = <<>> /\ Over
      /\ Waits(queue[1]) /\ Code = queue[1].code /\ Ordered(stack) /\ Fits(stack, app)
      /\ queue # <<>>
  BY <1>1, TakeAlone
<1>3. wdata.tag_data \in Contents /\ wdata.read_plain \in Contents
  BY DEF Patient, BaseInv, TypeInv
<1>4. /\ a \in AppType /\ a.result_read_only = app.result_read_only
      /\ a.tag_data = wdata.tag_data /\ a.tag_plain = wdata.read_plain
      /\ a.is_blank = (Code = WorkerBlankTag)
  BY <1>2, <1>3 DEF AppType
<1>5. ~a.is_blank => Loaded(a)
  <2>1. queue[1].from = "Read"
    BY <1>2 DEF Waits, Returns
  <2>2. ~a.is_blank => queue[1].code = 0
    BY <1>1, <1>2, <1>4 DEF WorkerSuccess
  <2>3. ~a.is_blank => Whole
    BY <1>2, <2>1, <2>2 DEF Patient, PatientInv, WholeInv
  <2> QED
    BY <1>4, <2>3 DEF Whole, Loaded
<1>6. ~app.result_read_only
  BY <1>2, TopFits DEF Stands
<1>7. Stands("Read", "Start", a) /\ Stands("ReadResult", "Read", a)
  BY <1>4, <1>5, <1>6 DEF Stands, Wizard
<1>8. Fits(stack, a)
  <2>1. DOMAIN stack = 1..2 /\ stack[2] = "Read" /\ stack[1] = "Start"
    BY <1>2, ShortIs DEF Top
  <2>2. \A i \in 1..2 : i > 1 => i = 2 /\ i - 1 = 1
    OBVIOUS
  <2> HIDE DEF a
  <2> QED
    BY <1>7, <2>1, <2>2 DEF Fits
<1> HIDE DEF a
<1>9. s \in Stacks /\ Last(s) = "ReadResult" /\ Ordered(s) /\ Fits(s, a)
  BY <1>2, <1>7, <1>8, PushIs, PushOrdered DEF Below, Scenes
<1> QED
  BY <1>1, <1>2, <1>4, <1>8, <1>9, GoFromRun, SceneFacts

\* The other steps of the reader's screens.
LEMMA ReadingPatient ==
    ASSUME Patient, HandleReadError \/ HandleResultOpens \/ HandleReread \/ HandleView
    PROVE  PatientInv'
<1>1. ASSUME HandleReadError PROVE PatientInv'
  <2>1. Take("Read") /\ Stay(app, "none") /\ spool' = spool
    BY <1>1 DEF HandleReadError
  <2>2. Top = "Read" /\ stack' = stack
    BY <2>1, TakeAlone DEF Stay
  <2>3. SpoolInv'
    BY <2>1, <2>2 DEF Patient, PatientInv, SpoolInv, OnSpool, Top
  <2> QED
    BY <2>1, <2>3, StayPatient
<1>2. ASSUME HandleResultOpens PROVE PatientInv'
  <2>1. ASSUME NEW to \in {"TagActions", "ReadRaw"}, NEW code,
               Opens("ReadResult", code, to, app), to = "TagActions" => Loaded(app)
        PROVE  PatientInv'
    <3>1. app \in AppType /\ Fits(stack, app)
      BY <2>1, TakeAlone DEF Opens
    <3>2. Stands(to, "ReadResult", app)
      BY <2>1 DEF Stands, Wizard
    <3> QED
      BY <2>1, <3>1, <3>2, OpensPatient, SceneFacts DEF Below, Scenes
  <2>2. ASSUME Opens("ReadResult", ButtonWrite, "TagActions", app) PROVE Loaded(app)
    <3>1. /\ Top = "ReadResult" /\ stack \in Stacks /\ Ordered(stack) /\ Fits(stack, app)
          /\ Waits(queue[1]) /\ Code = queue[1].code /\ Code = ButtonWrite
      BY <2>2, TakeAlone DEF Opens
    <3>2. ButtonWrite \in Sends("ReadResult")
      BY <3>1, SceneFacts DEF Waits, Returns
    <3>3. ~app.is_blank
      BY <3>2 DEF Sends, ButtonWrite, ButtonReread
    <3> QED
      BY <3>1, <3>3, TopFits DEF Stands
  <2> QED
    BY <1>2, <2>1, <2>2 DEF HandleResultOpens
<1>3. ASSUME HandleReread PROVE PatientInv'
  <2>1. /\ Take("ReadResult") /\ Code = ButtonReread
        /\ Go(IF "Read" \in ToSet(stack) THEN BackTo("Read") ELSE Push("Read"), app)
    BY <1>3 DEF HandleReread
  <2>2. /\ Acts /\ Top = "ReadResult" /\ stack \in Stacks /\ Ordered(stack) /\ Fits(stack, app)
        /\ Waits(queue[1]) /\ Code = queue[1].code /\ queue' = <<>>
    BY <2>1, TakeAlone
  <2>3. ButtonReread \in Sends("ReadResult")
    BY <2>1, <2>2, SceneFacts DEF Waits, Returns
  <2>4. app.is_blank
    BY <2>3 DEF Sends, ButtonWrite, ButtonReread, ButtonSave, ButtonDetails
  <2>5. "Read" \in ToSet(stack)
    <3> DEFINE n == Len(stack)
    <3>1. /\ n \in Nat /\ n > 1 /\ n - 1 \in 1..n /\ DOMAIN stack = 1..n
          /\ stack[n - 1] \in {"Read", "SavedEntry"}
      BY <2>2, TopIs, StackLen DEF Below, Top
    <3>2. stack[n - 1] = "SavedEntry" => ~app.is_blank
      <4>1. n - 1 > 1 \/ stack[n - 1] = "Start"
        BY <2>2, <3>1, StackLen
      <4>2. n - 1 > 1 => Stands(stack[n - 1], stack[n - 1 - 1], app)
        BY <2>2, <3>1 DEF Fits
      <4> QED
        BY <4>1, <4>2 DEF Stands
    <3> QED
      BY <2>4, <3>1, <3>2 DEF ToSet
  <2>6. PICK k \in 1..Len(stack) : BackTo("Read") = SubSeq(stack, 1, k)
    BY <2>2, BackToIs
  <2> QED
    BY <2>1, <2>2, <2>5, <2>6, CutPatient, SceneFacts
<1>4. ASSUME HandleView PROVE PatientInv'
  <2> DEFINE a == [app EXCEPT !.is_blank = FALSE, !.result_read_only = TRUE]
             n == Len(stack)
  <2>1. Opens("SavedEntry", 0, "ReadResult", a)
    BY <1>4 DEF HandleView
  <2>2. /\ Top = "SavedEntry" /\ stack \in Stacks /\ Ordered(stack) /\ Fits(stack, app)
        /\ app \in AppType
    BY <2>1, TakeAlone DEF Opens
  <2>3. Loaded(app) /\ ~app.is_blank
    BY <2>2, TopFits DEF Stands
  <2>4. /\ a \in AppType /\ a.tag_data = app.tag_data /\ a.tag_plain = app.tag_plain
        /\ a.pending = app.pending /\ a.write_exact = app.write_exact
        /\ a.result_read_only = TRUE /\ a.is_blank = FALSE
    BY <2>2 DEF AppType
  <2> HIDE DEF a
  <2>5. Stands("ReadResult", "SavedEntry", a)
    BY <2>3, <2>4 DEF Stands, Loaded, Wizard
  <2>6. ASSUME NEW i \in DOMAIN stack, i > 1
        PROVE  stack[i] \notin {"Read", "ReadResult"}
    <3>1. /\ n \in Nat /\ DOMAIN stack = 1..n /\ Top = stack[n]
          /\ \A j \in 1..n : stack[j] \in Scenes
      BY <2>2, StackLen DEF Top, Last
    <3>2. n > 1 /\ n - 1 \in 1..n /\ stack[n - 1] = "SavedTags"
      BY <2>2, <3>1, TopIs DEF Below, Top
    <3> HIDE DEF n
    <3>3. \A j \in 1..n : Level(stack[j]) <= 2
      BY <2>2, LevelsAbove DEF Level, n
    <3>4. stack[i] # "ReadResult"
      BY <2>6, <3>1, <3>3 DEF Level
    <3>5. ASSUME stack[i] = "Read" PROVE FALSE
      <4>1. stack[i - 1] = "Start" /\ stack[n - 2] = "Start"
            /\ i - 1 \in 1..n /\ n - 2 \in 1..n
        <5>1. i - 1 \in 1..n /\ stack[i - 1] \in Below("Read")
          BY <2>2, <2>6, <3>1, <3>5 DEF Ordered
        <5>2. n - 1 > 1
          BY <2>2, <3>2, StackLen
        <5>3. n - 1 - 1 \in 1..n /\ stack[n - 1 - 1] \in Below("SavedTags")
          BY <2>2, <3>1, <3>2, <5>2 DEF Ordered
        <5>4. n - 1 - 1 = n - 2
          BY <3>1
        <5> QED
          BY <5>1, <5>3, <5>4 DEF Below
      <4>2. i - 1 = 1 /\ n - 2 = 1
        BY <2>2, <3>1, <4>1 DEF Stacks, Rooted
      <4>3. i = n - 1
        <5>1. i \in 1..n /\ n \in Nat
          BY <2>6, <3>1
        <5> QED
          BY <4>2, <5>1
      <4> QED
        BY <3>2, <3>5, <4>3
    <3> QED
      BY <3>4, <3>5
  <2>7. Fits(stack, a)
    <3>1. ASSUME NEW x, NEW y, Stands(x, y, app), x \notin {"Read", "ReadResult"}
          PROVE  Stands(x, y, a)
      BY <2>4, <3>1 DEF Stands, Loaded
    <3> QED
      BY <2>2, <2>6, <3>1 DEF Fits
  <2> QED
    BY <2>1, <2>4, <2>5, <2>7, OpensPatient, SceneFacts DEF Below, Scenes
<1> QED
  BY <1>1, <1>2, <1>3, <1>4

\* A step of the wizard: what is written is made from fields.
LEMMA WizardStep ==
    ASSUME Patient, NEW from \in Wizard, NEW to \in Wizard \cup {"WriteConfirm"},
           from \in Below(to), NEW code, NEW a \in {app, Edited}, Opens(from, code, to, a)
    PROVE  PatientInv'
<1>1. /\ Top = from /\ stack \in Stacks /\ Ordered(stack) /\ Fits(stack, app)
      /\ app \in AppType
  BY TakeAlone DEF Opens
<1>2. from # "Start" /\ from \notin WorkerScenes /\ to \in Scenes \ {"Start"}
  BY SceneFacts DEF Wizard, Scenes
<1>3. ~app.write_exact
  BY <1>1, <1>2, TopFits DEF Stands
<1>4. a \in AppType /\ Fits(stack, a) /\ a.write_exact = app.write_exact
  <2>1. Edited.write_exact = app.write_exact
    BY <1>1 DEF Edited, AppType
  <2> QED
    BY <1>1, <1>3, <2>1, StructFacts, StructFits
<1>5. Stands(to, from, a)
  BY <1>3, <1>4 DEF Stands, Wizard
<1> QED
  BY <1>2, <1>4, <1>5, OpensPatient

\* A clone is staged above no other write, and it is the record that was loaded.
LEMMA CloneFits ==
    ASSUME stack \in Stacks, Ordered(stack), Fits(stack, app), app \in AppType,
           Top \in {"TagActions", "SavedEntry"}
    PROVE  Fits(stack, Staged(TRUE)) /\ Stands("WriteConfirm", Top, Staged(TRUE))
<1> DEFINE a == Staged(TRUE)
<1>1. /\ a.tag_data = app.tag_data /\ a.tag_plain = app.tag_plain /\ a.is_blank = app.is_blank
      /\ a.result_read_only = app.result_read_only /\ a.pending = app.tag_data
  BY DEF Staged, AppType
<1> HIDE DEF a
<1>2. Loaded(app)
  BY TopFits DEF Stands
<1>3. \A i \in DOMAIN stack : stack[i] \notin Wizard \cup {"WriteConfirm"}
  <2>1. DOMAIN stack = 1..Len(stack)
    BY StackLen
  <2>2. Level(Top) <= 4
    BY DEF Level
  <2>3. \A x \in Wizard \cup {"WriteConfirm"} : Level(x) \in 5..11
    BY DEF Wizard, Level
  <2>4. \A i \in 1..Len(stack) : stack[i] \in Scenes /\ Level(stack[i]) <= Level(Top)
    BY LevelsAbove, StackLen
  <2>5. \A i \in 1..Len(stack) : ~(Level(stack[i]) \in 5..11)
    <3> SUFFICES ASSUME NEW i \in 1..Len(stack), Level(stack[i]) \in 5..11 PROVE FALSE
      OBVIOUS
    <3>1. Level(Top) \in Nat
      BY DEF Level
    <3> QED
      BY <2>2, <2>4, <3>1
  <2> QED
    BY <2>1, <2>3, <2>5
<1>4. ASSUME NEW x, NEW y, Stands(x, y, app), x \notin Wizard \cup {"WriteConfirm"}
      PROVE  Stands(x, y, a)
  BY <1>1, <1>4 DEF Stands, Loaded
<1>5. Fits(stack, a)
  BY <1>3, <1>4 DEF Fits
<1>6. Stands("WriteConfirm", Top, a)
  BY <1>1, <1>2 DEF Stands, Loaded, Wizard
<1> QED
  BY <1>5, <1>6 DEF a

\* The steps that stage a write and take it through the wizard.
LEMMA WizardPatient ==
    ASSUME Patient,
           \/ HandleTagActions \/ HandleSavedWrite \/ HandleBrand \/ HandleMaterial
           \/ HandleColor \/ HandleColorCustom \/ HandleWeight \/ HandleSerial
           \/ HandleConfirm
    PROVE  PatientInv'
<1>1. ASSUME NEW from \in {"TagActions", "SavedEntry"}, NEW code,
             Opens(from, code, "WriteConfirm", Staged(TRUE))
      PROVE  PatientInv'
  <2>1. /\ Top = from /\ stack \in Stacks /\ Ordered(stack) /\ Fits(stack, app)
        /\ app \in AppType
    BY <1>1, TakeAlone DEF Opens
  <2>2. Staged(TRUE) \in AppType
    BY <2>1, StructFacts
  <2>3. Fits(stack, Staged(TRUE)) /\ Stands("WriteConfirm", from, Staged(TRUE))
    BY <2>1, CloneFits
  <2> QED
    BY <1>1, <2>2, <2>3, OpensPatient, SceneFacts DEF Below, Scenes
<1>2. ASSUME NEW from \in {"TagActions", "SavedEntry"}, NEW code,
             Opens(from, code, "WriteBrand", Staged(FALSE))
      PROVE  PatientInv'
  <2>1. /\ Top = from /\ stack \in Stacks /\ Ordered(stack) /\ Fits(stack, app)
        /\ app \in AppType
    BY <1>2, TakeAlone DEF Opens
  <2>2. Staged(FALSE) \in AppType /\ Fits(stack, Staged(FALSE))
    BY <2>1, StructFacts, StructFits
  <2>3. Stands("WriteBrand", from, Staged(FALSE))
    BY <2>1 DEF Stands, Wizard, Staged, AppType
  <2> QED
    BY <1>2, <2>2, <2>3, OpensPatient, SceneFacts DEF Below, Scenes
<1>3. ASSUME HandleBrand PROVE PatientInv'
  BY <1>3, WizardStep DEF HandleBrand, Wizard, Below
<1>4. ASSUME HandleMaterial PROVE PatientInv'
  BY <1>4, WizardStep DEF HandleMaterial, Wizard, Below
<1>5. ASSUME HandleColor PROVE PatientInv'
  BY <1>5, WizardStep DEF HandleColor, Wizard, Below
<1>6. ASSUME HandleColorCustom PROVE PatientInv'
  BY <1>6, WizardStep DEF HandleColorCustom, Wizard, Below
<1>7. ASSUME HandleWeight PROVE PatientInv'
  <2> DEFINE to == IF serial_mode = "prompt" THEN "WriteSerial" ELSE "WriteConfirm"
  <2>1. PICK c \in Accepts("WriteWeight") : Opens("WriteWeight", c, to, Edited)
    BY <1>7 DEF HandleWeight
  <2>2. to \in Wizard \cup {"WriteConfirm"} /\ "WriteWeight" \in Below(to)
        /\ "WriteWeight" \in Wizard
    BY DEF Wizard, Below
  <2> HIDE DEF to
  <2> QED
    BY <2>1, <2>2, WizardStep
<1>8. ASSUME HandleSerial PROVE PatientInv'
  BY <1>8, WizardStep DEF HandleSerial, Wizard, Below
<1>9. ASSUME HandleConfirm PROVE PatientInv'
  <2>1. PICK c \in {ButtonWrite, ButtonWriteDual} :
            Opens("WriteConfirm", c, "WriteProgress",
                  [app EXCEPT !.dual_tag = (c = ButtonWriteDual)])
    BY <1>9 DEF HandleConfirm
  <2> DEFINE d == (c = ButtonWriteDual)
             a == [app EXCEPT !.dual_tag = d]
  <2>2. app \in AppType /\ Fits(stack, app) /\ d \in BOOLEAN
    BY <2>1, TakeAlone DEF Opens
  <2> HIDE DEF d
  <2>3. a \in AppType /\ Fits(stack, a)
    BY <2>2, StructFacts, StructFits
  <2>4. Opens("WriteConfirm", c, "WriteProgress", a)
    BY <2>1 DEF d
  <2> HIDE DEF a
  <2>5. Stands("WriteProgress", "WriteConfirm", a)
    BY DEF Stands, Wizard
  <2> QED
    BY <2>3, <2>4, <2>5, OpensPatient, SceneFacts DEF Below, Scenes
<1> QED
  BY <1>1, <1>2, <1>3, <1>4, <1>5, <1>6, <1>7, <1>8, <1>9
  DEF HandleTagActions, HandleSavedWrite

\* The steps that save a record or remove one.
LEMMA SavingPatient ==
    ASSUME Patient,
           \/ HandleResultSave \/ HandleConfirmSave \/ HandleSaveName \/ HandleOverwrite
           \/ HandleDelete
    PROVE  PatientInv'
<1>1. ASSUME NEW scene \in {"ReadResult", "WriteConfirm"}, SaveFrom(scene) PROVE PatientInv'
  <2>1. PICK n \in Names :
            Opens(scene, ButtonSave, "SaveName",
                  [app EXCEPT !.save_from_write = FromConfirm, !.save_name = n])
    BY <1>1 DEF SaveFrom
  <2> DEFINE a == [app EXCEPT !.save_from_write = FromConfirm, !.save_name = n]
  <2>2. app \in AppType /\ Fits(stack, app)
    BY <2>1, TakeAlone DEF Opens
  <2>3. FromConfirm \in BOOLEAN
    BY DEF FromConfirm
  <2>4. a \in AppType /\ Fits(stack, a)
    BY <2>2, <2>3, StructFacts, StructFits
  <2> HIDE DEF a
  <2>5. Opens(scene, ButtonSave, "SaveName", a)
    BY <2>1 DEF a
  <2>6. Stands("SaveName", scene, a)
    BY DEF Stands, Wizard
  <2> QED
    BY <1>1, <2>4, <2>5, <2>6, OpensPatient, SceneFacts DEF Below, Scenes
<1>2. ASSUME NEW scene, scene # "Start", scene \notin WorkerScenes, Take(scene), Go(Pop, app)
      PROVE  PatientInv'
  <2>1. Acts /\ Top = scene /\ stack \in Stacks /\ queue' = <<>>
    BY <1>2, TakeAlone
  <2>2. Len(stack) - 1 \in 1..Len(stack) /\ Pop = SubSeq(stack, 1, Len(stack) - 1)
    BY <1>2, <2>1, PopIs
  <2> QED
    BY <1>2, <2>1, <2>2, CutPatient
<1>3. ASSUME HandleSaveName PROVE PatientInv'
  <2>1. /\ Take("SaveName")
        /\ Go(Push("SaveOverwrite"), app) \/ Go(Pop, app)
    BY <1>3 DEF HandleSaveName
  <2>2. CASE Go(Push("SaveOverwrite"), app)
    <3>1. /\ Acts /\ Top = "SaveName" /\ stack \in Stacks /\ queue' = <<>> /\ Ordered(stack)
          /\ Fits(stack, app) /\ app \in AppType
      BY <2>1, TakeAlone
    <3>2. Stands("SaveOverwrite", "SaveName", app)
      BY DEF Stands, Wizard
    <3>3. /\ Push("SaveOverwrite") \in Stacks /\ Ordered(Push("SaveOverwrite"))
          /\ Fits(Push("SaveOverwrite"), app)
      BY <3>1, <3>2, PushIs, PushOrdered DEF Below, Scenes
    <3> QED
      BY <2>2, <3>1, <3>3, GoFromScreen, SceneFacts
  <2> QED
    BY <1>2, <2>1, <2>2, SceneFacts
<1>4. ASSUME HandleOverwrite PROVE PatientInv'
  <2>1. PICK x : Take("SaveOverwrite") /\ Go(BackTo(x), app)
    BY <1>4 DEF HandleOverwrite
  <2>2. Acts /\ Top = "SaveOverwrite" /\ stack \in Stacks /\ queue' = <<>>
    BY <2>1, TakeAlone
  <2>3. PICK k \in 1..Len(stack) : BackTo(x) = SubSeq(stack, 1, k)
    BY <2>2, BackToIs
  <2> QED
    BY <2>1, <2>2, <2>3, CutPatient, SceneFacts
<1>5. ASSUME HandleDelete PROVE PatientInv'
  BY <1>2, <1>5, SceneFacts DEF HandleDelete
<1> QED
  BY <1>1, <1>3, <1>4, <1>5 DEF HandleResultSave, HandleConfirmSave

\* A tag is written: the spool moves on.
LEMMA WrittenFacts ==
    ASSUME Patient, HandleWritten
    PROVE  /\ OnSpool /\ popup = "none"
           /\ spool.results = app.write_tag_index /\ spool.bumps = 0
           /\ app.write_tag_index \in 0..1
           /\ app.write_tag_index = 1 => app.dual_tag
<1>1. Take("WriteProgress") /\ Code = WorkerSuccess
  BY DEF HandleWritten
<1>2. /\ Acts /\ Top = "WriteProgress" /\ goto = <<>> /\ app \in AppType
      /\ Waits(queue[1]) /\ queue[1].code = 0
  BY <1>1, TakeAlone DEF WorkerSuccess
<1>3. queue[1].code \notin Sends("WriteProgress")
  BY <1>2, RunSends DEF ButtonWriteTag2
<1>4. popup = "none"
  BY <1>2, <1>3 DEF Waits, Returns
<1>5. OnSpool
  BY <1>2 DEF OnSpool, Acts
<1> QED
  BY <1>2, <1>4, <1>5 DEF Patient, PatientInv, SpoolInv, AppType

\* The steps of the two progress screens, and those that touch no scene.
LEMMA ProgressPatient ==
    ASSUME Patient,
           \/ HandleWritten \/ HandleTag2 \/ HandleWriteFails \/ HandleErased
           \/ HandleSettingsWeight \/ HandleNothing
    PROVE  PatientInv'
<1>0. SpoolInv
  BY DEF Patient, PatientInv
<1>1. ASSUME HandleWritten PROVE PatientInv'
  <2> DEFINE bump == ~Pause /\ serial_mode = "sequential"
  <2>1. /\ Take("WriteProgress") /\ Stay(app, IF Pause THEN "tag2" ELSE "done")
        /\ spool' = [results |-> spool.results + 1,
                     bumps |-> spool.bumps + IF bump THEN 1 ELSE 0]
    BY <1>1 DEF HandleWritten
  <2>2. OnSpool /\ spool.results = app.write_tag_index /\ spool.bumps = 0
    BY <1>1, WrittenFacts
  <2>3. app' = app /\ stack' = stack /\ goto' = goto
        /\ popup' = IF Pause THEN "tag2" ELSE "done"
    BY <2>1 DEF Stay
  <2>4. SpoolInv'
    BY <2>1, <2>2, <2>3 DEF SpoolInv, OnSpool, Pause, Top
  <2>5. (IF Pause THEN "tag2" ELSE "done") # "none"
    OBVIOUS
  <2> QED
    BY <2>1, <2>4, <2>5, StayPatient
<1>2. ASSUME HandleTag2 PROVE PatientInv'
  <2>1. /\ Take("WriteProgress") /\ Code = ButtonWriteTag2 /\ StartWrite(app)
        /\ app' = [app EXCEPT !.write_tag_index = 1] /\ popup' = "none"
        /\ UNCHANGED <<stack, goto, spool>>
    BY <1>2 DEF HandleTag2
  <2>2. /\ Acts /\ Top = "WriteProgress" /\ goto = <<>> /\ app \in AppType /\ queue' = <<>>
        /\ Over /\ Waits(queue[1]) /\ queue[1].code = ButtonWriteTag2 /\ Fits(stack, app)
    BY <2>1, TakeAlone
  <2>3. popup = "tag2"
    BY <2>2, RunSends DEF Waits, Returns, ButtonWriteTag2
  <2>4. OnSpool /\ spool.results = 1 /\ spool.bumps = 0 /\ app.dual_tag
    BY <1>0, <2>2, <2>3 DEF SpoolInv, OnSpool, Acts
  <2>5. UNCHANGED <<thread, mode, result>>
    BY <2>1 DEF StartWrite, CallStart
  <2>6. Fits(stack, app')
    <3>1. \A k \in 0..1 : Fits(stack, [app EXCEPT !.write_tag_index = k])
      BY <2>2, StructFits
    <3> QED
      BY <2>1, <3>1
  <2>7. OrderInv' /\ FitsInv'
    BY <2>1, <2>2, <2>6, NoPath DEF Patient, PatientInv, OrderInv, FitsInv
  <2>8. OneEvent' /\ WholeInv' /\ LeaveInv' /\ PopupInv'
    BY <2>1, <2>2, <2>5 DEF OneEvent, WholeInv, LeaveInv, PopupInv, Over
  <2>9. app'.write_tag_index = 1 /\ app'.dual_tag = app.dual_tag
    BY <2>1, <2>2 DEF AppType
  <2>10. SpoolInv'
    BY <2>1, <2>4, <2>9 DEF SpoolInv, OnSpool, Top
  <2> QED
    BY <2>7, <2>8, <2>10 DEF PatientInv
<1>3. ASSUME NEW scene, Take(scene), Stay(app, popup), spool' = spool PROVE PatientInv'
  <2>1. Top = scene /\ UNCHANGED <<app, stack, goto, popup>>
    BY <1>3, TakeAlone DEF Stay
  <2>2. SpoolInv'
    BY <1>0, <1>3, <2>1 DEF SpoolInv, OnSpool, Top
  <2> QED
    BY <1>3, <2>1, <2>2, StayPatient DEF Patient, PatientInv, PopupInv
<1>4. ASSUME NEW scene \in {"WriteProgress", "EraseProgress"}, Take(scene), Stay(app, "done"),
             spool' = spool
      PROVE  PatientInv'
  <2>1. UNCHANGED <<app, stack, goto>> /\ popup' = "done"
    BY <1>4 DEF Stay
  <2>2. SpoolInv'
    BY <1>0, <1>4, <2>1 DEF SpoolInv, OnSpool, Top
  <2> QED
    BY <1>4, <2>2, StayPatient
<1> QED
  BY <1>1, <1>2, <1>3, <1>4
  DEF HandleWriteFails, HandleErased, HandleSettingsWeight, HandleNothing

LEMMA HandlersPatient ==
    ASSUME Patient, HandleEvent
    PROVE  PatientInv'
BY MenuPatient, ReadDonePatient, ReadingPatient, WizardPatient, SavingPatient, ProgressPatient
DEF HandleEvent

------------------------------------------------------------------------------
(* Keys, the popup, the browser and the worker. *)

\* What a patient user may leave waiting.
LEMMA ReadyAlone ==
    ASSUME ~Hasty, Patient, Ready
    PROVE  /\ Acts /\ stack \in Stacks /\ goto = <<>> /\ app \in AppType
           /\ Ordered(stack) /\ Fits(stack, app)
           /\ queue # <<>> => queue[1].from = Top /\ Top \in WorkerScenes /\ queue[1].code < 8
<1>1. Acts
  BY DEF Ready, Idle, Acts
<1>2. queue \in Seq(Queued)
  BY DEF Patient, BaseInv, TypeInv
<1>3. queue # <<>> => 1 \in DOMAIN queue
  BY <1>2
<1>4. Len(WorkerCodes) = 8
  BY DEF WorkerCodes
<1> QED
  BY <1>1, <1>3, <1>4, ActsFacts
  DEF Ready, Patient, BaseInv, TypeInv, PatientInv, OrderInv, FitsInv

\* Nothing that PatientInv looks at changes.
LEMMA SamePatient ==
    ASSUME PatientInv,
           UNCHANGED <<stack, goto, queue, popup, app, wdata, spool, thread, mode, result, call>>
    PROVE  PatientInv'
<1>1. Sends(Top)' = Sends(Top)
  BY DEF Sends, Top
<1>2. OneEvent'
  BY <1>1 DEF PatientInv, OneEvent, Waits, Over, Top
<1> QED
  BY <1>2 DEF PatientInv, OrderInv, FitsInv, WholeInv, Whole, LeaveInv, PopupInv, SpoolInv,
              OnSpool, Over, Top

\* A key that sends an event: it is the only one.
LEMMA PressPatient ==
    ASSUME ~Hasty, Patient, PressKey
    PROVE  PatientInv'
<1>1. /\ Ready
      /\ app' \in CASE Top = "SaveName" -> {[app EXCEPT !.save_name = n] : n \in Names}
                    [] Top = "WriteSerial" -> {[app EXCEPT !.pending = "edited"]}
                    [] OTHER -> {app}
      /\ UNCHANGED <<thread, mode, stop, call, result, sent, stack, goto, popup,
                     serial_mode, wdata, files, spool>>
  BY DEF PressKey, workerVars
<1>2. PICK c \in Sends(Top) : queue' = Append(queue, Event(c, Top))
  BY DEF PressKey
<1>3. /\ Acts /\ stack \in Stacks /\ goto = <<>> /\ app \in AppType
      /\ Ordered(stack) /\ Fits(stack, app)
      /\ queue # <<>> => queue[1].from = Top /\ Top \in WorkerScenes /\ queue[1].code < 8
  BY <1>1, ReadyAlone
<1>4. Top \in WorkerScenes => Top = "WriteProgress" /\ popup = "tag2" /\ c = ButtonWriteTag2
  BY <1>2, RunSends, SceneFacts
<1>5. queue = <<>>
  <2> SUFFICES ASSUME queue # <<>> PROVE FALSE
    OBVIOUS
  <2>1. Top = "WriteProgress" /\ popup = "tag2" /\ queue[1].code < 8 /\ Waits(queue[1])
    BY <1>3, <1>4 DEF Patient, PatientInv, OneEvent
  <2>2. queue[1].code \in Nat
    <3>1. queue \in Seq(Queued) /\ queue # <<>>
      BY DEF Patient, BaseInv, TypeInv
    <3>2. queue[1] \in Queued
      BY <3>1
    <3> QED
      BY <3>2 DEF Queued
  <2>3. queue[1].code \notin Sends("WriteProgress")
    BY <2>1, <2>2, RunSends DEF ButtonWriteTag2
  <2> QED
    BY <2>1, <2>3 DEF Waits, Returns
<1>6. Len(queue') = 1 /\ queue'[1].code = c /\ queue'[1].from = Top
  BY <1>2, <1>5 DEF Event
<1>7. Over
  BY <1>3, <1>4, ActsFacts DEF Patient, PatientInv, PopupInv, Over
<1>8. app'.is_blank = app.is_blank /\ app'.write_tag_index = app.write_tag_index
      /\ app'.dual_tag = app.dual_tag /\ Fits(stack, app')
  <2>1. CASE Top = "SaveName"
    <3>1. PICK n \in Names : app' = [app EXCEPT !.save_name = n]
      BY <1>1, <2>1
    <3> QED
      BY <1>3, <3>1, StructFits DEF AppType
  <2>2. CASE Top = "WriteSerial"
    <3>1. app' = Edited
      BY <1>1, <2>2 DEF Edited
    <3>2. ~app.write_exact
      BY <1>3, <2>2, TopFits DEF Stands, Wizard
    <3>3. Fits(stack, app')
      BY <1>3, <3>1, <3>2, StructFits
    <3> QED
      BY <1>3, <3>1, <3>3 DEF AppType, Edited
  <2>3. CASE Top \notin {"SaveName", "WriteSerial"}
    BY <1>1, <1>3, <2>3
  <2> QED
    BY <2>1, <2>2, <2>3
<1>9. OneEvent'
  <2>1. Sends(Top)' = Sends(Top) /\ Top' = Top
    BY <1>1, <1>8 DEF Sends, Top
  <2>2. Waits(queue[1])'
    BY <1>2, <1>6, <2>1 DEF Waits
  <2> QED
    BY <1>1, <1>3, <1>6, <1>7, <2>2 DEF OneEvent, Over, Acts
<1>10. WholeInv'
  BY <1>1, <1>2, <1>6, <1>7, RunSends DEF WholeInv, Over
<1>11. OrderInv' /\ FitsInv' /\ LeaveInv' /\ PopupInv'
  BY <1>1, <1>3, <1>8, NoPath
  DEF Patient, PatientInv, OrderInv, FitsInv, LeaveInv, PopupInv, Over, Top
<1>12. SpoolInv'
  BY <1>1, <1>8 DEF Patient, PatientInv, SpoolInv, OnSpool, Top
<1> QED
  BY <1>9, <1>10, <1>11, <1>12 DEF PatientInv

LEMMA BackPatient ==
    ASSUME ~Hasty, Patient, PressBack
    PROVE  PatientInv'
<1>1. /\ Ready /\ Top # "Start" /\ queue' = queue
      /\ Go(IF Top = "ReadResult" /\ ~app.result_read_only THEN BackTo("Start") ELSE Pop, app)
  BY DEF PressBack
<1>2. /\ Acts /\ stack \in Stacks /\ goto = <<>> /\ app \in AppType
      /\ Ordered(stack) /\ Fits(stack, app)
      /\ queue # <<>> => queue[1].from = Top /\ Top \in WorkerScenes /\ queue[1].code < 8
  BY <1>1, ReadyAlone
<1>3. Len(stack) - 1 \in 1..Len(stack) /\ Pop = SubSeq(stack, 1, Len(stack) - 1)
  BY <1>1, <1>2, PopIs
<1>4. PICK k \in 1..Len(stack) : BackTo("Start") = SubSeq(stack, 1, k)
  BY <1>2, BackToIs
<1>5. CASE Top \notin WorkerScenes
  BY <1>1, <1>2, <1>3, <1>4, <1>5, CutPatient
<1>6. CASE Top \in WorkerScenes
  <2>1. Go(Pop, app)
    BY <1>1, <1>6, SceneFacts
  <2>2. /\ Pop \in Stacks /\ Ordered(Pop) /\ Fits(Pop, app)
        /\ Last(Pop) = stack[Len(stack) - 1]
    BY <1>2, <1>3, PrefixIs, PrefixOrdered
  <2>3. stack[Len(stack) - 1] \in Below(Top)
    BY <1>1, <1>2, TopIs DEF Top
  <2>4. Last(Pop) \in Returns /\ Last(Pop) \notin WorkerScenes
    BY <1>6, <2>2, <2>3, SceneFacts DEF Below, Returns
  <2> QED
    BY <1>1, <1>2, <1>6, <2>1, <2>2, <2>4, GoFromRun
<1> QED
  BY <1>5, <1>6

LEMMA SettingsPatient ==
    ASSUME ~Hasty, Patient, PressSettings
    PROVE  PatientInv'
<1>1. Ready /\ Top = "Settings" /\ queue' = queue
  BY DEF PressSettings
<1>2. /\ Acts /\ stack \in Stacks /\ app \in AppType /\ Ordered(stack) /\ Fits(stack, app)
      /\ queue = <<>>
  BY <1>1, ReadyAlone, SceneFacts
<1>3. ASSUME NEW s \in {"SettingsWeight", "DebugSelftest"}, Go(Push(s), app)
      PROVE  PatientInv'
  <2>1. Stands(s, "Settings", app)
    BY DEF Stands, Wizard
  <2>2. Push(s) \in Stacks /\ Ordered(Push(s)) /\ Fits(Push(s), app)
    BY <1>1, <1>2, <2>1, PushIs, PushOrdered DEF Below, Scenes
  <2> QED
    BY <1>1, <1>2, <1>3, <2>2, GoFromScreen, SceneFacts
<1>4. ASSUME Stay(app, popup), spool' = spool PROVE PatientInv'
  BY <1>1, <1>4, SamePatient DEF Stay, workerVars, Patient
<1> QED
  BY <1>3, <1>4 DEF PressSettings

\* The app is closed from the menu, where nothing runs, and opened again.
LEMMA ClosePatient ==
    ASSUME Patient, Close \/ Launch
    PROVE  PatientInv'
<1>1. ASSUME Close PROVE PatientInv'
  <2>1. /\ Acts /\ Top = "Start" /\ stack' = <<>> /\ queue' = <<>> /\ call' = "stop"
        /\ spool' = NewSpool /\ UNCHANGED <<thread, goto, popup>>
    BY <1>1 DEF Close, CallStop, Ready, Idle, Acts
  <2>2. goto = <<>> /\ thread = "stopped"
    BY <2>1, ActsFacts, SceneFacts DEF Patient
  <2>3. popup = "none"
    BY <2>1 DEF Patient, PatientInv, PopupInv
  <2>4. OrderInv' /\ FitsInv'
    BY <2>1, <2>2, NoPath DEF OrderInv, FitsInv
  <2>5. OneEvent' /\ WholeInv' /\ LeaveInv' /\ PopupInv' /\ SpoolInv'
    BY <2>1, <2>2, <2>3, SceneFacts
    DEF OneEvent, WholeInv, LeaveInv, PopupInv, SpoolInv, OnSpool
  <2> QED
    BY <2>4, <2>5 DEF PatientInv
<1>2. ASSUME Launch PROVE PatientInv'
  <2>1. /\ stack = <<>> /\ call = "none" /\ stack' = <<"Start">>
        /\ UNCHANGED <<thread, mode, call, result, goto, queue, popup, app, wdata, spool>>
    BY <1>2 DEF Launch, workerVars
  <2>2. goto = <<>> /\ thread = "stopped" /\ queue = <<>> /\ popup = "none"
    BY <2>1
    DEF Patient, BaseInv, StackInv, RunInv, PatientInv, OneEvent, PopupInv
  <2>3. Top' = "Start"
    BY <2>1 DEF Top, Last
  <2>4. \A i \in DOMAIN stack' : i = 1
    BY <2>1
  <2>5. OrderInv' /\ FitsInv'
    BY <2>1, <2>2, <2>4, NoPath DEF OrderInv, FitsInv, Ordered, Fits
  <2>6. OneEvent' /\ WholeInv' /\ LeaveInv' /\ PopupInv'
    BY <2>1, <2>2, SceneFacts DEF OneEvent, WholeInv, LeaveInv, PopupInv
  <2>7. SpoolInv'
    BY <2>1, <2>3 DEF Patient, PatientInv, SpoolInv, OnSpool
  <2> QED
    BY <2>5, <2>6, <2>7 DEF PatientInv
<1> QED
  BY <1>1, <1>2

LEMMA PopupPatient ==
    ASSUME Patient, PopupDone
    PROVE  PatientInv'
<1>1. Acts /\ popup = "done" /\ Go(BackTo("Start"), app) /\ queue' = queue
  BY DEF PopupDone, Idle, Acts
<1>2. /\ stack \in Stacks /\ app \in AppType /\ Ordered(stack) /\ Fits(stack, app)
  BY <1>1, ActsFacts DEF Patient, BaseInv, TypeInv, PatientInv, OrderInv, FitsInv
<1>3. Top \in {"WriteProgress", "EraseProgress"} /\ Over
  BY <1>1 DEF Patient, PatientInv, PopupInv
<1>4. queue = <<>>
  <2> SUFFICES ASSUME queue # <<>> PROVE FALSE
    OBVIOUS
  <2>1. Waits(queue[1])
    BY DEF Patient, PatientInv, OneEvent
  <2> QED
    BY <1>1, <1>3, <2>1, RunSends DEF Waits, Returns
<1>5. "Start" \in ToSet(stack)
  BY <1>2, StackLen DEF ToSet
<1>6. PICK k \in 1..Len(stack) : BackTo("Start") = SubSeq(stack, 1, k) /\ stack[k] = "Start"
  BY <1>2, <1>5, BackToIs
<1> DEFINE s == BackTo("Start")
<1>7. s \in Stacks /\ Last(s) = "Start" /\ Ordered(s) /\ Fits(s, app)
  BY <1>2, <1>6, PrefixIs, PrefixOrdered
<1> HIDE DEF s
<1>8. Go(s, app)
  BY <1>1 DEF s
<1> QED
  BY <1>1, <1>2, <1>3, <1>4, <1>7, <1>8, GoFromRun, SceneFacts DEF Returns

LEMMA BrowsePatient ==
    ASSUME Patient, Browse
    PROVE  PatientInv'
<1>1. /\ Acts /\ Top = "SavedTags" /\ queue' = queue
  BY DEF Browse, Acts
<1>2. /\ stack \in Stacks /\ app \in AppType /\ Ordered(stack) /\ Fits(stack, app)
      /\ files \in [Names -> Contents]
  BY <1>1, ActsFacts DEF Patient, BaseInv, TypeInv, PatientInv, OrderInv, FitsInv
<1>3. queue = <<>>
  <2> SUFFICES ASSUME queue # <<>> PROVE FALSE
    OBVIOUS
  <2>1. Waits(queue[1])
    BY DEF Patient, PatientInv, OneEvent
  <2>2. Sends("SavedTags") = {}
    BY DEF Sends, Accepts
  <2> QED
    BY <1>1, <2>1, <2>2, SceneFacts DEF Waits, Returns
<1>4. ASSUME NEW n \in Names, files[n] # NoContent,
             Go(Push("SavedEntry"),
                [app EXCEPT !.tag_data = files[n], !.tag_plain = files[n],
                            !.is_blank = FALSE, !.selected_path = n])
      PROVE  PatientInv'
  <2> DEFINE a == [app EXCEPT !.tag_data = files[n], !.tag_plain = files[n],
                              !.is_blank = FALSE, !.selected_path = n]
  <2>1. files[n] \in Contents
    BY <1>2
  <2>2. /\ a \in AppType /\ a.tag_data = files[n] /\ a.tag_plain = files[n]
        /\ a.is_blank = FALSE
    BY <1>2, <2>1 DEF AppType
  <2> HIDE DEF a
  <2>3. Go(Push("SavedEntry"), a)
    BY <1>4 DEF a
  <2>4. Stands("SavedTags", "Start", a) /\ Stands("SavedEntry", "SavedTags", a)
    BY <1>4, <2>2 DEF Stands, Wizard, Loaded
  <2>5. Fits(stack, a)
    <3>1. DOMAIN stack = 1..2 /\ stack[2] = "SavedTags" /\ stack[1] = "Start"
      BY <1>1, <1>2, ShortIs DEF Top
    <3>2. \A i \in 1..2 : i > 1 => i = 2 /\ i - 1 = 1
      OBVIOUS
    <3> QED
      BY <2>4, <3>1, <3>2 DEF Fits
  <2>6. Push("SavedEntry") \in Stacks /\ Ordered(Push("SavedEntry")) /\ Fits(Push("SavedEntry"), a)
    BY <1>1, <1>2, <2>4, <2>5, PushIs, PushOrdered DEF Below, Scenes
  <2> QED
    BY <1>1, <1>3, <2>2, <2>3, <2>6, GoFromScreen, SceneFacts
<1>5. ASSUME Go(Pop, app) PROVE PatientInv'
  <2>1. Len(stack) - 1 \in 1..Len(stack) /\ Pop = SubSeq(stack, 1, Len(stack) - 1)
    BY <1>1, <1>2, PopIs
  <2> QED
    BY <1>1, <1>3, <1>5, <2>1, CutPatient, SceneFacts
<1> QED
  BY <1>4, <1>5 DEF Browse

\* A join returns, an event perhaps waiting for the scene that was left.
LEMMA ReturnsPatient ==
    ASSUME Patient, GuiReturns
    PROVE  PatientInv'
<1>1. /\ Return
      /\ IF goto # <<>> THEN stack' = goto /\ goto' = <<>> ELSE UNCHANGED <<stack, goto>>
  BY DEF GuiReturns
<1>2. UNCHANGED <<queue, popup, app, wdata, spool>>
  BY DEF GuiReturns
<1>3. /\ OrderInv /\ FitsInv /\ OneEvent /\ WholeInv /\ LeaveInv /\ PopupInv /\ SpoolInv
      /\ StackInv /\ RunInv /\ TypeInv
  BY DEF Patient, PatientInv, BaseInv
<1>4. goto' = <<>>
  BY <1>1
<1>5. OrderInv' /\ FitsInv'
  <2>1. CASE goto # <<>>
    BY <1>1, <1>2, <1>3, <2>1, NoPath DEF OrderInv, FitsInv
  <2>2. CASE goto = <<>>
    BY <1>1, <1>2, <1>3, <2>2 DEF OrderInv, FitsInv
  <2> QED
    BY <2>1, <2>2
<1>6. WholeInv' /\ LeaveInv'
  <2>1. thread' # "sending" /\ thread = "stopped"
    BY <1>1 DEF Return, ReturnStopped, ReturnStarted
  <2> QED
    BY <1>2, <1>3, <1>4, <2>1 DEF WholeInv, Whole, LeaveInv
<1>7. CASE goto # <<>>
  <2>1. /\ call = "stop" /\ thread = "stopped" /\ call' = "none" /\ thread' = thread
        /\ stack' = goto
    BY <1>1, <1>3, <1>7, SceneFacts DEF StackInv, Return, ReturnStopped, ReturnStarted
  <2>2. /\ popup = "none" /\ Last(goto) \notin WorkerScenes
        /\ Last(goto) \in Returns \/ queue = <<>>
    BY <1>3, <1>7 DEF LeaveInv
  <2>3. Top \in WorkerScenes /\ Top' = Last(goto)
    BY <1>3, <1>7, <2>1 DEF StackInv, Top
  <2>4. ASSUME queue # <<>> PROVE Waits(queue[1])'
    <3>1. Waits(queue[1])
      BY <1>3, <2>4 DEF OneEvent
    <3>2. Sends(Top) = {}
      BY <2>2, <2>3, RunSends, SceneFacts
    <3>3. queue[1].from \in WorkerScenes /\ queue[1].code < 8
      BY <2>3, <3>1, <3>2 DEF Waits
    <3> QED
      BY <1>2, <2>2, <2>3, <2>4, <3>3 DEF Waits, Returns
  <2>5. OneEvent'
    BY <1>2, <1>3, <1>7, <2>1, <2>4 DEF OneEvent, Over
  <2>6. PopupInv'
    BY <1>2, <2>1, <2>2, SceneFacts DEF PopupInv
  <2>7. ~OnSpool /\ ~OnSpool'
    BY <1>7, <2>2, <2>3, SceneFacts DEF OnSpool
  <2>8. SpoolInv'
    BY <1>2, <1>3, <2>7 DEF SpoolInv
  <2> QED
    BY <1>5, <1>6, <2>5, <2>6, <2>8 DEF PatientInv
<1>8. CASE goto = <<>>
  <2>1. stack' = stack /\ Top' = Top
    BY <1>1, <1>8 DEF Top
  <2>2. SpoolInv'
    BY <1>2, <1>3, <1>4, <1>8, <2>1 DEF SpoolInv, OnSpool
  <2>3. CASE ReturnStopped
    <3>1. call' = "none" /\ thread' = thread
      BY <2>3 DEF ReturnStopped
    <3>2. Sends(Top)' = Sends(Top)
      BY <1>2, <2>1 DEF Sends
    <3>3. OneEvent'
      BY <1>2, <1>3, <2>1, <3>1, <3>2 DEF OneEvent, Waits, Over
    <3>4. PopupInv'
      BY <1>2, <1>3, <2>1, <3>1, SceneFacts DEF PopupInv, Over
    <3> QED
      BY <1>5, <1>6, <2>2, <3>3, <3>4 DEF PatientInv
  <2>4. CASE ReturnStarted
    <3>1. call \in RunModes /\ call' = "none"
      BY <2>4 DEF ReturnStarted
    <3>2. queue = <<>> /\ popup = "none"
      BY <1>3, <3>1, SceneFacts DEF OneEvent, PopupInv
    <3> QED
      BY <1>2, <1>5, <1>6, <2>2, <3>1, <3>2, SceneFacts DEF PatientInv, OneEvent, PopupInv
  <2> QED
    BY <1>1, <2>3, <2>4 DEF Return
<1> QED
  BY <1>7, <1>8

LEMMA WorkerPatient ==
    ASSUME Patient, WorkerThread
    PROVE  PatientInv'
<1>0. /\ OrderInv /\ FitsInv /\ OneEvent /\ WholeInv /\ LeaveInv /\ PopupInv /\ SpoolInv
      /\ StackInv /\ RunInv /\ TypeInv
  BY DEF Patient, PatientInv, BaseInv
<1>1. ASSUME WorkerDecides PROVE PatientInv'
  <2>1. PICK e \in WorkerEvents :
            /\ Decide(e)
            /\ wdata' \in
                 IF mode # "read" THEN {wdata}
                 ELSE CASE e = "Success" -> {[tag_data |-> r, read_plain |-> r] : r \in Records}
                        [] e = "ReadFailed" -> {[tag_data |-> NoContent, read_plain |-> NoContent]}
                        [] OTHER -> {wdata}
    BY <1>1 DEF WorkerDecides
  <2>2. UNCHANGED <<stack, goto, queue, popup, app, spool>>
    BY <1>1 DEF WorkerDecides, guiVars
  <2>3. /\ thread = "running" /\ result' = e /\ UNCHANGED <<mode, call>>
    BY <2>1 DEF Decide
  <2>4. queue = <<>> /\ popup = "none" /\ call \notin RunModes
    BY <1>0, <2>3 DEF OneEvent, PopupInv, Over
  <2>5. WholeInv'
    <3>1. ASSUME mode = "read", e = "Success" PROVE Whole'
      <4>1. PICK r \in Records : wdata' = [tag_data |-> r, read_plain |-> r]
        BY <2>1, <3>1
      <4>2. r # NoContent
        BY RecordAssumption DEF NoContent
      <4> QED
        BY <4>1, <4>2 DEF Whole
    <3> QED
      BY <2>2, <2>3, <2>4, <3>1 DEF WholeInv
  <2>6. OrderInv' /\ FitsInv' /\ OneEvent' /\ PopupInv' /\ SpoolInv'
    BY <1>0, <2>2, <2>3, <2>4
    DEF OrderInv, FitsInv, OneEvent, PopupInv, SpoolInv, OnSpool, Top
  <2>7. LeaveInv'
    BY <1>0, <2>2, <2>3 DEF LeaveInv, Over
  <2> QED
    BY <2>5, <2>6, <2>7 DEF PatientInv
<1>2. ASSUME WorkerSends PROVE PatientInv'
  <2>1. /\ thread = "sending" /\ thread' = "exiting" /\ UNCHANGED <<mode, call, result>>
        /\ queue' = Append(queue, Event(ToCustom(result), SceneOf(mode)))
        /\ UNCHANGED <<stack, goto, popup, app, spool, wdata>>
    BY <1>2 DEF WorkerSends, Send
  <2>2. /\ stack # <<>> /\ Top \in WorkerScenes /\ ModeOf[Top] = mode
        /\ result \in EventsOf(mode)
    BY <1>0, <2>1 DEF RunInv
  <2>3. /\ SceneOf(mode) = Top /\ ToCustom(result) \in 0..7
        /\ ToCustom(result) = 0 <=> result = "Success"
    BY <2>2, SceneOfMode, EventCodes, SceneFacts
  <2>4. queue = <<>> /\ popup = "none" /\ call \notin RunModes
    BY <1>0, <2>1 DEF OneEvent, PopupInv, Over
  <2>5. Len(queue') = 1 /\ queue'[1].code = ToCustom(result) /\ queue'[1].from = Top
    BY <2>1, <2>3, <2>4 DEF Event
  <2>6. OneEvent'
    <3>1. Waits(queue[1])'
      BY <2>1, <2>2, <2>3, <2>4, <2>5 DEF Waits, Top
    <3>2. call \in {"none", "stop"}
      BY <1>0, <2>4 DEF TypeInv
    <3> QED
      BY <2>1, <2>2, <2>5, <3>1, <3>2 DEF OneEvent, Over
  <2>7. WholeInv'
    <3>1. Top = "Read" => mode = "read"
      BY <2>2, SceneFacts
    <3> QED
      BY <1>0, <2>1, <2>3, <2>5, <3>1 DEF WholeInv, Whole
  <2>8. LeaveInv'
    BY <1>0, <2>1 DEF LeaveInv, Over
  <2>9. OrderInv' /\ FitsInv' /\ PopupInv' /\ SpoolInv'
    BY <1>0, <2>1, <2>4 DEF OrderInv, FitsInv, PopupInv, SpoolInv, OnSpool, Over, Top
  <2> QED
    BY <2>6, <2>7, <2>8, <2>9 DEF PatientInv
<1>3. ASSUME WorkerExits PROVE PatientInv'
  <2>1. /\ thread = "exiting" /\ thread' = "stopped" /\ UNCHANGED <<mode, call>>
        /\ UNCHANGED <<stack, goto, queue, popup, app, spool, wdata>>
    BY <1>3 DEF WorkerExits, Exit, guiVars
  <2>2. Sends(Top)' = Sends(Top) /\ Top' = Top
    BY <2>1 DEF Sends, Top
  <2>3. OneEvent'
    BY <1>0, <2>1, <2>2 DEF OneEvent, Waits, Over
  <2>4. WholeInv' /\ LeaveInv' /\ PopupInv'
    BY <1>0, <2>1, <2>2 DEF WholeInv, Whole, LeaveInv, PopupInv, Over
  <2>5. OrderInv' /\ FitsInv' /\ SpoolInv'
    BY <1>0, <2>1, <2>2 DEF OrderInv, FitsInv, SpoolInv, OnSpool
  <2> QED
    BY <2>3, <2>4, <2>5 DEF PatientInv
<1> QED
  BY <1>1, <1>2, <1>3 DEF WorkerThread

LEMMA InitPatient == Init => Patient
<1> SUFFICES ASSUME Init PROVE PatientInv
  BY InitBase DEF Patient
<1>1. /\ stack = <<"Start">> /\ goto = <<>> /\ queue = <<>> /\ popup = "none"
      /\ spool = NewSpool /\ thread = "stopped" /\ call = "none"
  BY DEF Init, WorkerInit
<1>2. Top = "Start"
  BY <1>1 DEF Top, Last
<1>3. \A i \in DOMAIN stack : i = 1
  BY <1>1
<1>4. OrderInv /\ FitsInv
  BY <1>1, <1>3, NoPath DEF OrderInv, FitsInv, Ordered, Fits
<1>5. OneEvent /\ WholeInv /\ LeaveInv /\ PopupInv /\ SpoolInv
  BY <1>1, <1>2, SceneFacts DEF OneEvent, WholeInv, LeaveInv, PopupInv, SpoolInv, OnSpool
<1> QED
  BY <1>4, <1>5 DEF PatientInv

LEMMA StepPatient == ~Hasty => (Patient /\ [Next]_vars => Patient')
<1> SUFFICES ASSUME ~Hasty, Patient, [Next]_vars PROVE PatientInv'
  BY StepBase DEF Patient
<1>1. CASE UNCHANGED vars
  <2>1. UNCHANGED <<stack, goto, queue, popup, app, wdata, spool, thread, mode, result, call>>
    BY <1>1 DEF vars, workerVars, guiVars
  <2> QED
    BY <2>1, SamePatient DEF Patient
<1> QED
  BY <1>1, HandlersPatient, PressPatient, BackPatient, SettingsPatient, ClosePatient,
     PopupPatient, BrowsePatient, ReturnsPatient, WorkerPatient
  DEF Next, Key

LEMMA PatientKept ==
    ASSUME ~Hasty
    PROVE  Spec => []Patient
<1>1. Patient /\ [Next]_vars => Patient'
  BY StepPatient
<1> QED
  BY <1>1, InitPatient, PTL DEF Spec

------------------------------------------------------------------------------
(* What follows for the patient user. *)

\* Whatever he does, the scene manager never holds a scene twice, so that going
\* back to a scene finds the one meant, and every variable keeps its type.
THEOREM SceneOnceAtMost ==
    ASSUME ~Hasty
    PROVE  Spec => []TypeOK
<1>1. Patient => TypeOK
  <2> SUFFICES ASSUME Patient PROVE TypeOK
    OBVIOUS
  <2>1. TypeInv /\ Ordered(stack)
    BY DEF Patient, BaseInv, PatientInv, OrderInv
  <2>2. IsInjective(stack)
    <3>1. Len(stack) \in Nat /\ DOMAIN stack = 1..Len(stack)
          /\ \A i \in DOMAIN stack : stack[i] \in Scenes
      BY <2>1, LenProperties, ElementOfSeq DEF TypeInv
    <3> SUFFICES ASSUME NEW i \in DOMAIN stack, NEW j \in DOMAIN stack, stack[i] = stack[j]
                 PROVE  i = j
      BY DEF IsInjective
    <3>2. Level(stack[i]) \in Nat
      BY <3>1, BelowFacts
    <3>3. ~(i < j) /\ ~(j < i)
      BY <2>1, <3>2 DEF Ordered
    <3> QED
      BY <3>1, <3>3
  <2>3. \A i \in DOMAIN queue : queue[i].code \in Nat /\ queue[i].from \in Scenes
    <3>1. \A i \in DOMAIN queue : queue[i] \in Queued
      BY <2>1, LenProperties, ElementOfSeq DEF TypeInv
    <3> QED
      BY <3>1 DEF Queued
  <2>4. app.tag_data \in Contents /\ app.tag_plain \in Contents /\ app.pending \in Contents
        /\ app.write_tag_index \in 0..1
    BY <2>1 DEF TypeInv, AppType
  <2>5. files \in [Names -> Records \cup {NoContent, "edited"}]
    BY <2>1 DEF TypeInv, Contents
  <2> QED
    BY <2>1, <2>2, <2>3, <2>4, <2>5 DEF TypeOK, TypeInv
<1> QED
  BY <1>1, PatientKept, PTL

LEMMA EventStep ==
    ASSUME Patient, Handles, Code \in Accepts(Top)
    PROVE  Head(queue).from = Top
<1>1. queue \in Seq(Queued) /\ queue # <<>> /\ Waits(queue[1])
  BY DEF Patient, BaseInv, TypeInv, PatientInv, OneEvent, Handles
<1>2. Head(queue) = queue[1] /\ queue[1] \in Queued /\ Code = queue[1].code
  BY <1>1 DEF Code
<1>3. Code \in Nat
  BY <1>2 DEF Queued
<1>4. ASSUME Top \in Returns, Code < 8 PROVE FALSE
  <2>1. Accepts("Start") = MenuIds /\ Accepts("EraseConfirm") = {ButtonErase}
        /\ Accepts("WriteConfirm") = {ButtonWrite, ButtonWriteDual, ButtonSave}
    BY DEF Accepts
  <2>2. \A c \in MenuIds \cup {ButtonErase, ButtonWrite, ButtonWriteDual, ButtonSave} :
            c >= 100
    BY MenuFacts DEF MenuBase, ButtonErase, ButtonWrite, ButtonWriteDual, ButtonSave
  <2>3. Code >= 100
    BY <1>4, <2>1, <2>2 DEF Returns
  <2> QED
    BY <1>3, <1>4, <2>3
<1> QED
  BY <1>1, <1>2, <1>4 DEF Waits

\* The worker's numbers, the menu's and the lists' overlap, yet an event that a
\* scene acts on is one of its own view or run (CfsCustomEvent).
THEOREM EventsFindTheirScene ==
    ASSUME ~Hasty
    PROVE  Spec => EventsReachTheirScene
<1>1. Patient /\ [Next]_vars =>
          [Handles /\ Code \in Accepts(Top) => Head(queue).from = Top]_vars
  BY EventStep
<1> QED
  BY <1>1, PatientKept, PTL DEF Spec, EventsReachTheirScene

\* A call that starts a run leaves the thread as it is.
LEMMA StartStep ==
    ASSUME Patient, Patient', Next, call = "none", call' \in RunModes
    PROVE  thread \in {"exiting", "stopped"}
<1>1. ASSUME NEW s, NEW a, Go(s, a) PROVE thread' = thread
  BY <1>1 DEF Go, CallStop, StartWrite, CallStart, workerVars
<1>2. ASSUME NEW a, NEW p, Stay(a, p) PROVE thread' = thread
  BY <1>2 DEF Stay, workerVars
<1>3. HandleEvent => thread' = thread
  BY <1>1, <1>2
  DEF HandleEvent, HandleMenu, HandleMenuWrite, HandleHelp, HandleReadDone,
      HandleReadError, HandleResultOpens, HandleResultSave, HandleReread,
      HandleTagActions, HandleView, HandleSavedWrite, HandleDelete, HandleBrand,
      HandleMaterial, HandleColor, HandleColorCustom, HandleWeight, HandleSerial,
      HandleConfirm, HandleConfirmSave, SaveFrom, HandleSaveName, HandleOverwrite,
      HandleWritten, HandleTag2, StartWrite, CallStart, HandleWriteFails,
      HandleEraseConfirm, HandleErased, HandleSettingsWeight, HandleNothing, Opens
<1>4. Key \/ PopupDone \/ Browse \/ Launch => thread' = thread
  BY <1>1, <1>2
  DEF Key, PressKey, PressBack, PressSettings, Close, CallStop, PopupDone, Browse, Launch,
      workerVars
<1>5. ~GuiReturns
  BY SceneFacts DEF GuiReturns, Return, ReturnStopped, ReturnStarted
<1>6. ~WorkerThread
  BY SceneFacts DEF WorkerThread, WorkerDecides, Decide, WorkerSends, Send, WorkerExits, Exit
<1>7. Over'
  BY DEF Patient, PatientInv, PopupInv
<1> QED
  BY <1>3, <1>4, <1>5, <1>6, <1>7 DEF Next, Over

\* start_write fills what a run reads before it stops the run; no run reads it then.
\* CfsNfcWorker takes this for granted (RunIsOver).
THEOREM StartsWhenOver ==
    ASSUME ~Hasty
    PROVE  Spec => StartsAfterTheRun
<1>1. Patient /\ Patient' /\ [Next]_vars =>
          [call = "none" /\ call' \in RunModes => thread \in {"exiting", "stopped"}]_vars
  BY StartStep DEF vars
<1> QED
  BY <1>1, PatientKept, PTL DEF Spec, StartsAfterTheRun

\* Where a write of a clone is shown or done, the struct holds one whole record: the
\* one shown is the one written (cfs_app_stage_write_from_loaded).
THEOREM CloneIsShown ==
    ASSUME ~Hasty
    PROVE  Spec => []CloneWritesWhatIsShown
<1>1. ASSUME Patient, stack # <<>>, Top \in {"WriteConfirm", "WriteProgress"}, app.write_exact
      PROVE  app.tag_plain = app.pending /\ app.tag_plain # NoContent
  <2> DEFINE n == Len(stack)
  <2>1. stack \in Stacks /\ Ordered(stack) /\ Fits(stack, app)
    BY <1>1
    DEF Patient, BaseInv, TypeInv, StackInv, PatientInv, OrderInv, FitsInv, Stacks
  <2>2. CASE Top = "WriteConfirm"
    BY <1>1, <2>1, <2>2, TopFits DEF Stands
  <2>3. CASE Top = "WriteProgress"
    <3>1. /\ n \in Nat /\ n > 1 /\ n - 1 \in 1..n /\ DOMAIN stack = 1..n
          /\ stack[n - 1] \in Below(Top)
      BY <2>1, <2>3, TopIs, StackLen DEF Top
    <3>2. stack[n - 1] = "WriteConfirm"
      BY <2>3, <3>1 DEF Below
    <3>3. n - 1 # 1
      BY <2>1, <3>2, StackLen
    <3>4. Stands(stack[n - 1], stack[n - 1 - 1], app)
      <4>1. n - 1 \in DOMAIN stack /\ n - 1 > 1
        BY <3>1, <3>3
      <4> HIDE DEF n
      <4> QED
        BY <2>1, <4>1 DEF Fits
    <3> QED
      BY <1>1, <3>2, <3>4 DEF Stands
  <2> QED
    BY <1>1, <2>2, <2>3
<1>2. Patient => CloneWritesWhatIsShown
  BY <1>1 DEF CloneWritesWhatIsShown
<1> QED
  BY <1>2, PatientKept, PTL

\* The read result screen holds a whole record unless the tag was blank, and it tells
\* a saved entry from a live read (result_read_only).
THEOREM ResultIsWhole ==
    ASSUME ~Hasty
    PROVE  Spec => []ResultKnowsItsOrigin
<1>1. ASSUME Patient, stack # <<>>, Top = "ReadResult"
      PROVE  /\ app.result_read_only <=> "SavedEntry" \in ToSet(stack)
             /\ ~app.is_blank => app.tag_data = app.tag_plain /\ app.tag_data # NoContent
  <2> DEFINE n == Len(stack)
  <2>1. stack \in Stacks /\ Ordered(stack) /\ Fits(stack, app)
    BY <1>1
    DEF Patient, BaseInv, TypeInv, StackInv, PatientInv, OrderInv, FitsInv, Stacks
  <2>2. /\ n \in Nat /\ n > 1 /\ n - 1 \in 1..n /\ DOMAIN stack = 1..n /\ Top = stack[n]
        /\ stack[n - 1] \in Below(Top) /\ Stands(Top, stack[n - 1], app)
    BY <1>1, <2>1, TopIs, StackLen DEF Top, Last
  <2>3. app.result_read_only <=> stack[n - 1] = "SavedEntry"
    BY <1>1, <2>2 DEF Stands
  <2>4. ASSUME NEW i \in 1..n, stack[i] = "SavedEntry" PROVE stack[n - 1] = "SavedEntry"
    <3> HIDE DEF n
    <3>1. stack[n - 1] \in {"Read", "SavedEntry"}
      BY <1>1, <2>2 DEF Below
    <3>2. i # n
      BY <1>1, <2>2, <2>4
    <3>3. ASSUME stack[n - 1] = "Read" PROVE FALSE
      <4>1. i = n - 1 \/ i < n - 1
        BY <2>2, <3>2
      <4>2. i < n - 1 => Level("SavedEntry") < Level("Read")
        BY <2>1, <2>2, <2>4, <3>3 DEF Ordered
      <4> QED
        BY <2>4, <3>3, <4>1, <4>2 DEF Level
    <3> QED
      BY <3>1, <3>3
  <2>5. "SavedEntry" \in ToSet(stack) <=> stack[n - 1] = "SavedEntry"
    BY <2>2, <2>4 DEF ToSet
  <2> QED
    BY <1>1, <2>2, <2>3, <2>5 DEF Stands, Loaded
<1>2. Patient => ResultKnowsItsOrigin
  BY <1>1 DEF ResultKnowsItsOrigin
<1> QED
  BY <1>2, PatientKept, PTL

\* Only a tag that was written moves the spool on; leaving the screen ends it.
LEMMA SpoolStep ==
    ASSUME Patient, Next, spool'.bumps # spool.bumps, spool' # NewSpool
    PROVE  /\ spool'.bumps = 1
           /\ spool'.results = IF app.dual_tag THEN 2 ELSE 1
<1>1. ASSUME NEW s, NEW a, Go(s, a) PROVE spool' = spool \/ spool' = NewSpool
  BY <1>1 DEF Go
<1>2. HandleEvent => HandleWritten \/ spool' = spool \/ spool' = NewSpool
  BY <1>1
  DEF HandleEvent, HandleMenu, HandleMenuWrite, HandleHelp, HandleReadDone,
      HandleReadError, HandleResultOpens, HandleResultSave, HandleReread,
      HandleTagActions, HandleView, HandleSavedWrite, HandleDelete, HandleBrand,
      HandleMaterial, HandleColor, HandleColorCustom, HandleWeight, HandleSerial,
      HandleConfirm, HandleConfirmSave, SaveFrom, HandleSaveName, HandleOverwrite,
      HandleTag2, HandleWriteFails, HandleEraseConfirm, HandleErased,
      HandleSettingsWeight, HandleNothing, Opens
<1>3. Key \/ PopupDone \/ Browse \/ GuiReturns \/ Launch \/ WorkerThread =>
          spool' = spool \/ spool' = NewSpool
  BY <1>1
  DEF Key, PressKey, PressBack, PressSettings, Close, PopupDone, Browse, GuiReturns, Launch,
      WorkerThread, WorkerDecides, WorkerSends, WorkerExits, guiVars
<1>4. HandleWritten
  BY <1>2, <1>3 DEF Next
<1> DEFINE bump == ~Pause /\ serial_mode = "sequential"
<1>5. /\ spool.results = app.write_tag_index /\ spool.bumps = 0
      /\ app.write_tag_index \in 0..1
      /\ app.write_tag_index = 1 => app.dual_tag
  BY <1>4, WrittenFacts
<1>6. spool' = [results |-> spool.results + 1, bumps |-> spool.bumps + IF bump THEN 1 ELSE 0]
  BY <1>4 DEF HandleWritten
<1>7. bump
  BY <1>5, <1>6
<1>8. IF app.dual_tag THEN app.write_tag_index = 1 ELSE app.write_tag_index = 0
  BY <1>5, <1>7 DEF Pause
<1> QED
  BY <1>5, <1>6, <1>7, <1>8

\* The sequential counter moves when the last tag of a spool is written, and once
\* (cfs_progress_bump_serial).
THEOREM BumpsOnce ==
    ASSUME ~Hasty
    PROVE  Spec => OneBumpPerSpool
<1>1. Patient /\ [Next]_vars =>
          [spool'.bumps # spool.bumps /\ spool' # NewSpool =>
              /\ spool'.bumps = 1
              /\ spool'.results = IF app.dual_tag THEN 2 ELSE 1]_vars
  BY SpoolStep
<1> QED
  BY <1>1, PatientKept, PTL DEF Spec, OneBumpPerSpool
=============================================================================
