----------------------------- MODULE CfsAppProofs -----------------------------
(***************************************************************************)
(* What CfsApp keeps whatever the user does, the hasty one too, for every  *)
(* number of records, names and waiting events: where the worker may be at *)
(* work, what the menu takes for a choice, which record a save belongs to  *)
(* and how a file may change.  CfsAppPatientProofs adds what needs a user  *)
(* who waits.                                                              *)
(***************************************************************************)
EXTENDS CfsApp, SequenceTheorems, WellFoundedInduction, TLAPS

AppType ==
    [tag_data : Contents, tag_plain : Contents, is_blank : BOOLEAN,
     result_read_only : BOOLEAN, pending : Contents, write_exact : BOOLEAN,
     dual_tag : BOOLEAN, write_tag_index : 0..1, save_from_write : BOOLEAN,
     save_name : Names, selected_path : Names]

Queued == [code : Nat, from : Scenes]

TypeInv ==
    /\ stack \in Seq(Scenes) /\ goto \in Seq(Scenes) /\ queue \in Seq(Queued)
    /\ popup \in {"none", "tag2", "done"}
    /\ app \in AppType
    /\ wdata \in [tag_data : Contents, read_plain : Contents]
    /\ serial_mode \in SerialModes
    /\ files \in [Names -> Contents]
    /\ thread \in {"stopped", "running", "sending", "exiting"}
    /\ mode \in Modes /\ stop \in BOOLEAN /\ call \in {"none", "stop"} \cup RunModes

\* The menu is at the bottom of a stack, and nowhere else on it.
Rooted(s) == s[1] = "Start" /\ \A i \in DOMAIN s : s[i] = "Start" => i = 1

Stacks == {s \in Seq(Scenes) : s # <<>> /\ Rooted(s)}

StackInv ==
    /\ stack # <<>> => Rooted(stack)
    /\ goto # <<>> => Rooted(goto) /\ stack # <<>> /\ call = "stop" /\ Top \in WorkerScenes

\* A thread that lives, or is to be started, is the run of the scene on top.
RunInv ==
    /\ call \in RunModes => stack # <<>> /\ Top \in WorkerScenes /\ ModeOf[Top] = call
    /\ thread # "stopped" => stack # <<>> /\ Top \in WorkerScenes /\ ModeOf[Top] = mode
    /\ thread # "stopped" /\ call = "none" => ~stop
    /\ thread = "sending" => result \in EventsOf(mode)

QueueInv ==
    \A i \in DOMAIN queue : queue[i].from \in WorkerScenes => queue[i].code < MenuBase

\* Where the save screens are on a stack: at its top, above the invoker.
SaveFits(s, fromWrite) ==
    \A i \in DOMAIN s :
        /\ s[i] = "SaveOverwrite" => i = Len(s) /\ i > 1 /\ s[i - 1] = "SaveName"
        /\ s[i] = "SaveName" =>
              /\ i > 1
              /\ s[i - 1] = IF fromWrite THEN "WriteConfirm" ELSE "ReadResult"
              /\ i = Len(s) \/ (i = Len(s) - 1 /\ s[i + 1] = "SaveOverwrite")

SaveInv ==
    SaveFits(stack, app.save_from_write) /\ SaveFits(goto, app.save_from_write)

BaseInv == TypeInv /\ StackInv /\ RunInv /\ QueueInv /\ SaveInv

------------------------------------------------------------------------------
(* Constants. *)

\* The scenes with a run, and the modes of their runs.
LEMMA SceneFacts ==
    /\ WorkerScenes = {"Read", "WriteProgress", "EraseProgress"}
    /\ WorkerScenes \subseteq Scenes
    /\ ModeOf["Read"] = "read" /\ ModeOf["WriteProgress"] = "write"
    /\ ModeOf["EraseProgress"] = "erase"
    /\ RunModes = {"read", "write", "erase"}
BY DEF WorkerScenes, ModeOf, Scenes, RunModes, Modes

\* A run's scene is found from its mode.
LEMMA SceneOfMode == \A s \in WorkerScenes : SceneOf(ModeOf[s]) = s
<1> SUFFICES ASSUME NEW s \in WorkerScenes PROVE SceneOf(ModeOf[s]) = s
  OBVIOUS
<1>1. \A r \in WorkerScenes : ModeOf[r] = ModeOf[s] <=> r = s
  BY SceneFacts
<1> QED
  BY <1>1 DEF SceneOf

\* The number of a worker event, of which only Success is 0.
LEMMA EventCodes ==
    \A m \in RunModes : \A e \in EventsOf(m) :
        /\ e \in WorkerEvents /\ ToCustom(e) \in 0..7
        /\ ToCustom(e) = 0 <=> e = "Success"
<1> SUFFICES ASSUME NEW m \in RunModes, NEW e \in EventsOf(m)
             PROVE  /\ e \in WorkerEvents /\ ToCustom(e) \in 0..7
                    /\ ToCustom(e) = 0 <=> e = "Success"
  OBVIOUS
<1>1. e \in WorkerEvents
  BY SceneFacts DEF EventsOf, WorkerEvents
<1>2. \E i \in 1..8 : WorkerCodes[i] = e
  BY <1>1 DEF WorkerEvents, EventsOf, WorkerCodes
<1>3. PICK i \in 1..8 : WorkerCodes[i] = e /\ ToCustom(e) = i - 1
  BY <1>2 DEF ToCustom, WorkerCodes
<1>4. i = 1 <=> e = "Success"
  BY <1>3 DEF WorkerCodes
<1> QED
  BY <1>1, <1>3, <1>4

LEMMA MenuFacts ==
    /\ ToSet(MenuTargets) = {"Read", "WriteBrand", "EraseConfirm", "SavedTags",
                             "Settings", "Help", "About"}
    /\ MenuIds \subseteq MenuBase..(MenuBase + 6)
<1>1. ToSet(MenuTargets) = {"Read", "WriteBrand", "EraseConfirm", "SavedTags",
                            "Settings", "Help", "About"}
  BY DEF ToSet, MenuTargets
<1>2. \A s \in ToSet(MenuTargets) : MenuId(s) \in MenuBase..(MenuBase + 6)
  BY DEF ToSet, MenuTargets, MenuId, MenuBase
<1> QED
  BY <1>1, <1>2 DEF MenuIds

\* What a view sends is a number, and that of a run's screen none of the menu.
LEMMA SendsFacts ==
    \A scene \in Scenes : \A c \in Sends(scene) :
        c \in Nat /\ (scene \in WorkerScenes => c < MenuBase)
<1> SUFFICES ASSUME NEW scene \in Scenes, NEW c \in Sends(scene)
             PROVE  c \in Nat /\ (scene \in WorkerScenes => c < MenuBase)
  OBVIOUS
<1> USE DEF ButtonWrite, ButtonWriteDual, ButtonSave, ButtonReread, ButtonWriteTag2,
            ButtonErase, ButtonOverwrite, ButtonDetails, MenuBase, ColorCount,
            BrandCount, MaterialCount, WeightCount, WorkerSuccess, OpResults
<1>1. Accepts(scene) \subseteq Nat
  BY MenuFacts DEF Accepts
<1>2. c \in Nat
  BY <1>1 DEF Sends
<1>3. scene \in WorkerScenes => c < MenuBase
  BY SceneFacts DEF Sends
<1> QED
  BY <1>2, <1>3

------------------------------------------------------------------------------
(* Stacks. *)

\* A set of positions has a last one.
LEMMA LastIndex ==
    ASSUME NEW n \in Nat, NEW I, I \subseteq 1..n, I # {}
    PROVE  \E i \in I : \A j \in I : j <= i
<1> DEFINE T == {n - i : i \in I}
           R == {ss \in Nat \X Nat : ss[1] < ss[2]}
<1>1. T \subseteq Nat
  <2> SUFFICES ASSUME NEW i \in I PROVE n - i \in Nat
    OBVIOUS
  <2> QED
    OBVIOUS
<1>2. T # {}
  OBVIOUS
<1>3. IsWellFoundedOn(R, Nat)
  <2>1. R = OpToRel(<, Nat)
    BY Zenon DEF OpToRel
  <2> QED
    BY <2>1, NatLessThanWellFounded
<1>4. PICK x \in T : \A y \in T : ~(<<y, x>> \in R)
  <2> HIDE DEF T, R
  <2> QED
    BY <1>1, <1>2, <1>3, WFMin
<1>5. \A y \in T : ~(y < x)
  BY <1>1, <1>4
<1> QED
  BY <1>5

LEMMA StackLen ==
    ASSUME NEW s \in Stacks
    PROVE  Len(s) \in Nat /\ Len(s) >= 1 /\ DOMAIN s = 1..Len(s) /\ s[1] = "Start"
           /\ \A i \in 1..Len(s) : s[i] \in Scenes
<1>1. s \in Seq(Scenes) /\ s # <<>>
  BY DEF Stacks
<1> QED
  BY <1>1, EmptySeq, LenProperties, ElementOfSeq DEF Stacks, Rooted

LEMMA PushIs ==
    ASSUME stack \in Stacks, NEW x \in Scenes \ {"Start"}
    PROVE  /\ Push(x) \in Stacks /\ Len(Push(x)) = Len(stack) + 1 /\ Last(Push(x)) = x
           /\ Push(x)[Len(stack) + 1] = x
           /\ \A i \in 1..Len(stack) : Push(x)[i] = stack[i]
<1>1. stack \in Seq(Scenes) /\ Len(stack) \in Nat /\ Len(stack) >= 1
      /\ DOMAIN stack = 1..Len(stack)
  BY StackLen DEF Stacks
<1>2. /\ Append(stack, x) \in Seq(Scenes) /\ Len(Append(stack, x)) = Len(stack) + 1
      /\ \A i \in 1..Len(stack) : Append(stack, x)[i] = stack[i]
      /\ Append(stack, x)[Len(stack) + 1] = x
  BY <1>1, AppendProperties
<1>3. DOMAIN Append(stack, x) = 1..(Len(stack) + 1)
  BY <1>2, LenProperties
<1>4. Rooted(Append(stack, x))
  BY <1>1, <1>2, <1>3 DEF Rooted, Stacks
<1>5. Append(stack, x) # <<>>
  BY <1>1, <1>2, EmptySeq
<1> QED
  BY <1>2, <1>4, <1>5 DEF Push, Stacks, Last

LEMMA PrefixIs ==
    ASSUME stack \in Stacks, NEW k \in 1..Len(stack), NEW s, s = SubSeq(stack, 1, k)
    PROVE  /\ s \in Stacks /\ Len(s) = k /\ Last(s) = stack[k]
           /\ \A i \in 1..k : s[i] = stack[i]
<1>1. stack \in Seq(Scenes) /\ Len(stack) \in Nat /\ DOMAIN stack = 1..Len(stack)
      /\ \A i \in 1..Len(stack) : stack[i] \in Scenes
  BY StackLen DEF Stacks
<1>2. \A i \in 1..k : stack[i] \in Scenes
  BY <1>1
<1>3. s \in Seq(Scenes) /\ Len(s) = k /\ \A i \in 1..k : s[i] = stack[i]
  BY <1>1, <1>2, SubSeqProperties
<1>4. DOMAIN s = 1..k /\ s # <<>>
  BY <1>3, LenProperties, EmptySeq
<1>5. Rooted(s)
  BY <1>1, <1>3, <1>4 DEF Rooted, Stacks
<1> QED
  BY <1>3, <1>4, <1>5 DEF Stacks, Last

LEMMA PopIs ==
    ASSUME stack \in Stacks, Top # "Start"
    PROVE  Len(stack) - 1 \in 1..Len(stack) /\ Pop = SubSeq(stack, 1, Len(stack) - 1)
<1>1. Len(stack) \in Nat /\ Len(stack) >= 1 /\ stack[1] = "Start"
  BY StackLen
<1>2. Len(stack) # 1
  BY <1>1 DEF Top, Last
<1> QED
  BY <1>1, <1>2 DEF Pop, Front

LEMMA BackToIs ==
    ASSUME stack \in Stacks, NEW x
    PROVE  \E k \in 1..Len(stack) :
               /\ BackTo(x) = SubSeq(stack, 1, k)
               /\ \A j \in 1..Len(stack) : stack[j] = x => j <= k
               /\ x \in ToSet(stack) => stack[k] = x
<1>1. stack \in Seq(Scenes) /\ Len(stack) \in Nat /\ Len(stack) >= 1
      /\ DOMAIN stack = 1..Len(stack)
  BY StackLen DEF Stacks
<1>2. CASE x \notin ToSet(stack)
  <2>1. BackTo(x) = SubSeq(stack, 1, Len(stack))
    BY <1>1, <1>2, SubSeqFull DEF BackTo
  <2>2. Len(stack) \in 1..Len(stack)
    BY <1>1
  <2>3. \A j \in 1..Len(stack) : j <= Len(stack)
    BY <1>1
  <2> QED
    BY <1>2, <2>1, <2>2, <2>3
<1>3. CASE x \in ToSet(stack)
  <2> DEFINE I == {i \in 1..Len(stack) : stack[i] = x}
  <2>1. I \subseteq 1..Len(stack) /\ I # {}
    BY <1>1, <1>3 DEF ToSet
  <2>2. \E i \in I : \A j \in I : j <= i
    <3> HIDE DEF I
    <3> QED
      BY <1>1, <2>1, LastIndex
  <2>3. \E i \in DOMAIN stack :
            stack[i] = x /\ \A j \in DOMAIN stack : stack[j] = x => j <= i
    BY <1>1, <2>2
  <2>4. PICK k \in DOMAIN stack :
            /\ BackTo(x) = SubSeq(stack, 1, k)
            /\ stack[k] = x /\ \A j \in DOMAIN stack : stack[j] = x => j <= k
    BY <1>3, <2>3 DEF BackTo
  <2> QED
    BY <1>1, <2>4
<1> QED
  BY <1>2, <1>3

------------------------------------------------------------------------------
(* The save screens. *)

LEMMA SavePrefix ==
    ASSUME stack \in Stacks, NEW k \in 1..Len(stack), NEW b, SaveFits(stack, b)
    PROVE  SaveFits(SubSeq(stack, 1, k), b)
<1> DEFINE s == SubSeq(stack, 1, k)
<1>1. Len(stack) \in Nat /\ DOMAIN stack = 1..Len(stack)
  BY StackLen
<1>2. s \in Stacks /\ Len(s) = k /\ \A i \in 1..k : s[i] = stack[i]
  BY PrefixIs
<1>3. DOMAIN s = 1..k
  BY <1>2, StackLen
<1> HIDE DEF s
<1>4. SaveFits(s, b)
  BY <1>1, <1>2, <1>3 DEF SaveFits
<1> QED
  BY <1>4 DEF s

\* Under a screen that is not a save screen there is none.
LEMMA NoSaveBelow ==
    ASSUME stack \in Stacks, NEW b, SaveFits(stack, b), Top \notin {"SaveName", "SaveOverwrite"}
    PROVE  /\ \A i \in 1..Len(stack) : stack[i] \notin {"SaveName", "SaveOverwrite"}
           /\ \A c : SaveFits(stack, c)
<1>1. Len(stack) \in Nat /\ Len(stack) >= 1 /\ DOMAIN stack = 1..Len(stack)
  BY StackLen
<1>2. \A i \in 1..Len(stack) : stack[i] \notin {"SaveName", "SaveOverwrite"}
  BY <1>1 DEF SaveFits, Top, Last
<1> QED
  BY <1>1, <1>2 DEF SaveFits

LEMMA SavePush ==
    ASSUME stack \in Stacks, NEW b, NEW c, SaveFits(stack, b),
           NEW x \in Scenes \ {"Start"},
           \/ Top \notin {"SaveName", "SaveOverwrite"} /\ x \notin {"SaveName", "SaveOverwrite"}
           \/ Top = "SaveName" /\ x = "SaveOverwrite" /\ b = c
           \/ x = "SaveName" /\ Top = IF c THEN "WriteConfirm" ELSE "ReadResult"
    PROVE  SaveFits(Push(x), c)
<1> DEFINE s == Push(x)
           n == Len(stack)
<1>1. n \in Nat /\ n >= 1 /\ DOMAIN stack = 1..n /\ Top = stack[n]
  BY StackLen DEF Top, Last
<1>2. s \in Stacks /\ Len(s) = n + 1 /\ s[n + 1] = x /\ \A i \in 1..n : s[i] = stack[i]
  BY PushIs
<1>3. DOMAIN s = 1..(n + 1)
  BY <1>2, StackLen
<1> HIDE DEF s, n
<1>4. CASE Top \notin {"SaveName", "SaveOverwrite"} /\ x \notin {"SaveName", "SaveOverwrite"}
  <2>1. \A i \in 1..n : stack[i] \notin {"SaveName", "SaveOverwrite"}
    BY <1>4, NoSaveBelow DEF n
  <2>2. \A i \in 1..(n + 1) : s[i] \notin {"SaveName", "SaveOverwrite"}
    <3> SUFFICES ASSUME NEW i \in 1..(n + 1) PROVE s[i] \notin {"SaveName", "SaveOverwrite"}
      OBVIOUS
    <3>1. i \in 1..n \/ i = n + 1
      BY <1>1
    <3> QED
      BY <1>2, <1>4, <2>1, <3>1
  <2> QED
    BY <1>3, <2>2 DEF SaveFits, s
<1>5. CASE Top = "SaveName" /\ x = "SaveOverwrite" /\ b = c
  <2>1. SaveFits(stack, c)
    BY <1>5
  <2> SUFFICES ASSUME NEW i \in 1..(n + 1)
      PROVE  /\ s[i] = "SaveOverwrite" => i = n + 1 /\ i > 1 /\ s[i - 1] = "SaveName"
             /\ s[i] = "SaveName" =>
                   /\ i > 1
                   /\ s[i - 1] = IF c THEN "WriteConfirm" ELSE "ReadResult"
                   /\ i = n + 1 \/ (i = n /\ s[i + 1] = "SaveOverwrite")
    BY <1>1, <1>2, <1>3 DEF SaveFits, s
  <2>2. CASE i = n + 1
    <3>1. i > 1 /\ i - 1 = n /\ n \in 1..n
      BY <1>1, <2>2
    <3>2. s[i] = "SaveOverwrite"
      BY <1>2, <1>5, <2>2
    <3>3. s[i - 1] = Top
      BY <1>1, <1>2, <3>1
    <3> QED
      BY <1>5, <2>2, <3>1, <3>2, <3>3
  <2>3. CASE i \in 1..n
    <3>1. s[i] = stack[i] /\ (i > 1 => i - 1 \in 1..n /\ s[i - 1] = stack[i - 1])
      BY <1>1, <1>2, <2>3
    <3>2. stack[i] # "SaveOverwrite"
      BY <1>1, <1>5, <2>1, <2>3 DEF SaveFits, n
    <3>3. ASSUME stack[i] = "SaveName"
          PROVE  /\ i > 1 /\ stack[i - 1] = IF c THEN "WriteConfirm" ELSE "ReadResult"
                 /\ i = n
      <4>1. /\ i > 1 /\ stack[i - 1] = IF c THEN "WriteConfirm" ELSE "ReadResult"
            /\ i = n \/ (i = n - 1 /\ stack[i + 1] = "SaveOverwrite")
        BY <1>1, <2>1, <2>3, <3>3 DEF SaveFits, n
      <4>2. ASSUME i = n - 1, stack[i + 1] = "SaveOverwrite" PROVE FALSE
        <5>1. i + 1 = n
          BY <1>1, <4>2
        <5>2. stack[n] = "SaveOverwrite"
          BY <4>2, <5>1
        <5> QED
          BY <1>1, <1>5, <5>2
      <4> QED
        BY <4>1, <4>2
    <3> QED
      BY <1>1, <1>2, <1>5, <3>1, <3>2, <3>3
  <2>4. i = n + 1 \/ i \in 1..n
    BY <1>1
  <2> QED
    BY <2>2, <2>3, <2>4
<1>6. CASE x = "SaveName" /\ Top = IF c THEN "WriteConfirm" ELSE "ReadResult"
  <2>1. Top \notin {"SaveName", "SaveOverwrite"}
    BY <1>6
  <2>2. \A i \in 1..n : stack[i] \notin {"SaveName", "SaveOverwrite"}
    BY <2>1, NoSaveBelow DEF n
  <2> SUFFICES ASSUME NEW i \in 1..(n + 1)
      PROVE  /\ s[i] = "SaveOverwrite" => i = n + 1 /\ i > 1 /\ s[i - 1] = "SaveName"
             /\ s[i] = "SaveName" =>
                   /\ i > 1
                   /\ s[i - 1] = IF c THEN "WriteConfirm" ELSE "ReadResult"
                   /\ i = n + 1 \/ (i = n /\ s[i + 1] = "SaveOverwrite")
    BY <1>1, <1>2, <1>3 DEF SaveFits, s
  <2>3. CASE i = n + 1
    <3>1. i > 1 /\ i - 1 = n /\ n \in 1..n
      BY <1>1, <2>3
    <3>2. s[i] = "SaveName"
      BY <1>2, <1>6, <2>3
    <3>3. s[i - 1] = Top
      BY <1>1, <1>2, <3>1
    <3> QED
      BY <1>6, <2>3, <3>1, <3>2, <3>3
  <2>4. CASE i \in 1..n
    BY <1>2, <2>2, <2>4
  <2>5. i = n + 1 \/ i \in 1..n
    BY <1>1
  <2> QED
    BY <2>3, <2>4, <2>5
<1> QED
  BY <1>4, <1>5, <1>6

------------------------------------------------------------------------------
(* Steps of the scene manager. *)

\* The GUI thread acts: it is in no call, and a scene is on top.
Acts == call = "none" /\ stack # <<>>

LEMMA ActsFacts ==
    ASSUME BaseInv, Acts
    PROVE  /\ stack \in Stacks /\ goto = <<>>
           /\ Top \notin WorkerScenes => thread = "stopped"
BY SceneFacts DEF BaseInv, TypeInv, StackInv, RunInv, Acts, Stacks, RunModes

\* The part of on_enter that touches the struct keeps its type.
LEMMA EnteredType ==
    ASSUME NEW a \in AppType, NEW x
    PROVE  Entered(x, a) \in AppType /\ Entered(x, a).save_from_write = a.save_from_write
<1>1. [a EXCEPT !.result_read_only = FALSE] \in AppType
      /\ [a EXCEPT !.result_read_only = FALSE].save_from_write = a.save_from_write
  BY DEF AppType
<1>2. [a EXCEPT !.write_tag_index = 0] \in AppType
      /\ [a EXCEPT !.write_tag_index = 0].save_from_write = a.save_from_write
  BY DEF AppType
<1> QED
  BY <1>1, <1>2 DEF Entered

\* An event leaves the queue, or none does.
LEMMA QueueShrinks ==
    ASSUME BaseInv, queue' = queue \/ (queue # <<>> /\ queue' = Tail(queue))
    PROVE  queue' \in Seq(Queued) /\ QueueInv'
<1>1. CASE queue' = queue
  BY <1>1 DEF BaseInv, TypeInv, QueueInv
<1>2. CASE queue # <<>> /\ queue' = Tail(queue)
  <2>1. queue \in Seq(Queued)
    BY DEF BaseInv, TypeInv
  <2>2. /\ queue' \in Seq(Queued) /\ Len(queue') = Len(queue) - 1
        /\ \A i \in 1..Len(queue') : queue'[i] = queue[i + 1]
    BY <1>2, <2>1, HeadTailProperties
  <2>3. DOMAIN queue' = 1..Len(queue') /\ DOMAIN queue = 1..Len(queue) /\ Len(queue) \in Nat
    BY <2>1, <2>2, LenProperties
  <2>4. \A i \in DOMAIN queue' : i + 1 \in DOMAIN queue /\ queue'[i] = queue[i + 1]
    BY <2>2, <2>3
  <2> QED
    BY <2>2, <2>4 DEF BaseInv, QueueInv
<1> QED
  BY <1>1, <1>2

\* What the GUI thread does to the rest of the state, a move apart.
Beside ==
    /\ queue' = queue \/ (queue # <<>> /\ queue' = Tail(queue))
    /\ files' \in [Names -> Contents]
    /\ serial_mode' \in SerialModes

\* A change of scenes that stops the run of the scene on top.
LEMMA GoStops ==
    ASSUME BaseInv, Acts, Beside, NEW s \in Stacks, NEW a \in AppType, Go(s, a),
           SaveFits(s, a.save_from_write), SaveFits(stack, a.save_from_write),
           Top \in WorkerScenes
    PROVE  BaseInv'
<1>1. /\ popup' = "none" /\ CallStop /\ goto' = s /\ app' = a
      /\ stack' = stack /\ wdata' = wdata
  BY DEF Go, Stops
<1>2. /\ call' = "stop" /\ stop' = TRUE
      /\ UNCHANGED <<thread, mode, result, sent>>
  BY <1>1 DEF CallStop
<1>3. s \in Seq(Scenes) /\ Rooted(s)
  BY DEF Stacks
<1>4. TypeInv'
  BY <1>1, <1>2, <1>3, QueueShrinks DEF BaseInv, TypeInv, Beside
<1>5. StackInv'
  BY <1>1, <1>2, <1>3 DEF BaseInv, StackInv, Acts, Top
<1>6. RunInv'
  BY <1>1, <1>2, SceneFacts DEF BaseInv, RunInv, Top
<1>7. SaveInv'
  BY <1>1 DEF SaveInv
<1> QED
  BY <1>4, <1>5, <1>6, <1>7, QueueShrinks DEF BaseInv, Beside

\* A change of scenes that stops nothing may start a run.
LEMMA GoStarts ==
    ASSUME BaseInv, Acts, Beside, NEW s \in Stacks, NEW a \in AppType, Go(s, a),
           SaveFits(s, a.save_from_write),
           Top \notin WorkerScenes
    PROVE  BaseInv'
<1>1. /\ popup' = "none" /\ stack' = s /\ app' = Entered(Last(s), a) /\ goto' = goto
      /\ CASE Last(s) = "WriteProgress" -> StartWrite(a)
           [] Last(s) \in WorkerScenes \ {"WriteProgress"} ->
                CallStart(ModeOf[Last(s)]) /\ UNCHANGED wdata
           [] OTHER -> UNCHANGED <<workerVars, wdata>>
  BY DEF Go, Stops
<1>2. goto = <<>> /\ thread = "stopped" /\ stack \in Stacks
  BY ActsFacts
<1>3. s \in Seq(Scenes) /\ Rooted(s) /\ s # <<>>
  BY DEF Stacks
<1>4. app' \in AppType /\ app'.save_from_write = a.save_from_write
  BY <1>1, EnteredType
<1>5. /\ wdata' \in [tag_data : Contents, read_plain : Contents]
      /\ UNCHANGED <<thread, mode, result>> /\ stop' \in BOOLEAN
      /\ \/ call' = "none"
         \/ Last(s) \in WorkerScenes /\ call' = ModeOf[Last(s)]
  <2>1. wdata \in [tag_data : Contents, read_plain : Contents] /\ stop \in BOOLEAN
    BY DEF BaseInv, TypeInv
  <2>2. CASE Last(s) = "WriteProgress"
    <3>1. CallStart("write")
          /\ wdata' = IF a.write_exact THEN wdata ELSE [wdata EXCEPT !.tag_data = a.pending]
      BY <1>1, <2>2 DEF StartWrite
    <3>2. a.pending \in Contents
      BY DEF AppType
    <3>3. wdata' \in [tag_data : Contents, read_plain : Contents]
      BY <2>1, <3>1, <3>2
    <3> QED
      BY <2>2, <3>1, <3>3, SceneFacts DEF CallStart
  <2>3. CASE Last(s) \in WorkerScenes \ {"WriteProgress"}
    <3>1. CallStart(ModeOf[Last(s)]) /\ wdata' = wdata
      BY <1>1, <2>3
    <3> QED
      BY <2>1, <2>3, <3>1 DEF CallStart
  <2>4. CASE Last(s) \notin WorkerScenes
    <3>1. UNCHANGED <<workerVars, wdata>>
      BY <1>1, <2>4, SceneFacts
    <3> QED
      BY <2>1, <3>1 DEF workerVars, Acts
  <2> QED
    BY <2>2, <2>3, <2>4
<1>6. call' \in {"none", "stop"} \cup RunModes
  BY <1>5, SceneFacts
<1>7. TypeInv'
  BY <1>1, <1>2, <1>3, <1>4, <1>5, <1>6, QueueShrinks DEF BaseInv, TypeInv, Beside
<1>8. StackInv'
  BY <1>1, <1>2, <1>3 DEF StackInv
<1>9. RunInv'
  BY <1>1, <1>2, <1>3, <1>5, SceneFacts DEF RunInv, Top
<1>10. SaveInv'
  <2>1. SaveFits(<<>>, a.save_from_write)
    BY DEF SaveFits
  <2> QED
    BY <1>1, <1>2, <1>4, <2>1 DEF SaveInv
<1> QED
  BY <1>7, <1>8, <1>9, <1>10, QueueShrinks DEF BaseInv, Beside

LEMMA GoBase ==
    ASSUME BaseInv, Acts, Beside, NEW s \in Stacks, NEW a \in AppType, Go(s, a),
           SaveFits(s, a.save_from_write), SaveFits(stack, a.save_from_write)
    PROVE  BaseInv'
BY GoStops, GoStarts

\* The stack is cut back, and nothing about the save screens changes.
LEMMA GoBackBase ==
    ASSUME BaseInv, Acts, Beside, NEW k \in 1..Len(stack), NEW a \in AppType,
           a.save_from_write = app.save_from_write, Go(SubSeq(stack, 1, k), a)
    PROVE  BaseInv'
<1>1. stack \in Stacks
  BY ActsFacts
<1>2. SubSeq(stack, 1, k) \in Stacks
  BY <1>1, PrefixIs
<1>3. SaveFits(stack, a.save_from_write)
  BY DEF BaseInv, SaveInv
<1>4. SaveFits(SubSeq(stack, 1, k), a.save_from_write)
  BY <1>1, <1>3, SavePrefix
<1> QED
  BY <1>2, <1>3, <1>4, GoBase

LEMMA PopBase ==
    ASSUME BaseInv, Acts, Beside, Top # "Start", Go(Pop, app)
    PROVE  BaseInv'
<1>1. stack \in Stacks /\ app \in AppType
  BY ActsFacts DEF BaseInv, TypeInv
<1>2. Len(stack) - 1 \in 1..Len(stack) /\ Pop = SubSeq(stack, 1, Len(stack) - 1)
  BY <1>1, PopIs
<1> QED
  BY <1>1, <1>2, GoBackBase

LEMMA BackToBase ==
    ASSUME BaseInv, Acts, Beside, NEW x, Go(BackTo(x), app)
    PROVE  BaseInv'
<1>1. stack \in Stacks /\ app \in AppType
  BY ActsFacts DEF BaseInv, TypeInv
<1>2. PICK k \in 1..Len(stack) : BackTo(x) = SubSeq(stack, 1, k)
  BY <1>1, BackToIs
<1> QED
  BY <1>1, <1>2, GoBackBase

\* A scene that is no save screen is pushed on one that is none.
LEMMA PushBase ==
    ASSUME BaseInv, Acts, Beside, NEW x \in Scenes \ {"Start", "SaveName", "SaveOverwrite"},
           Top \notin {"SaveName", "SaveOverwrite"},
           NEW a \in AppType, a.save_from_write = app.save_from_write, Go(Push(x), a)
    PROVE  BaseInv'
<1>1. stack \in Stacks
  BY ActsFacts
<1>2. Push(x) \in Stacks
  BY <1>1, PushIs
<1>3. SaveFits(stack, a.save_from_write)
  BY DEF BaseInv, SaveInv
<1>4. SaveFits(Push(x), a.save_from_write)
  BY <1>1, <1>3, SavePush
<1> QED
  BY <1>2, <1>3, <1>4, GoBase

\* The save screen is pushed on the one whose record the flag names.
LEMMA PushSaveBase ==
    ASSUME BaseInv, Acts, Beside, NEW a \in AppType, Go(Push("SaveName"), a),
           Top = IF a.save_from_write THEN "WriteConfirm" ELSE "ReadResult"
    PROVE  BaseInv'
<1>1. stack \in Stacks
  BY ActsFacts
<1>2. Push("SaveName") \in Stacks
  BY <1>1, PushIs DEF Scenes
<1>3. SaveFits(stack, app.save_from_write) /\ Top \notin {"SaveName", "SaveOverwrite"}
  BY DEF BaseInv, SaveInv
<1>4. SaveFits(stack, a.save_from_write)
  BY <1>1, <1>3, NoSaveBelow
<1>5. SaveFits(Push("SaveName"), a.save_from_write)
  BY <1>1, <1>3, SavePush DEF Scenes
<1> QED
  BY <1>2, <1>4, <1>5, GoBase

\* The scene stays.
LEMMA StayBase ==
    ASSUME BaseInv, Beside, NEW p \in {"none", "tag2", "done"}, Stay(app, p)
    PROVE  BaseInv'
<1>1. /\ app' = app /\ popup' = p
      /\ UNCHANGED <<thread, mode, stop, call, result, sent, stack, goto, wdata>>
  BY DEF Stay, workerVars
<1>2. TypeInv'
  BY <1>1, QueueShrinks DEF BaseInv, TypeInv, Beside
<1>3. StackInv' /\ RunInv' /\ SaveInv'
  BY <1>1 DEF BaseInv, StackInv, RunInv, SaveInv, Top
<1> QED
  BY <1>2, <1>3, QueueShrinks DEF BaseInv, Beside

------------------------------------------------------------------------------
(* The handlers. *)

LEMMA TakeFacts ==
    ASSUME BaseInv, NEW scene, Take(scene)
    PROVE  /\ Acts /\ Top = scene /\ queue # <<>> /\ queue' = Tail(queue)
           /\ stack \in Stacks /\ goto = <<>>
           /\ app \in AppType /\ files \in [Names -> Contents] /\ serial_mode \in SerialModes
<1>1. Acts
  BY DEF Take, Idle, Acts
<1> QED
  BY <1>1, ActsFacts DEF Take, BaseInv, TypeInv

\* An event opens a scene, neither being a save screen.
LEMMA OpensBase ==
    ASSUME BaseInv, NEW from, from \notin {"SaveName", "SaveOverwrite"}, NEW code,
           NEW to \in Scenes \ {"Start", "SaveName", "SaveOverwrite"},
           NEW a \in AppType, a.save_from_write = app.save_from_write,
           Opens(from, code, to, a)
    PROVE  BaseInv'
<1>1. Take(from) /\ Go(Push(to), a) /\ UNCHANGED <<serial_mode, files>>
  BY DEF Opens
<1>2. Acts /\ Beside /\ Top = from
  BY <1>1, TakeFacts DEF Beside
<1> QED
  BY <1>1, <1>2, PushBase

\* The struct as the handlers leave it.
LEMMA StructFacts ==
    ASSUME app \in AppType
    PROVE  /\ Fresh \in AppType /\ Fresh.save_from_write = app.save_from_write
           /\ Edited \in AppType /\ Edited.save_from_write = app.save_from_write
           /\ \A x \in BOOLEAN :
                 Staged(x) \in AppType /\ Staged(x).save_from_write = app.save_from_write
           /\ \A d, p \in Contents, b \in BOOLEAN :
                 LET a == [app EXCEPT !.tag_data = d, !.tag_plain = p, !.is_blank = b]
                 IN  a \in AppType /\ a.save_from_write = app.save_from_write
           /\ \A f \in BOOLEAN, n \in Names :
                 LET a == [app EXCEPT !.save_from_write = f, !.save_name = n]
                 IN  a \in AppType /\ a.save_from_write = f
           /\ \A d \in BOOLEAN :
                 LET a == [app EXCEPT !.dual_tag = d]
                 IN  a \in AppType /\ a.save_from_write = app.save_from_write
           /\ LET a == [app EXCEPT !.is_blank = FALSE, !.result_read_only = TRUE]
              IN  a \in AppType /\ a.save_from_write = app.save_from_write
           /\ \A d \in Contents, n \in Names :
                 LET a == [app EXCEPT !.tag_data = d, !.tag_plain = d, !.is_blank = FALSE,
                                      !.selected_path = n]
                 IN  a \in AppType /\ a.save_from_write = app.save_from_write
BY DEF AppType, Fresh, Edited, Staged, Contents

\* The steps of the menu, the help and the reader's screens.
LEMMA BrowsingBase ==
    ASSUME BaseInv,
           \/ HandleMenu \/ HandleMenuWrite \/ HandleHelp \/ HandleReadDone
           \/ HandleReadError \/ HandleResultOpens \/ HandleReread \/ HandleView
           \/ HandleEraseConfirm
    PROVE  BaseInv'
<1>0. app \in AppType
  BY DEF BaseInv, TypeInv
<1>1. ASSUME HandleMenu PROVE BaseInv'
  <2>1. PICK s \in ToSet(MenuTargets) \ {"WriteBrand"} : Opens("Start", MenuId(s), s, app)
    BY <1>1 DEF HandleMenu
  <2>2. s \in Scenes \ {"Start", "SaveName", "SaveOverwrite"}
    BY MenuFacts DEF Scenes
  <2> QED
    BY <1>0, <2>1, <2>2, OpensBase
<1>2. ASSUME HandleMenuWrite PROVE BaseInv'
  BY <1>0, <1>2, OpensBase, StructFacts DEF HandleMenuWrite, Scenes
<1>3. ASSUME HandleHelp PROVE BaseInv'
  <2>1. Take("Help") /\ Go(Push("HelpTopic"), app) /\ UNCHANGED <<serial_mode, files>>
    BY <1>3 DEF HandleHelp
  <2>2. Acts /\ Beside /\ Top = "Help"
    BY <2>1, TakeFacts DEF Beside
  <2> QED
    BY <1>0, <2>1, <2>2, PushBase DEF Scenes
<1>4. ASSUME HandleReadDone PROVE BaseInv'
  <2> DEFINE a == [app EXCEPT !.tag_data = wdata.tag_data, !.tag_plain = wdata.read_plain,
                              !.is_blank = (Code = WorkerBlankTag)]
  <2>1. Take("Read") /\ Go(Push("ReadResult"), a) /\ UNCHANGED <<serial_mode, files>>
    BY <1>4 DEF HandleReadDone
  <2>2. Acts /\ Beside /\ Top = "Read"
    BY <2>1, TakeFacts DEF Beside
  <2>3. wdata.tag_data \in Contents /\ wdata.read_plain \in Contents
    BY DEF BaseInv, TypeInv
  <2>4. a \in AppType /\ a.save_from_write = app.save_from_write
    BY <1>0, <2>3 DEF AppType
  <2> HIDE DEF a
  <2> QED
    BY <2>1, <2>2, <2>4, PushBase DEF Scenes
<1>5. ASSUME HandleReadError PROVE BaseInv'
  <2>1. Take("Read") /\ Stay(app, "none") /\ UNCHANGED <<serial_mode, files>>
    BY <1>5 DEF HandleReadError
  <2> QED
    BY <2>1, TakeFacts, StayBase DEF Beside
<1>6. ASSUME HandleResultOpens PROVE BaseInv'
  BY <1>0, <1>6, OpensBase DEF HandleResultOpens, Scenes
<1>7. ASSUME HandleReread PROVE BaseInv'
  <2>1. Take("ReadResult") /\ UNCHANGED <<serial_mode, files>>
        /\ Go(IF "Read" \in ToSet(stack) THEN BackTo("Read") ELSE Push("Read"), app)
    BY <1>7 DEF HandleReread
  <2>2. Acts /\ Beside /\ Top = "ReadResult"
    BY <2>1, TakeFacts DEF Beside
  <2>3. CASE "Read" \in ToSet(stack)
    BY <2>1, <2>2, <2>3, BackToBase
  <2>4. CASE "Read" \notin ToSet(stack)
    BY <1>0, <2>1, <2>2, <2>4, PushBase DEF Scenes
  <2> QED
    BY <2>3, <2>4
<1>8. ASSUME HandleView PROVE BaseInv'
  BY <1>0, <1>8, OpensBase, StructFacts DEF HandleView, Scenes
<1>9. ASSUME HandleEraseConfirm PROVE BaseInv'
  BY <1>0, <1>9, OpensBase DEF HandleEraseConfirm, Scenes
<1> QED
  BY <1>1, <1>2, <1>3, <1>4, <1>5, <1>6, <1>7, <1>8, <1>9

\* The steps that stage a write and take it through the wizard.
LEMMA WizardBase ==
    ASSUME BaseInv,
           \/ HandleTagActions \/ HandleSavedWrite \/ HandleBrand \/ HandleMaterial
           \/ HandleColor \/ HandleColorCustom \/ HandleWeight \/ HandleSerial
           \/ HandleConfirm
    PROVE  BaseInv'
<1>0. app \in AppType
  BY DEF BaseInv, TypeInv
<1>1. ASSUME HandleTagActions PROVE BaseInv'
  BY <1>0, <1>1, OpensBase, StructFacts DEF HandleTagActions, Scenes
<1>2. ASSUME HandleSavedWrite PROVE BaseInv'
  BY <1>0, <1>2, OpensBase, StructFacts DEF HandleSavedWrite, Scenes
<1>3. ASSUME HandleBrand PROVE BaseInv'
  BY <1>0, <1>3, OpensBase, StructFacts DEF HandleBrand, Scenes
<1>4. ASSUME HandleMaterial PROVE BaseInv'
  BY <1>0, <1>4, OpensBase, StructFacts DEF HandleMaterial, Scenes
<1>5. ASSUME HandleColor PROVE BaseInv'
  BY <1>0, <1>5, OpensBase, StructFacts DEF HandleColor, Scenes
<1>6. ASSUME HandleColorCustom PROVE BaseInv'
  BY <1>0, <1>6, OpensBase, StructFacts DEF HandleColorCustom, Scenes
<1>7. ASSUME HandleWeight PROVE BaseInv'
  <2> DEFINE to == IF serial_mode = "prompt" THEN "WriteSerial" ELSE "WriteConfirm"
  <2>1. PICK c \in Accepts("WriteWeight") : Opens("WriteWeight", c, to, Edited)
    BY <1>7 DEF HandleWeight
  <2>2. to \in Scenes \ {"Start", "SaveName", "SaveOverwrite"}
    BY DEF Scenes
  <2> HIDE DEF to
  <2> QED
    BY <1>0, <2>1, <2>2, OpensBase, StructFacts
<1>8. ASSUME HandleSerial PROVE BaseInv'
  BY <1>0, <1>8, OpensBase DEF HandleSerial, Scenes
<1>9. ASSUME HandleConfirm PROVE BaseInv'
  <2>1. PICK c \in {ButtonWrite, ButtonWriteDual} :
            Opens("WriteConfirm", c, "WriteProgress",
                  [app EXCEPT !.dual_tag = (c = ButtonWriteDual)])
    BY <1>9 DEF HandleConfirm
  <2>2. (c = ButtonWriteDual) \in BOOLEAN
    OBVIOUS
  <2> QED
    BY <1>0, <2>1, <2>2, OpensBase, StructFacts DEF Scenes
<1> QED
  BY <1>1, <1>2, <1>3, <1>4, <1>5, <1>6, <1>7, <1>8, <1>9

\* A screen pops to the one below; the settings stay as they are.
LEMMA TakePopBase ==
    ASSUME BaseInv, NEW scene, scene # "Start", Take(scene), Go(Pop, app),
           files' \in [Names -> Contents], serial_mode' = serial_mode
    PROVE  BaseInv'
<1>1. Acts /\ Beside /\ Top = scene
  BY TakeFacts DEF Beside
<1> QED
  BY <1>1, PopBase

\* Whatever is saved is of the type of a file's content.
LEMMA SaveType ==
    ASSUME BaseInv, SavePending
    PROVE  /\ files' \in [Names -> Contents]
           /\ \A n \in Names : n # app.save_name => files'[n] = files[n]
<1>1. app \in AppType /\ files \in [Names -> Contents]
  BY DEF BaseInv, TypeInv
<1>2. (IF app.save_from_write THEN app.pending ELSE app.tag_plain) \in Contents
  BY <1>1 DEF AppType
<1> QED
  BY <1>1, <1>2 DEF SavePending

\* The steps that save a record or remove one.
LEMMA SavingBase ==
    ASSUME BaseInv,
           \/ HandleResultSave \/ HandleConfirmSave \/ HandleSaveName \/ HandleOverwrite
           \/ HandleDelete
    PROVE  BaseInv'
<1>0. app \in AppType /\ files \in [Names -> Contents]
  BY DEF BaseInv, TypeInv
<1>1. ASSUME NEW scene \in {"ReadResult", "WriteConfirm"}, SaveFrom(scene) PROVE BaseInv'
  <2>1. PICK n \in Names :
            Opens(scene, ButtonSave, "SaveName",
                  [app EXCEPT !.save_from_write = FromConfirm, !.save_name = n])
    BY <1>1 DEF SaveFrom
  <2> DEFINE a == [app EXCEPT !.save_from_write = FromConfirm, !.save_name = n]
  <2>2. Take(scene) /\ Go(Push("SaveName"), a) /\ UNCHANGED <<serial_mode, files>>
    BY <2>1 DEF Opens
  <2>3. Acts /\ Beside /\ Top = scene
    BY <2>2, TakeFacts DEF Beside
  <2>4. FromConfirm \in BOOLEAN /\ (FromConfirm <=> scene = "WriteConfirm")
    BY <2>3 DEF FromConfirm
  <2>5. a \in AppType /\ a.save_from_write = FromConfirm
    BY <1>0, <2>4, StructFacts
  <2>6. Top = IF a.save_from_write THEN "WriteConfirm" ELSE "ReadResult"
    BY <1>1, <2>3, <2>4, <2>5
  <2> HIDE DEF a
  <2> QED
    BY <2>2, <2>3, <2>5, <2>6, PushSaveBase
<1>2. ASSUME HandleSaveName PROVE BaseInv'
  <2>1. /\ Take("SaveName")
        /\ IF Exists(app.save_name)
             THEN Go(Push("SaveOverwrite"), app) /\ UNCHANGED files
             ELSE SavePending /\ Go(Pop, app)
        /\ serial_mode' = serial_mode
    BY <1>2 DEF HandleSaveName
  <2>2. CASE Exists(app.save_name)
    <3>1. Acts /\ Beside /\ Top = "SaveName" /\ stack \in Stacks
      BY <1>0, <2>1, <2>2, TakeFacts DEF Beside
    <3>2. SaveFits(stack, app.save_from_write)
      BY DEF BaseInv, SaveInv
    <3>3. Push("SaveOverwrite") \in Stacks /\ SaveFits(Push("SaveOverwrite"), app.save_from_write)
      BY <3>1, <3>2, PushIs, SavePush DEF Scenes
    <3> QED
      BY <1>0, <2>1, <2>2, <3>1, <3>2, <3>3, GoBase
  <2>3. CASE ~Exists(app.save_name)
    BY <2>1, <2>3, SaveType, TakePopBase
  <2> QED
    BY <2>2, <2>3
<1>3. ASSUME HandleOverwrite PROVE BaseInv'
  <2>1. /\ Take("SaveOverwrite") /\ SavePending /\ serial_mode' = serial_mode
        /\ Go(BackTo(IF app.save_from_write THEN "WriteConfirm" ELSE "ReadResult"), app)
    BY <1>3 DEF HandleOverwrite
  <2>2. Acts /\ Beside
    BY <2>1, TakeFacts, SaveType DEF Beside
  <2> QED
    BY <2>1, <2>2, BackToBase
<1>4. ASSUME HandleDelete PROVE BaseInv'
  <2>1. /\ Take("SavedEntry") /\ Go(Pop, app) /\ serial_mode' = serial_mode
        /\ files' \in {files, [files EXCEPT ![app.selected_path] = NoContent]}
    BY <1>4 DEF HandleDelete
  <2>2. files' \in [Names -> Contents]
    BY <1>0, <2>1 DEF Contents
  <2> QED
    BY <2>1, <2>2, TakePopBase
<1> QED
  BY <1>1, <1>2, <1>3, <1>4 DEF HandleResultSave, HandleConfirmSave

\* A handler that stays on its scene, with another popup or the same.
LEMMA TakeStayBase ==
    ASSUME BaseInv, NEW scene, Take(scene), NEW p \in {"none", "tag2", "done"}, Stay(app, p),
           UNCHANGED <<serial_mode, files>>
    PROVE  BaseInv'
BY TakeFacts, StayBase DEF Beside

\* The steps of the two progress screens, and those that touch no scene.
LEMMA ProgressBase ==
    ASSUME BaseInv,
           \/ HandleWritten \/ HandleTag2 \/ HandleWriteFails \/ HandleErased
           \/ HandleSettingsWeight \/ HandleNothing
    PROVE  BaseInv'
<1>0. app \in AppType /\ popup \in {"none", "tag2", "done"}
  BY DEF BaseInv, TypeInv
<1>1. ASSUME HandleWritten PROVE BaseInv'
  <2>1. Take("WriteProgress") /\ Stay(app, IF Pause THEN "tag2" ELSE "done")
        /\ UNCHANGED <<serial_mode, files>>
    BY <1>1 DEF HandleWritten
  <2> QED
    BY <2>1, TakeStayBase
<1>2. ASSUME HandleTag2 PROVE BaseInv'
  <2>1. /\ Take("WriteProgress") /\ StartWrite(app) /\ popup' = "none"
        /\ app' = [app EXCEPT !.write_tag_index = 1]
        /\ UNCHANGED <<stack, goto, serial_mode, files>>
    BY <1>2 DEF HandleTag2
  <2>2. Acts /\ Beside /\ Top = "WriteProgress" /\ goto = <<>>
    BY <2>1, TakeFacts DEF Beside
  <2>3. /\ call' = "write" /\ stop' = TRUE /\ UNCHANGED <<thread, mode, result, sent>>
        /\ wdata' = IF app.write_exact THEN wdata ELSE [wdata EXCEPT !.tag_data = app.pending]
    BY <2>1 DEF StartWrite, CallStart
  <2>4. app' \in AppType /\ app'.save_from_write = app.save_from_write /\ app.pending \in Contents
    BY <1>0, <2>1 DEF AppType
  <2>5. wdata' \in [tag_data : Contents, read_plain : Contents]
    BY <2>3, <2>4 DEF BaseInv, TypeInv
  <2>6. TypeInv'
    BY <2>1, <2>2, <2>3, <2>4, <2>5, QueueShrinks, SceneFacts DEF BaseInv, TypeInv, Beside
  <2>7. StackInv' /\ RunInv'
    BY <2>1, <2>2, <2>3, SceneFacts DEF BaseInv, StackInv, RunInv, Acts, Top
  <2>8. SaveInv'
    BY <2>1, <2>4 DEF BaseInv, SaveInv
  <2> QED
    BY <2>2, <2>6, <2>7, <2>8, QueueShrinks DEF BaseInv, Beside
<1>3. ASSUME HandleWriteFails PROVE BaseInv'
  BY <1>3, TakeStayBase DEF HandleWriteFails
<1>4. ASSUME HandleErased PROVE BaseInv'
  BY <1>4, TakeStayBase DEF HandleErased
<1>5. ASSUME HandleSettingsWeight PROVE BaseInv'
  BY <1>0, <1>5, TakeStayBase DEF HandleSettingsWeight
<1>6. ASSUME HandleNothing PROVE BaseInv'
  BY <1>0, <1>6, TakeStayBase DEF HandleNothing
<1> QED
  BY <1>1, <1>2, <1>3, <1>4, <1>5, <1>6

LEMMA HandlersBase ==
    ASSUME BaseInv, HandleEvent
    PROVE  BaseInv'
BY BrowsingBase, WizardBase, SavingBase, ProgressBase DEF HandleEvent

------------------------------------------------------------------------------
(* Keys, the popup, the browser and the worker. *)

LEMMA AddToQueue ==
    ASSUME queue \in Seq(Queued), QueueInv, NEW c \in Nat, NEW scene \in Scenes,
           scene \in WorkerScenes => c < MenuBase,
           queue' = Append(queue, Event(c, scene))
    PROVE  queue' \in Seq(Queued) /\ QueueInv'
<1> DEFINE e == [code |-> c, from |-> scene]
           n == Len(queue)
<1>1. e \in Queued /\ queue' = Append(queue, e)
  BY DEF Queued, Event
<1>2. n \in Nat /\ DOMAIN queue = 1..n
  BY LenProperties
<1>3. /\ queue' \in Seq(Queued) /\ Len(queue') = n + 1 /\ queue'[n + 1] = e
      /\ \A i \in 1..n : queue'[i] = queue[i]
  BY <1>1, AppendProperties
<1>4. DOMAIN queue' = 1..(n + 1)
  BY <1>3, LenProperties
<1>5. e.from \in WorkerScenes => e.code < MenuBase
  OBVIOUS
<1> HIDE DEF e
<1>6. \A i \in DOMAIN queue' : i \in DOMAIN queue \/ i = n + 1
  BY <1>2, <1>4
<1> QED
  BY <1>2, <1>3, <1>5, <1>6 DEF QueueInv

LEMMA KeysBase ==
    ASSUME BaseInv, Key
    PROVE  BaseInv'
<1>0. /\ app \in AppType /\ popup \in {"none", "tag2", "done"} /\ queue \in Seq(Queued)
      /\ files \in [Names -> Contents] /\ serial_mode \in SerialModes
  BY DEF BaseInv, TypeInv
<1>1. ASSUME Ready PROVE Acts /\ stack \in Stacks /\ Top \in Scenes
  <2>1. Acts
    BY <1>1 DEF Ready, Idle, Acts
  <2>2. stack \in Stacks
    BY <2>1, ActsFacts
  <2> QED
    BY <2>1, <2>2, StackLen DEF Top, Last
<1>2. ASSUME PressKey PROVE BaseInv'
  <2>1. /\ Ready
        /\ \E c \in Sends(Top) : queue' = Append(queue, Event(c, Top))
        /\ app' \in CASE Top = "SaveName" -> {[app EXCEPT !.save_name = n] : n \in Names}
                      [] Top = "WriteSerial" -> {[app EXCEPT !.pending = "edited"]}
                      [] OTHER -> {app}
        /\ UNCHANGED <<thread, mode, stop, call, result, sent, stack, goto, popup,
                       serial_mode, wdata, files>>
    BY <1>2 DEF PressKey, workerVars
  <2>2. Top \in Scenes
    BY <1>1, <2>1
  <2>3. PICK c \in Sends(Top) : queue' = Append(queue, Event(c, Top))
    BY <2>1
  <2>4. c \in Nat /\ (Top \in WorkerScenes => c < MenuBase)
    BY <2>2, SendsFacts
  <2>5. queue' \in Seq(Queued) /\ QueueInv'
    BY <1>0, <2>2, <2>3, <2>4, AddToQueue DEF BaseInv
  <2>6. app' \in AppType /\ app'.save_from_write = app.save_from_write
    <3>1. \A n \in Names : [app EXCEPT !.save_name = n] \in AppType
              /\ [app EXCEPT !.save_name = n].save_from_write = app.save_from_write
      BY <1>0 DEF AppType
    <3>2. [app EXCEPT !.pending = "edited"] \in AppType
          /\ [app EXCEPT !.pending = "edited"].save_from_write = app.save_from_write
      BY <1>0 DEF AppType, Contents
    <3> QED
      BY <1>0, <2>1, <3>1, <3>2
  <2>7. TypeInv'
    BY <2>1, <2>5, <2>6 DEF BaseInv, TypeInv
  <2>8. StackInv' /\ RunInv'
    BY <2>1 DEF BaseInv, StackInv, RunInv, Top
  <2>9. SaveInv'
    BY <2>1, <2>6 DEF BaseInv, SaveInv
  <2> QED
    BY <2>5, <2>7, <2>8, <2>9 DEF BaseInv
<1>3. ASSUME PressBack PROVE BaseInv'
  <2>1. /\ Ready /\ Top # "Start" /\ UNCHANGED <<queue, serial_mode, files>>
        /\ Go(IF Top = "ReadResult" /\ ~app.result_read_only THEN BackTo("Start") ELSE Pop, app)
    BY <1>3 DEF PressBack
  <2>2. Acts /\ Beside
    BY <1>0, <1>1, <2>1 DEF Beside
  <2> QED
    BY <2>1, <2>2, PopBase, BackToBase
<1>4. ASSUME PressSettings PROVE BaseInv'
  <2>1. Ready /\ Top = "Settings" /\ UNCHANGED <<queue, files>>
    BY <1>4 DEF PressSettings
  <2>2. ASSUME NEW s \in {"SettingsWeight", "DebugSelftest"}, Go(Push(s), app),
               serial_mode' = serial_mode
        PROVE  BaseInv'
    <3>1. Acts /\ Beside
      BY <1>0, <1>1, <2>1, <2>2 DEF Beside
    <3> QED
      BY <1>0, <2>1, <2>2, <3>1, PushBase DEF Scenes
  <2>3. ASSUME NEW m \in SerialModes, serial_mode' = m, Stay(app, popup)
        PROVE  BaseInv'
    <3>1. Beside
      BY <1>0, <2>1, <2>3 DEF Beside
    <3> QED
      BY <1>0, <2>3, <3>1, StayBase
  <2> QED
    BY <1>4, <2>2, <2>3 DEF PressSettings
<1>5. ASSUME Close PROVE BaseInv'
  <2>1. /\ Ready /\ Top = "Start"
        /\ stack' = <<>> /\ queue' = <<>> /\ app' = AppInit
        /\ call' = "stop" /\ stop' = TRUE
        /\ wdata' = [tag_data |-> NoContent, read_plain |-> NoContent]
        /\ UNCHANGED <<thread, mode, result, sent, goto, popup, serial_mode, files>>
    BY <1>5 DEF Close, CallStop
  <2>2. Acts /\ goto = <<>> /\ thread = "stopped"
    BY <1>1, <2>1, ActsFacts, SceneFacts
  <2>3. AppInit \in AppType
    BY UserAssumption DEF AppInit, AppType, Contents, NoContent
  <2>4. TypeInv'
    BY <2>1, <2>2, <2>3 DEF BaseInv, TypeInv, Contents, NoContent
  <2>5. StackInv' /\ RunInv' /\ QueueInv' /\ SaveInv'
    BY <2>1, <2>2, SceneFacts DEF StackInv, RunInv, QueueInv, SaveInv, SaveFits
  <2> QED
    BY <2>4, <2>5 DEF BaseInv
<1> QED
  BY <1>2, <1>3, <1>4, <1>5 DEF Key

LEMMA LaunchBase ==
    ASSUME BaseInv, Launch
    PROVE  BaseInv'
<1>1. /\ stack = <<>> /\ call = "none" /\ stack' = <<"Start">>
      /\ UNCHANGED <<thread, mode, stop, call, result, sent, goto, queue, popup, app,
                     serial_mode, wdata, files>>
  BY DEF Launch, workerVars
<1>2. goto = <<>> /\ thread = "stopped"
  BY <1>1 DEF BaseInv, StackInv, RunInv
<1>3. <<"Start">> \in Seq(Scenes) /\ Rooted(<<"Start">>) /\ DOMAIN <<"Start">> = {1}
  BY DEF Scenes, Rooted
<1>4. TypeInv'
  BY <1>1, <1>3 DEF BaseInv, TypeInv
<1>5. StackInv' /\ RunInv' /\ QueueInv'
  BY <1>1, <1>2, <1>3, SceneFacts DEF BaseInv, StackInv, RunInv, QueueInv
<1>6. SaveInv'
  BY <1>1, <1>2, <1>3 DEF SaveInv, SaveFits
<1> QED
  BY <1>4, <1>5, <1>6 DEF BaseInv

LEMMA PopupBase ==
    ASSUME BaseInv, PopupDone
    PROVE  BaseInv'
<1>1. /\ Go(BackTo("Start"), app) /\ UNCHANGED <<queue, serial_mode, files>> /\ Acts
  BY DEF PopupDone, Idle, Acts
<1>2. Beside
  BY <1>1 DEF BaseInv, TypeInv, Beside
<1> QED
  BY <1>1, <1>2, BackToBase

LEMMA BrowseBase ==
    ASSUME BaseInv, Browse
    PROVE  BaseInv'
<1>0. app \in AppType /\ files \in [Names -> Contents] /\ serial_mode \in SerialModes
  BY DEF BaseInv, TypeInv
<1>1. /\ Acts /\ Top = "SavedTags" /\ UNCHANGED <<queue, serial_mode, files>>
  BY DEF Browse, Acts
<1>2. Beside
  BY <1>0, <1>1 DEF Beside
<1>3. ASSUME NEW n \in Names,
             Go(Push("SavedEntry"),
                [app EXCEPT !.tag_data = files[n], !.tag_plain = files[n],
                            !.is_blank = FALSE, !.selected_path = n])
      PROVE  BaseInv'
  <2> DEFINE a == [app EXCEPT !.tag_data = files[n], !.tag_plain = files[n],
                              !.is_blank = FALSE, !.selected_path = n]
  <2>1. files[n] \in Contents
    BY <1>0
  <2>2. a \in AppType /\ a.save_from_write = app.save_from_write
    BY <1>0, <2>1 DEF AppType
  <2> HIDE DEF a
  <2>3. Go(Push("SavedEntry"), a)
    BY <1>3 DEF a
  <2> QED
    BY <1>1, <1>2, <2>2, <2>3, PushBase DEF Scenes
<1>4. ASSUME Go(Pop, app) PROVE BaseInv'
  BY <1>1, <1>2, <1>4, PopBase
<1> QED
  BY <1>3, <1>4 DEF Browse

LEMMA ReturnsBase ==
    ASSUME BaseInv, GuiReturns
    PROVE  BaseInv'
<1>1. /\ Return
      /\ IF goto # <<>> THEN stack' = goto /\ goto' = <<>> ELSE UNCHANGED <<stack, goto>>
      /\ UNCHANGED <<queue, popup, app, serial_mode, wdata, files>>
  BY DEF GuiReturns
<1>2. TypeInv /\ StackInv /\ RunInv /\ QueueInv /\ SaveInv
  BY DEF BaseInv
<1>3. stack' \in Seq(Scenes) /\ goto' = <<>>
      /\ (stack' # <<>> => Rooted(stack')) /\ SaveFits(stack', app.save_from_write)
  <2>1. CASE goto # <<>>
    BY <1>1, <1>2, <2>1 DEF TypeInv, StackInv, SaveInv
  <2>2. CASE goto = <<>>
    BY <1>1, <1>2, <2>2 DEF TypeInv, StackInv, SaveInv
  <2> QED
    BY <2>1, <2>2
<1>4. QueueInv' /\ SaveInv'
  BY <1>1, <1>2, <1>3 DEF QueueInv, SaveInv, SaveFits
<1>5. CASE ReturnStopped
  <2>1. thread' = "stopped" /\ mode' = "idle" /\ call' = "none" /\ UNCHANGED <<stop, result>>
    BY <1>5 DEF ReturnStopped
  <2> QED
    BY <1>1, <1>2, <1>3, <1>4, <2>1, SceneFacts
    DEF BaseInv, TypeInv, StackInv, RunInv, Modes
<1>6. CASE ReturnStarted
  <2>1. /\ call \in RunModes /\ mode' = call /\ stop' = FALSE /\ thread' = "running"
        /\ call' = "none" /\ UNCHANGED result
    BY <1>6 DEF ReturnStarted
  <2>2. goto = <<>>
    BY <1>2, <2>1, SceneFacts DEF StackInv
  <2>3. stack' = stack
    BY <1>1, <2>2
  <2>4. TypeInv'
    <3>1. mode' \in Modes
      BY <2>1 DEF RunModes
    <3>2. UNCHANGED <<queue, popup, app, serial_mode, wdata, files>>
      BY <1>1
    <3>3. goto' \in Seq(Scenes) /\ stack' \in Seq(Scenes)
      BY <1>3
    <3>4. thread' = "running" /\ stop' = FALSE /\ call' = "none"
      BY <2>1
    <3> QED
      BY <1>2, <3>1, <3>2, <3>3, <3>4 DEF TypeInv
  <2>5. StackInv'
    BY <1>2, <1>3, <2>3 DEF StackInv
  <2>6. RunInv'
    BY <1>2, <2>1, <2>3, SceneFacts DEF RunInv, Top
  <2> QED
    BY <1>4, <2>4, <2>5, <2>6 DEF BaseInv
<1> QED
  BY <1>1, <1>5, <1>6 DEF Return

LEMMA WorkerBase ==
    ASSUME BaseInv, WorkerThread
    PROVE  BaseInv'
<1>0. TypeInv /\ StackInv /\ RunInv /\ QueueInv /\ SaveInv
  BY DEF BaseInv
<1>1. ASSUME WorkerDecides PROVE BaseInv'
  <2>1. PICK e \in WorkerEvents :
            /\ Decide(e)
            /\ wdata' \in
                 IF mode # "read" THEN {wdata}
                 ELSE CASE e = "Success" -> {[tag_data |-> r, read_plain |-> r] : r \in Records}
                        [] e = "ReadFailed" -> {[tag_data |-> NoContent, read_plain |-> NoContent]}
                        [] OTHER -> {wdata}
    BY <1>1 DEF WorkerDecides
  <2>2. UNCHANGED <<stack, goto, queue, popup, app, serial_mode, files>>
    BY <1>1 DEF WorkerDecides, guiVars
  <2>3. wdata' \in [tag_data : Contents, read_plain : Contents]
    <3>1. wdata' = wdata \/ (\E r \in Records : wdata' = [tag_data |-> r, read_plain |-> r])
          \/ wdata' = [tag_data |-> NoContent, read_plain |-> NoContent]
      BY <2>1
    <3>2. NoContent \in Contents /\ Records \subseteq Contents
      BY DEF Contents
    <3> QED
      BY <1>0, <3>1, <3>2 DEF TypeInv
  <2>4. /\ thread = "running" /\ e \in EventsOf(mode) /\ result' = e
        /\ thread' \in {"exiting", "sending"} /\ UNCHANGED <<mode, stop, call>>
    BY <2>1 DEF Decide
  <2>5. TypeInv' /\ StackInv' /\ RunInv' /\ QueueInv' /\ SaveInv'
    BY <1>0, <2>2, <2>3, <2>4 DEF TypeInv, StackInv, RunInv, QueueInv, SaveInv, Top
  <2> QED
    BY <2>5 DEF BaseInv
<1>2. ASSUME WorkerSends PROVE BaseInv'
  <2>1. /\ thread = "sending" /\ thread' = "exiting" /\ UNCHANGED <<mode, stop, call, result>>
        /\ queue' = Append(queue, Event(ToCustom(result), SceneOf(mode)))
        /\ UNCHANGED <<stack, goto, popup, app, serial_mode, files, wdata>>
    BY <1>2 DEF WorkerSends, Send
  <2>2. Top \in WorkerScenes /\ ModeOf[Top] = mode /\ result \in EventsOf(mode)
    BY <1>0, <2>1 DEF RunInv
  <2>3. SceneOf(mode) = Top /\ ToCustom(result) \in 0..7
    BY <2>2, SceneOfMode, EventCodes, SceneFacts
  <2>4. queue' \in Seq(Queued) /\ QueueInv'
    <3>1. ToCustom(result) \in Nat /\ ToCustom(result) < MenuBase /\ Top \in Scenes
      BY <2>2, <2>3, SceneFacts DEF MenuBase
    <3> QED
      BY <1>0, <2>1, <2>3, <3>1, AddToQueue DEF TypeInv
  <2>5. TypeInv' /\ StackInv' /\ RunInv' /\ SaveInv'
    BY <1>0, <2>1, <2>4 DEF TypeInv, StackInv, RunInv, SaveInv, Top
  <2> QED
    BY <2>4, <2>5 DEF BaseInv
<1>3. ASSUME WorkerExits PROVE BaseInv'
  <2>1. /\ thread = "exiting" /\ thread' = "stopped" /\ UNCHANGED <<mode, stop, call>>
        /\ UNCHANGED <<stack, goto, queue, popup, app, serial_mode, files, wdata>>
    BY <1>3 DEF WorkerExits, Exit, guiVars
  <2>2. TypeInv' /\ StackInv' /\ RunInv' /\ QueueInv' /\ SaveInv'
    BY <1>0, <2>1 DEF TypeInv, StackInv, RunInv, QueueInv, SaveInv, Top
  <2> QED
    BY <2>2 DEF BaseInv
<1> QED
  BY <1>1, <1>2, <1>3 DEF WorkerThread

LEMMA InitBase == Init => BaseInv
<1> SUFFICES ASSUME Init PROVE BaseInv
  OBVIOUS
<1>1. /\ stack = <<"Start">> /\ goto = <<>> /\ queue = <<>> /\ popup = "none"
      /\ app = AppInit /\ serial_mode \in SerialModes
      /\ wdata = [tag_data |-> NoContent, read_plain |-> NoContent]
      /\ files \in [Names -> Records \cup {NoContent}]
      /\ thread = "stopped" /\ mode = "idle" /\ stop = FALSE /\ call = "none"
  BY DEF Init, WorkerInit
<1>2. AppInit \in AppType
  BY UserAssumption DEF AppInit, AppType, Contents, NoContent
<1>3. files \in [Names -> Contents]
  BY <1>1 DEF Contents
<1>4. <<"Start">> \in Seq(Scenes) /\ Rooted(<<"Start">>) /\ DOMAIN <<"Start">> = {1}
  BY DEF Scenes, Rooted
<1>5. TypeInv
  <2>1. wdata \in [tag_data : Contents, read_plain : Contents] /\ mode \in Modes
    BY <1>1 DEF Contents, Modes
  <2>2. stack \in Seq(Scenes) /\ goto \in Seq(Scenes) /\ queue \in Seq(Queued)
    BY <1>1, <1>4
  <2> QED
    BY <1>1, <1>2, <1>3, <2>1, <2>2 DEF TypeInv
<1>6. StackInv /\ RunInv /\ QueueInv
  BY <1>1, <1>4, SceneFacts DEF StackInv, RunInv, QueueInv
<1>7. SaveInv
  BY <1>1, <1>4 DEF SaveInv, SaveFits
<1> QED
  BY <1>5, <1>6, <1>7 DEF BaseInv

LEMMA StepBase == BaseInv /\ [Next]_vars => BaseInv'
<1> SUFFICES ASSUME BaseInv, [Next]_vars PROVE BaseInv'
  OBVIOUS
<1>1. CASE UNCHANGED vars
  <2>1. UNCHANGED <<thread, mode, stop, call, result, stack, goto, queue, popup, app,
                    serial_mode, files, wdata>>
    BY <1>1 DEF vars, workerVars, guiVars
  <2> QED
    BY <2>1 DEF BaseInv, TypeInv, StackInv, RunInv, QueueInv, SaveInv, Top
<1> QED
  BY <1>1, HandlersBase, KeysBase, LaunchBase, PopupBase, BrowseBase, ReturnsBase, WorkerBase
  DEF Next

LEMMA BaseKept == Spec => []BaseInv
BY InitBase, StepBase, PTL DEF Spec

------------------------------------------------------------------------------
(* What follows for the screens. *)

\* Whoever presses what when: no NFC operation goes on behind another screen (the
\* stops in the on_exit of Read, WriteProgress and EraseProgress).
THEOREM WorkOnItsScreen == Spec => []NfcOnlyOnItsScreen
<1>1. BaseInv => NfcOnlyOnItsScreen
  BY DEF BaseInv, RunInv, NfcOnlyOnItsScreen
<1> QED
  BY <1>1, BaseKept, PTL

LEMMA MenuStep ==
    ASSUME BaseInv, Handles, Top = "Start", Head(queue).from \in WorkerScenes
    PROVE  Code \notin Accepts("Start")
<1>1. queue \in Seq(Queued) /\ queue # <<>> /\ QueueInv
  BY DEF BaseInv, TypeInv, Handles
<1>2. Head(queue) = queue[1] /\ 1 \in DOMAIN queue /\ queue[1] \in Queued
  BY <1>1
<1>3. Code \in Nat /\ Code < MenuBase
  BY <1>1, <1>2 DEF QueueInv, Code, Queued
<1>4. Accepts("Start") = MenuIds
  BY DEF Accepts
<1> QED
  BY <1>3, <1>4, MenuFacts DEF MenuBase

\* A worker event that waits when the menu opens, whatever it is and however many
\* there are, is below every menu id (CfsCustomEventMenuBase).
THEOREM MenuTakesNoWorkerEvent == Spec => MenuIsSafe
<1>1. BaseInv /\ [Next]_vars =>
          [Handles /\ Top = "Start" /\ Head(queue).from \in WorkerScenes =>
              Code \notin Accepts("Start")]_vars
  BY MenuStep
<1> QED
  BY <1>1, BaseKept, PTL DEF Spec, MenuIsSafe

\* Above the invoker there is one name screen.
LEMMA InvokerIs ==
    ASSUME BaseInv, stack # <<>>, Top \in {"SaveName", "SaveOverwrite"}
    PROVE  stack[SelectInSeq(stack, LAMBDA s : s = "SaveName") - 1]
             = IF app.save_from_write THEN "WriteConfirm" ELSE "ReadResult"
<1> DEFINE n == Len(stack)
           I == {i \in 1..n : stack[i] = "SaveName"}
           k == IF Top = "SaveName" THEN n ELSE n - 1
<1>1. stack \in Stacks /\ SaveFits(stack, app.save_from_write)
  BY DEF BaseInv, TypeInv, StackInv, SaveInv, Stacks
<1>2. n \in Nat /\ n >= 1 /\ DOMAIN stack = 1..n /\ Top = stack[n]
  BY <1>1, StackLen DEF Top, Last
<1>3. Top = "SaveOverwrite" => n > 1 /\ stack[n - 1] = "SaveName"
  <2>1. n \in DOMAIN stack
    BY <1>2
  <2>2. \A i \in DOMAIN stack :
            stack[i] = "SaveOverwrite" => i > 1 /\ stack[i - 1] = "SaveName"
    BY <1>1 DEF SaveFits
  <2> HIDE DEF n
  <2> QED
    BY <1>2, <2>1, <2>2
<1>4. k \in I
  BY <1>2, <1>3
<1>5. \A i \in I : i = n \/ (i = n - 1 /\ stack[i + 1] = "SaveOverwrite")
  BY <1>1, <1>2 DEF SaveFits
<1>6. \A i \in I : i = k
  <2> SUFFICES ASSUME NEW i \in I PROVE i = k
    OBVIOUS
  <2>1. CASE Top = "SaveName"
    <3>1. i = n - 1 => i + 1 = n
      BY <1>2
    <3> QED
      BY <1>2, <1>5, <2>1, <3>1
  <2>2. CASE Top = "SaveOverwrite"
    BY <1>2, <1>5, <2>2
  <2> QED
    BY <2>1, <2>2
<1> HIDE DEF k
<1>7. I = {k} /\ k \in 1..n /\ stack[k] = "SaveName"
  BY <1>4, <1>6
<1>8. SelectInSeq(stack, LAMBDA s : s = "SaveName") = k
  <2>1. SelectInSeq(stack, LAMBDA s : s = "SaveName") =
            IF I # {} THEN CHOOSE x \in I : \A y \in I : x <= y ELSE 0
    BY DEF SelectInSeq, Min
  <2> HIDE DEF I
  <2>2. (CHOOSE x \in I : \A y \in I : x <= y) = k
    BY <1>2, <1>7
  <2> QED
    BY <1>7, <2>1, <2>2
<1>9. stack[k - 1] = IF app.save_from_write THEN "WriteConfirm" ELSE "ReadResult"
  BY <1>1, <1>2, <1>7 DEF SaveFits
<1> QED
  BY <1>8, <1>9

\* The record saved is that of the screen Save was pressed on, and the way back to
\* that screen is there (save_from_write, cfs_scene_save_overwrite).
THEOREM SaveHasItsInvoker == Spec => []SaveKnowsItsInvoker
<1>1. BaseInv => SaveKnowsItsInvoker
  BY InvokerIs DEF SaveKnowsItsInvoker
<1> QED
  BY <1>1, BaseKept, PTL

\* Only the two questions and a name that is free change a file.
LEMMA FileStep ==
    ASSUME BaseInv, Next, NEW n \in Names, files[n] # NoContent, files'[n] # files[n]
    PROVE  \/ Top = "SaveOverwrite" /\ n = app.save_name
           \/ Top = "SavedEntry" /\ n = app.selected_path
<1>1. ASSUME HandleSaveName PROVE FALSE
  <2>1. ~Exists(app.save_name) /\ SavePending
    BY <1>1 DEF HandleSaveName
  <2>2. n # app.save_name
    BY <2>1 DEF Exists
  <2> QED
    BY <2>1, <2>2, SaveType
<1>2. ASSUME HandleOverwrite PROVE Top = "SaveOverwrite" /\ n = app.save_name
  <2>1. Take("SaveOverwrite") /\ SavePending
    BY <1>2 DEF HandleOverwrite
  <2> QED
    BY <2>1, SaveType, TakeFacts
<1>3. ASSUME HandleDelete PROVE Top = "SavedEntry" /\ n = app.selected_path
  <2>1. Take("SavedEntry")
        /\ files' \in {files, [files EXCEPT ![app.selected_path] = NoContent]}
    BY <1>3 DEF HandleDelete
  <2> QED
    BY <2>1, TakeFacts
<1>4. HandleEvent => HandleSaveName \/ HandleOverwrite \/ HandleDelete \/ files' = files
  BY DEF HandleEvent, HandleMenu, HandleMenuWrite, HandleHelp, HandleReadDone,
         HandleReadError, HandleResultOpens, HandleResultSave, HandleReread,
         HandleTagActions, HandleView, HandleSavedWrite, HandleBrand, HandleMaterial,
         HandleColor, HandleColorCustom, HandleWeight, HandleSerial, HandleConfirm,
         HandleConfirmSave, SaveFrom, HandleWritten, HandleTag2, HandleWriteFails,
         HandleEraseConfirm, HandleErased, HandleSettingsWeight, HandleNothing, Opens
<1>5. Key => files' = files
  BY DEF Key, PressKey, PressBack, PressSettings, Close
<1>6. PopupDone \/ Browse \/ GuiReturns \/ Launch \/ WorkerThread => files' = files
  BY DEF PopupDone, Browse, GuiReturns, Launch, WorkerThread, WorkerDecides, WorkerSends,
         WorkerExits, guiVars
<1> QED
  BY <1>1, <1>2, <1>3, <1>4, <1>5, <1>6 DEF Next

\* A record that a file holds is lost only where the user was asked (SaveOverwrite)
\* or chose it (Delete), and it is the file he was shown.
THEOREM NoFileIsLost == Spec => NoSilentClobber
<1>1. BaseInv /\ [Next]_vars =>
          [\A n \in Names : files[n] # NoContent /\ files'[n] # files[n] =>
              \/ Top = "SaveOverwrite" /\ n = app.save_name
              \/ Top = "SavedEntry" /\ n = app.selected_path]_vars
  BY FileStep
<1> QED
  BY <1>1, BaseKept, PTL DEF Spec, NoSilentClobber
=============================================================================
