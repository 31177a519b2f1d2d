---------------------------- MODULE CfsDumpProofs -----------------------------
(***************************************************************************)
(* The safety properties of CfsDump for every set of file names, payloads  *)
(* and UIDs.  The inductive invariant says what a file looks like while a  *)
(* save is at work in it (SaveInv), after one that returned TRUE (GoodInv) *)
(* and however it came about (FileInv), and what a load leaves in the      *)
(* application (LoadedInv).                                                *)
(***************************************************************************)
EXTENDS CfsDump, SequenceTheorems, TLAPS

KeyFor(uid) == IF uid # NoUid THEN Derived(uid) ELSE FactoryKey

\* The dump of a payload after its first n blocks.
Image(plain, uid, n) ==
    [uid    |-> FourBytes(uid),
     blocks |-> [k \in 1..n |-> FillBlock(k - 1, plain, FourBytes(uid), KeyFor(uid))]]

\* What the application takes for a payload: it decodes, and its first block
\* may be anything.
Readable(plain) == plain \in [1..3 -> Parts] /\ Decodes(plain)

\* A UID the application has: a tag's, four bytes of one, zeros, or none.
KnownUid(uid) == uid \in Seq(0..255) /\ (uid = NoUid \/ Len(uid) >= 4)

LoadedInv ==
    /\ KnownUid(loaded.uid)
    /\ loaded.valid => Readable(loaded.plain)

SaveInv ==
    Saving =>
        /\ save.name \in Names
        /\ Readable(save.plain) /\ KnownUid(save.uid)
        /\ save = [name |-> save.name, plain |-> save.plain, uid |-> save.uid,
                   key |-> KeyFor(save.uid), next |-> save.next]
        /\ files[save.name] = Image(save.plain, save.uid, save.next)
        /\ good[save.name] = Unknown /\ meant[save.name] = save.plain

\* A file with no block of the payload left out has what it was meant to hold.
FileInv ==
    \A n \in Names :
        /\ files[n] # NoFile => Len(files[n].uid) >= 4
        /\ Captured(files[n]) => PlainOf(files[n]) = meant[n]

GoodInv ==
    \A n \in Names : good[n] # Unknown =>
        /\ Readable(good[n].plain)
        /\ files[n] = Image(good[n].plain, good[n].uid, McBlocks)

IInv == TypeOK /\ LoadedInv /\ SaveInv /\ FileInv /\ GoodInv

------------------------------------------------------------------------------
(* Blocks and payloads. *)

\* The four bytes of a UID are bytes.
LEMMA FourBytesType ==
    ASSUME NEW uid, KnownUid(uid)
    PROVE  FourBytes(uid) \in Seq(0..255) /\ Len(FourBytes(uid)) = 4
<1>1. CASE uid = NoUid
  BY <1>1 DEF FourBytes, ZeroUid
<1>2. CASE uid # NoUid
  <2>1. uid \in Seq(0..255) /\ Len(uid) >= 4 /\ Len(uid) \in Nat
    BY <1>2 DEF KnownUid
  <2>2. FourBytes(uid) = SubSeq(uid, 1, 4)
    BY <1>2 DEF FourBytes
  <2>3. \A i \in 1..Len(uid) : uid[i] \in 0..255
    BY <2>1, ElementOfSeq
  <2>4. \A i \in 1..4 : uid[i] \in 0..255
    BY <2>1, <2>3
  <2> QED
    BY <2>2, <2>4, SubSeqProperties
<1> QED
  BY <1>1, <1>2

\* The UIDs of tags are known ones.
LEMMA TagUid == ASSUME NEW u \in Uids PROVE KnownUid(u) /\ u # NoUid
<1>1. u \in Seq(0..255) /\ Len(u) \in {4, 7}
  BY UidAssumption
<1>2. Len(u) >= 4
  <2>1. CASE Len(u) = 4
    BY <2>1
  <2>2. CASE Len(u) = 7
    BY <2>2
  <2> QED
    BY <1>1, <2>1, <2>2
<1>3. u # NoUid
  BY <1>2, EmptySeq DEF NoUid
<1> QED
  BY <1>1, <1>2, <1>3 DEF KnownUid

\* An encoded payload has three parts, none of which is garbage.
LEMMA PlainType == ASSUME NEW p \in Payloads PROVE Readable(Plain(p))
<1>1. \A i \in 1..3 : Plain(p)[i] = [of |-> p, part |-> i]
  BY DEF Plain
<1>2. \A i \in 1..3 : Plain(p)[i].part = i /\ Junk.part = 0
  BY <1>1 DEF Junk
<1>3. \A i \in 1..3 : Plain(p)[i] # Junk
  BY <1>2
<1>4. Plain(p) \in [1..3 -> Parts]
  BY DEF Plain, Parts
<1> QED
  BY <1>3, <1>4 DEF Decodes, Readable

\* What a tag holds has three parts.
LEMMA HeldType == ASSUME NEW c \in Held PROVE c \in [1..3 -> Parts]
<1> QED
  BY HeldAssumption DEF Contents

LEMMA BlankType == Blank \in [1..3 -> Parts]
<1> QED
  BY DEF Blank, Parts

\* What the blocks of sector 1 are filled with, whatever the dump.
LEMMA Filled ==
    ASSUME NEW plain, NEW uid, NEW key, NEW i \in 4..6
    PROVE  /\ FillBlock(i, plain, uid, key) = Cipher(plain[i - 3])
           /\ FillBlock(i, plain, uid, key) # Unread
           /\ Decrypted(FillBlock(i, plain, uid, key)) = plain[i - 3]
<1>1. FillBlock(i, plain, uid, key) = Cipher(plain[i - 3])
  BY DEF FillBlock
<1>2. Cipher(plain[i - 3]).kind = "cipher" /\ Cipher(plain[i - 3]).part = plain[i - 3]
  BY DEF Cipher
<1>3. Unread.kind = "unread"
  BY DEF Unread
<1>4. Cipher(plain[i - 3]) # Unread
  BY <1>2, <1>3
<1> QED
  BY <1>1, <1>2, <1>4 DEF Decrypted

\* A dump with at least seven blocks is captured, and it is the payload; one
\* with fewer is not.
LEMMA ImagePayload ==
    ASSUME NEW plain \in [1..3 -> Parts], NEW uid, NEW n \in 0..McBlocks
    PROVE  /\ Captured(Image(plain, uid, n)) <=> n >= 7
           /\ n >= 7 => PlainOf(Image(plain, uid, n)) = plain
<1> DEFINE f == Image(plain, uid, n)
           fill(i) == FillBlock(i, plain, FourBytes(uid), KeyFor(uid))
<1>1. Len(f.blocks) = n /\ \A k \in 1..n : f.blocks[k] = fill(k - 1)
  BY DEF Image, McBlocks
<1>2. \A i \in 4..6 : Block(f, i) = IF i < n THEN fill(i) ELSE Unread
  <2> SUFFICES ASSUME NEW i \in 4..6
               PROVE  Block(f, i) = IF i < n THEN fill(i) ELSE Unread
    OBVIOUS
  <2>1. i < n => f.blocks[i + 1] = fill((i + 1) - 1)
    BY <1>1 DEF McBlocks
  <2>2. (i + 1) - 1 = i
    OBVIOUS
  <2> QED
    BY <1>1, <2>1, <2>2 DEF Block
<1> HIDE DEF f
<1>3. \A i \in 4..6 : fill(i) # Unread /\ Decrypted(fill(i)) = plain[i - 3]
  BY Filled
<1> HIDE DEF fill
<1>4. Captured(f) <=> n >= 7
  BY <1>2, <1>3 DEF Captured, McBlocks
<1>5. ASSUME n >= 7 PROVE PlainOf(f) = plain
  <2>1. \A i \in 1..3 : Decrypted(Block(f, i + 3)) = plain[i]
    <3> SUFFICES ASSUME NEW i \in 1..3 PROVE Decrypted(Block(f, i + 3)) = plain[i]
      OBVIOUS
    <3>1. i + 3 \in 4..6 /\ i + 3 < n /\ (i + 3) - 3 = i
      BY <1>5 DEF McBlocks
    <3> QED
      BY <3>1, <1>2, <1>3
  <2>2. plain = [i \in 1..3 |-> plain[i]]
    OBVIOUS
  <2> QED
    BY <2>1, <2>2 DEF PlainOf
<1> QED
  BY <1>4, <1>5 DEF f

\* The block that is due makes the image longer by one.
LEMMA ImageGrows ==
    ASSUME NEW plain, NEW uid, NEW n \in 0..(McBlocks - 1)
    PROVE  [Image(plain, uid, n) EXCEPT
                !.blocks = Append(@, FillBlock(n, plain, FourBytes(uid), KeyFor(uid)))]
             = Image(plain, uid, n + 1)
<1> DEFINE fill(i) == FillBlock(i, plain, FourBytes(uid), KeyFor(uid))
           b == [k \in 1..n |-> fill(k - 1)]
           S == {fill(i) : i \in 0..McBlocks}
<1>1. n \in Nat /\ n + 1 \in Nat /\ n \in 0..McBlocks
  BY DEF McBlocks
<1>2. b \in Seq(S) /\ Len(b) = n
  <2>1. \A k \in 1..n : fill(k - 1) \in S
    <3> SUFFICES ASSUME NEW k \in 1..n PROVE fill(k - 1) \in S
      OBVIOUS
    <3>1. k - 1 \in 0..McBlocks
      BY DEF McBlocks
    <3> QED
      BY <3>1
  <2> HIDE DEF fill, S
  <2>2. b \in [1..n -> S]
    BY <2>1
  <2> QED
    BY <1>1, <2>2, SeqDef
<1>3. Append(b, fill(n)) = [k \in 1..(n + 1) |-> fill(k - 1)]
  <2>1. fill(n) \in S
    BY <1>1
  <2> HIDE DEF S
  <2>2. \A k \in 1..n : b[k] = fill(k - 1)
    OBVIOUS
  <2> HIDE DEF b, fill
  <2>3. /\ Append(b, fill(n)) \in Seq(S) /\ Len(Append(b, fill(n))) = n + 1
        /\ \A k \in 1..n : Append(b, fill(n))[k] = b[k]
        /\ Append(b, fill(n))[n + 1] = fill(n)
    BY <1>2, <2>1, AppendProperties
  <2>4. Append(b, fill(n)) = [k \in 1..(n + 1) |-> Append(b, fill(n))[k]]
    BY <2>3, LenProperties
  <2>5. \A k \in 1..(n + 1) : Append(b, fill(n))[k] = fill(k - 1)
    <3> SUFFICES ASSUME NEW k \in 1..(n + 1) PROVE Append(b, fill(n))[k] = fill(k - 1)
      OBVIOUS
    <3>1. CASE k \in 1..n
      <4>1. b[k] = fill(k - 1)
        BY <3>1, <2>2
      <4> QED
        BY <3>1, <4>1, <2>3
    <3>2. CASE k = n + 1
      <4>1. k - 1 = n
        BY <3>2, <1>1
      <4> QED
        BY <3>2, <4>1, <2>3
    <3>3. k \in 1..n \/ k = n + 1
      BY DEF McBlocks
    <3> QED
      BY <3>1, <3>2, <3>3
  <2> QED
    BY <2>4, <2>5
<1>4. Image(plain, uid, n) = [uid |-> FourBytes(uid), blocks |-> b]
  BY DEF Image
<1>5. Image(plain, uid, n + 1) =
          [uid |-> FourBytes(uid), blocks |-> [k \in 1..(n + 1) |-> fill(k - 1)]]
  BY DEF Image
<1> HIDE DEF b
<1>6. [[uid |-> FourBytes(uid), blocks |-> b] EXCEPT !.blocks = Append(@, fill(n))]
          = [uid |-> FourBytes(uid), blocks |-> Append(b, fill(n))]
  OBVIOUS
<1> QED
  BY <1>3, <1>4, <1>5, <1>6

\* What the properties ask of a file that was saved is true of an image.
LEMMA SavedImage ==
    ASSUME NEW plain, Readable(plain), NEW uid, NEW f, f = Image(plain, uid, McBlocks)
    PROVE  /\ Loads(f) /\ PlainOf(f) = plain /\ f.uid = FourBytes(uid)
           /\ Len(uid) = 4 => Block(f, 7).key = Derived(uid)
<1>1. Captured(f) /\ PlainOf(f) = plain
  BY ImagePayload DEF McBlocks, Readable
<1>2. Loads(f)
  BY <1>1 DEF Loads, Readable
<1>3. f.uid = FourBytes(uid)
  BY DEF Image
<1>4. ASSUME Len(uid) = 4 PROVE Block(f, 7).key = Derived(uid)
  <2>1. KeyFor(uid) = Derived(uid)
    BY <1>4 DEF KeyFor, NoUid
  <2>2. Block(f, 7) = FillBlock(7, plain, FourBytes(uid), KeyFor(uid))
    <3>1. Len(f.blocks) = 64 /\ f.blocks[8] = FillBlock(8 - 1, plain, FourBytes(uid), KeyFor(uid))
      BY DEF Image, McBlocks
    <3> QED
      BY <3>1 DEF Block
  <2>3. FillBlock(7, plain, FourBytes(uid), KeyFor(uid)) = Trailer(KeyFor(uid))
    BY DEF FillBlock
  <2> QED
    BY <2>1, <2>2, <2>3 DEF Trailer
<1> QED
  BY <1>1, <1>2, <1>3, <1>4
------------------------------------------------------------------------------
(* The invariant holds. *)

LEMMA InitIInv == Init => IInv
<1> SUFFICES ASSUME Init PROVE IInv
  OBVIOUS
<1> USE DEF Init
<1>1. <<>> \in Seq(0..255) /\ Len(<<>>) = 0
  BY EmptySeq
<1>2. KnownUid(NoUid)
  BY <1>1 DEF KnownUid, NoUid
<1>3. ~Captured(NoFile)
  BY <1>1 DEF Captured, Block, NoFile
<1>4. NothingLoaded.plain \in [1..3 -> Parts]
  BY BlankType DEF NothingLoaded
<1>5. TypeOK
  <2>1. DOMAIN files = Names /\ DOMAIN good = Names
    OBVIOUS
  <2>2. ASSUME NEW n \in Names
        PROVE  files[n].uid \in Seq(0..255) /\ Len(files[n].blocks) \in 0..McBlocks
    <3>1. files[n].uid = <<>> /\ files[n].blocks = <<>>
      BY DEF NoFile, NoUid
    <3>2. files[n].uid \in Seq(0..255)
      BY <3>1, <1>1
    <3>3. Len(files[n].blocks) = 0
      BY <3>1, <1>1
    <3> QED
      BY <3>2, <3>3 DEF McBlocks
  <2>3. loaded.plain \in [1..3 -> Parts] /\ loaded.uid \in Seq(0..255)
        /\ loaded.valid \in BOOLEAN
    BY <1>1, <1>4 DEF NothingLoaded, NoUid
  <2>4. save.name \in Names \cup {"none"} /\ save.next \in 0..McBlocks
    BY DEF NoSave, McBlocks
  <2>5. meant \in [Names -> [1..3 -> Parts]]
    BY BlankType
  <2> QED
    BY <2>1, <2>2, <2>3, <2>4, <2>5 DEF TypeOK
<1>6. LoadedInv
  BY <1>2 DEF LoadedInv, NothingLoaded
<1>7. SaveInv
  BY DEF SaveInv, Saving, NoSave
<1>8. FileInv
  BY <1>3 DEF FileInv
<1>9. GoodInv
  BY DEF GoodInv
<1> QED
  BY <1>5, <1>6, <1>7, <1>8, <1>9 DEF IInv


\* The worker reads a tag: only what is loaded changes.
LEMMA ReadTagIInv == IInv /\ ReadTag => IInv'
<1> SUFFICES ASSUME IInv, ReadTag PROVE IInv'
  OBVIOUS
<1> USE DEF IInv
<1>1. PICK c \in Held, u \in Uids :
          Decodes(c) /\ loaded' = [plain |-> c, uid |-> u, valid |-> TRUE]
  BY DEF ReadTag
<1>2. ~Saving /\ UNCHANGED <<files, save, good, meant>>
  BY DEF ReadTag
<1>3. KnownUid(u)
  BY TagUid
<1>4. c \in [1..3 -> Parts]
  BY HeldType
<1>5. TypeOK'
  BY <1>1, <1>2, <1>3, <1>4 DEF TypeOK, KnownUid
<1>6. LoadedInv'
  BY <1>1, <1>3, <1>4 DEF LoadedInv, Readable
<1>7. SaveInv'
  BY <1>2 DEF SaveInv, Saving
<1>8. FileInv' /\ GoodInv'
  BY <1>2 DEF FileInv, GoodInv
<1> QED
  BY <1>5, <1>6, <1>7, <1>8

\* A save begins with an empty file, which no load takes.
LEMMA CallSaveIInv ==
    ASSUME IInv, NEW n \in Names, NEW plain, NEW uid,
           Readable(plain), KnownUid(uid), CallSave(n, plain, uid)
    PROVE  IInv'
<1> USE DEF IInv
<1> DEFINE empty == [uid |-> FourBytes(uid), blocks |-> <<>>]
<1>1. /\ save' = [name |-> n, plain |-> plain, uid |-> uid, key |-> KeyFor(uid), next |-> 0]
      /\ files' = [files EXCEPT ![n] = empty]
      /\ good' = [good EXCEPT ![n] = Unknown]
      /\ meant' = [meant EXCEPT ![n] = plain]
      /\ loaded' = loaded
  BY DEF CallSave, KeyFor
<1>2. empty.uid \in Seq(0..255) /\ Len(empty.uid) = 4
  BY FourBytesType
<1>3. empty.blocks = <<>> /\ Len(empty.blocks) = 0
  OBVIOUS
<1>4. empty = Image(plain, uid, 0)
  <2>1. [k \in 1..0 |-> FillBlock(k - 1, plain, FourBytes(uid), KeyFor(uid))] = <<>>
    OBVIOUS
  <2> QED
    BY <2>1 DEF Image
<1>5. ~Captured(empty)
  BY <1>3 DEF Captured, Block
<1> HIDE DEF empty
<1>6. DOMAIN files = Names /\ DOMAIN good = Names /\ meant \in [Names -> [1..3 -> Parts]]
  BY DEF TypeOK
<1>7. /\ files'[n] = empty /\ good'[n] = Unknown /\ meant'[n] = plain
      /\ \A m \in Names \ {n} :
             files'[m] = files[m] /\ good'[m] = good[m] /\ meant'[m] = meant[m]
  BY <1>1, <1>6
<1>8. TypeOK'
  <2>1. DOMAIN files' = Names /\ DOMAIN good' = Names
    BY <1>1, <1>6
  <2>2. ASSUME NEW m \in Names
        PROVE  files'[m].uid \in Seq(0..255) /\ Len(files'[m].blocks) \in 0..McBlocks
    BY <1>2, <1>3, <1>7 DEF TypeOK, McBlocks
  <2>3. save'.name \in Names \cup {"none"} /\ save'.next \in 0..McBlocks
    BY <1>1 DEF McBlocks
  <2>4. meant' \in [Names -> [1..3 -> Parts]]
    BY <1>1, <1>6 DEF Readable
  <2> QED
    BY <1>1, <2>1, <2>2, <2>3, <2>4 DEF TypeOK
<1>9. LoadedInv'
  BY <1>1 DEF LoadedInv
<1>10. SaveInv'
  BY <1>1, <1>4, <1>7 DEF SaveInv
<1>11. FileInv'
  BY <1>2, <1>5, <1>7 DEF FileInv
<1>12. GoodInv'
  BY <1>7 DEF GoodInv
<1> QED
  BY <1>8, <1>9, <1>10, <1>11, <1>12

LEMMA SaveCallsIInv == IInv /\ (SaveResult \/ SaveStaged) => IInv'
<1>1. ASSUME IInv, SaveResult PROVE IInv'
  <2>1. Readable(loaded.plain) /\ KnownUid(loaded.uid)
    BY <1>1 DEF IInv, LoadedInv, SaveResult
  <2> QED
    BY <1>1, <2>1, CallSaveIInv DEF SaveResult
<1>2. ASSUME IInv, SaveStaged PROVE IInv'
  <2>1. PICK n \in Names, p \in Payloads : CallSave(n, Plain(p), NoUid)
    BY <1>2 DEF SaveStaged
  <2>2. Readable(Plain(p))
    BY PlainType
  <2>3. KnownUid(NoUid)
    BY EmptySeq DEF KnownUid, NoUid
  <2> QED
    BY <1>2, <2>1, <2>2, <2>3, CallSaveIInv
<1> QED
  BY <1>1, <1>2

\* The file of the save grows by its next block and stays the image of the
\* payload, which a load takes from the seventh block on.
LEMMA WriteBlockIInv == IInv /\ WriteBlock => IInv'
<1> SUFFICES ASSUME IInv, WriteBlock PROVE IInv'
  OBVIOUS
<1> USE DEF IInv
<1> DEFINE name == save.name
           next == save.next
           grown == Image(save.plain, save.uid, next + 1)
<1>1. /\ Saving /\ next \in 0..(McBlocks - 1)
      /\ loaded' = loaded /\ good' = good /\ meant' = meant
  BY DEF WriteBlock, TypeOK, McBlocks
<1>2. /\ name \in Names /\ Readable(save.plain) /\ KnownUid(save.uid)
      /\ save = [name |-> name, plain |-> save.plain, uid |-> save.uid,
                 key |-> KeyFor(save.uid), next |-> next]
      /\ save.key = KeyFor(save.uid)
      /\ files[name] = Image(save.plain, save.uid, next)
      /\ good[name] = Unknown /\ meant[name] = save.plain
  BY <1>1 DEF SaveInv
<1>3. save' = [save EXCEPT !.next = next + 1]
  BY DEF WriteBlock
<1>4. /\ save'.name = name /\ save'.plain = save.plain /\ save'.uid = save.uid
      /\ save'.next = next + 1
      /\ save' = [name |-> name, plain |-> save.plain, uid |-> save.uid,
                 key |-> KeyFor(save.uid), next |-> next + 1]
  BY <1>2, <1>3
<1>5. [Image(save.plain, save.uid, next) EXCEPT
           !.blocks = Append(@, FillBlock(next, save.plain, FourBytes(save.uid), save.key))]
        = grown
  <2>1. [Image(save.plain, save.uid, next) EXCEPT
             !.blocks = Append(@, FillBlock(next, save.plain, FourBytes(save.uid),
                                            KeyFor(save.uid)))]
          = grown
    BY <1>1, ImageGrows
  <2> HIDE DEF grown, next
  <2> QED
    BY <1>2, <2>1
<1>6. files' = [files EXCEPT ![name] = grown]
  BY <1>2, <1>5 DEF WriteBlock
<1>7. DOMAIN files = Names /\ DOMAIN good = Names
  BY DEF TypeOK
<1>8. files'[name] = grown /\ \A m \in Names \ {name} : files'[m] = files[m]
  BY <1>2, <1>6, <1>7
<1>9. grown.uid \in Seq(0..255) /\ Len(grown.uid) = 4
  BY <1>2, FourBytesType DEF Image
<1>10. Len(grown.blocks) = next + 1 /\ next + 1 \in 0..McBlocks
  BY <1>1 DEF Image, McBlocks
<1>11. Captured(grown) => PlainOf(grown) = save.plain
  BY <1>2, <1>10, ImagePayload DEF Readable
<1> HIDE DEF grown
<1>12. TypeOK'
  <2>1. DOMAIN files' = Names
    BY <1>6, <1>7
  <2>2. ASSUME NEW m \in Names
        PROVE  files'[m].uid \in Seq(0..255) /\ Len(files'[m].blocks) \in 0..McBlocks
    BY <1>8, <1>9, <1>10 DEF TypeOK
  <2>3. save'.name \in Names \cup {"none"} /\ save'.next \in 0..McBlocks
    BY <1>2, <1>4, <1>10
  <2> QED
    BY <1>1, <2>1, <2>2, <2>3 DEF TypeOK
<1>13. LoadedInv'
  BY <1>1 DEF LoadedInv
<1>14. SaveInv'
  BY <1>1, <1>2, <1>4, <1>8 DEF SaveInv, grown
<1>15. FileInv'
  <2> SUFFICES ASSUME NEW m \in Names
               PROVE  /\ files'[m] # NoFile => Len(files'[m].uid) >= 4
                      /\ Captured(files'[m]) => PlainOf(files'[m]) = meant'[m]
    BY DEF FileInv
  <2>1. CASE m = name
    BY <2>1, <1>1, <1>2, <1>8, <1>9, <1>11
  <2>2. CASE m # name
    BY <2>2, <1>1, <1>8 DEF FileInv
  <2> QED
    BY <2>1, <2>2
<1>16. GoodInv'
  BY <1>1, <1>2, <1>8 DEF GoodInv
<1> QED
  BY <1>12, <1>13, <1>14, <1>15, <1>16

\* The save returns TRUE: the file is the whole image.
LEMMA SaveReturnsIInv == IInv /\ SaveReturns => IInv'
<1> SUFFICES ASSUME IInv, SaveReturns PROVE IInv'
  OBVIOUS
<1> USE DEF IInv
<1> DEFINE name == save.name
<1>1. /\ Saving /\ save.next = McBlocks /\ save' = NoSave
      /\ good' = [good EXCEPT ![name] = [plain |-> save.plain, uid |-> save.uid]]
      /\ files' = files /\ loaded' = loaded /\ meant' = meant
  BY DEF SaveReturns
<1>2. /\ name \in Names /\ Readable(save.plain)
      /\ files[name] = Image(save.plain, save.uid, McBlocks)
  BY <1>1 DEF SaveInv
<1>3. DOMAIN good = Names
  BY DEF TypeOK
<1>4. TypeOK'
  BY <1>1, <1>3 DEF TypeOK, NoSave, McBlocks
<1>5. LoadedInv' /\ FileInv'
  BY <1>1 DEF LoadedInv, FileInv
<1>6. SaveInv'
  BY <1>1 DEF SaveInv, Saving, NoSave
<1>7. GoodInv'
  BY <1>1, <1>2, <1>3 DEF GoodInv
<1> QED
  BY <1>4, <1>5, <1>6, <1>7

\* A save that is cut off leaves a file that is an image as far as it goes.
LEMMA CutOffIInv == IInv /\ (SaveFails \/ Restart) => IInv'
<1> SUFFICES ASSUME IInv, SaveFails \/ Restart PROVE IInv'
  OBVIOUS
<1> USE DEF IInv
<1>1. /\ save' = NoSave /\ files' = files /\ good' = good /\ meant' = meant
      /\ loaded' = loaded \/ loaded' = NothingLoaded
  BY DEF SaveFails, Restart
<1>2. /\ NothingLoaded.plain \in [1..3 -> Parts]
      /\ NothingLoaded.uid \in Seq(0..255) /\ NothingLoaded.uid = NoUid
      /\ NothingLoaded.valid = FALSE
  BY EmptySeq, BlankType DEF NothingLoaded, NoUid
<1>3. TypeOK'
  <2>1. loaded'.plain \in [1..3 -> Parts] /\ loaded'.uid \in Seq(0..255)
        /\ loaded'.valid \in BOOLEAN
    BY <1>1, <1>2 DEF TypeOK
  <2>2. save'.name \in Names \cup {"none"} /\ save'.next \in 0..McBlocks
    BY <1>1 DEF NoSave, McBlocks
  <2> QED
    BY <1>1, <2>1, <2>2 DEF TypeOK
<1>4. LoadedInv'
  BY <1>1, <1>2 DEF LoadedInv, KnownUid
<1>5. SaveInv'
  BY <1>1 DEF SaveInv, Saving, NoSave
<1>6. FileInv' /\ GoodInv'
  BY <1>1 DEF FileInv, GoodInv
<1> QED
  BY <1>3, <1>4, <1>5, <1>6

\* Only a file with all blocks of sector 1 is loaded, and what it was meant to hold.
LEMMA LoadIInv == IInv /\ Load => IInv'
<1> SUFFICES ASSUME IInv, Load PROVE IInv'
  OBVIOUS
<1> USE DEF IInv
<1>1. PICK n \in Names :
          /\ files[n] # NoFile /\ Loads(files[n])
          /\ loaded' = [plain |-> PlainOf(files[n]), uid |-> files[n].uid, valid |-> TRUE]
  BY DEF Load
<1>2. UNCHANGED <<files, save, good, meant>>
  BY DEF Load
<1>3. Readable(PlainOf(files[n]))
  BY <1>1 DEF FileInv, Loads, TypeOK, Readable
<1>4. files[n].uid \in Seq(0..255) /\ Len(files[n].uid) >= 4
  BY <1>1 DEF FileInv, TypeOK
<1>5. TypeOK'
  BY <1>1, <1>2, <1>3, <1>4 DEF TypeOK, Readable
<1>6. LoadedInv'
  BY <1>1, <1>3, <1>4 DEF LoadedInv, KnownUid
<1>7. SaveInv'
  BY <1>2 DEF SaveInv, Saving
<1>8. FileInv' /\ GoodInv'
  BY <1>2 DEF FileInv, GoodInv
<1> QED
  BY <1>5, <1>6, <1>7, <1>8

\* A file that the application did not save, or no file, takes a place.
LEMMA ReplacedIInv ==
    ASSUME IInv, NEW n \in Names, NEW f, NEW c \in [1..3 -> Parts], ~Saving,
           files' = [files EXCEPT ![n] = f], good' = [good EXCEPT ![n] = Unknown],
           meant' = [meant EXCEPT ![n] = c], UNCHANGED <<loaded, save>>,
           f.uid \in Seq(0..255), Len(f.blocks) \in 0..McBlocks,
           f # NoFile => Len(f.uid) >= 4,
           Captured(f) => PlainOf(f) = c
    PROVE  IInv'
<1> USE DEF IInv
<1>1. DOMAIN files = Names /\ DOMAIN good = Names /\ meant \in [Names -> [1..3 -> Parts]]
  BY DEF TypeOK
<1>2. /\ files'[n] = f /\ good'[n] = Unknown /\ meant'[n] = c
      /\ \A m \in Names \ {n} :
             files'[m] = files[m] /\ good'[m] = good[m] /\ meant'[m] = meant[m]
  BY <1>1
<1>3. TypeOK'
  <2>1. DOMAIN files' = Names /\ DOMAIN good' = Names
    BY <1>1
  <2>2. ASSUME NEW m \in Names
        PROVE  files'[m].uid \in Seq(0..255) /\ Len(files'[m].blocks) \in 0..McBlocks
    BY <1>2 DEF TypeOK
  <2>3. meant' \in [Names -> [1..3 -> Parts]]
    BY <1>1
  <2> QED
    BY <2>1, <2>2, <2>3 DEF TypeOK
<1>4. LoadedInv'
  BY DEF LoadedInv
<1>5. SaveInv'
  BY DEF SaveInv, Saving
<1>6. FileInv'
  BY <1>2 DEF FileInv
<1>7. GoodInv'
  BY <1>2 DEF GoodInv
<1> QED
  BY <1>3, <1>4, <1>5, <1>6, <1>7

LEMMA DeleteIInv == IInv /\ Delete => IInv'
<1> SUFFICES ASSUME IInv, Delete PROVE IInv'
  OBVIOUS
<1>1. PICK n \in Names : files' = [files EXCEPT ![n] = NoFile]
                         /\ good' = [good EXCEPT ![n] = Unknown]
                         /\ meant' = [meant EXCEPT ![n] = Blank]
  BY DEF Delete
<1>2. ~Saving /\ UNCHANGED <<loaded, save>>
  BY DEF Delete
<1>3. /\ NoFile.uid \in Seq(0..255) /\ Len(NoFile.blocks) = 0
      /\ ~Captured(NoFile)
  BY EmptySeq DEF NoFile, NoUid, Captured, Block
<1>4. Len(NoFile.blocks) \in 0..McBlocks
  BY <1>3 DEF McBlocks
<1> QED
  BY <1>1, <1>2, <1>3, <1>4, BlankType, ReplacedIInv

\* A dump of the stock application is captured only if all three blocks of what
\* the tag held were read.
LEMMA ImportIInv == IInv /\ Import => IInv'
<1> SUFFICES ASSUME IInv, Import PROVE IInv'
  OBVIOUS
<1>0. PICK n \in Names, c \in Held, u \in Uids, read \in SUBSET (4..6) :
      \E key \in {Derived(u), FactoryKey} :
          /\ files' = [files EXCEPT ![n] =
                 [uid    |-> u,
                  blocks |-> [k \in 1..McBlocks |->
                      IF k - 1 \in (4..6) \ read THEN Unread
                      ELSE FillBlock(k - 1, c, u, key)]]]
          /\ good' = [good EXCEPT ![n] = Unknown]
          /\ meant' = [meant EXCEPT ![n] = c]
  BY DEF Import
<1>1. PICK key \in {Derived(u), FactoryKey} :
          /\ files' = [files EXCEPT ![n] =
                 [uid    |-> u,
                  blocks |-> [k \in 1..McBlocks |->
                      IF k - 1 \in (4..6) \ read THEN Unread
                      ELSE FillBlock(k - 1, c, u, key)]]]
          /\ good' = [good EXCEPT ![n] = Unknown]
          /\ meant' = [meant EXCEPT ![n] = c]
  BY <1>0
<1>2. ~Saving /\ UNCHANGED <<loaded, save>>
  BY DEF Import
<1> DEFINE fill(i) == FillBlock(i, c, u, key)
           f == [uid |-> u, blocks |-> [k \in 1..McBlocks |->
                     IF k - 1 \in (4..6) \ read THEN Unread ELSE fill(k - 1)]]
<1>3. f.uid = u /\ u \in Seq(0..255) /\ Len(u) >= 4
  <2>1. KnownUid(u) /\ u # NoUid
    BY TagUid
  <2> QED
    BY <2>1 DEF KnownUid
<1>4. Len(f.blocks) = McBlocks
  BY DEF McBlocks
<1>5. \A i \in 4..6 : Block(f, i) = IF i \in read THEN fill(i) ELSE Unread
  <2> SUFFICES ASSUME NEW i \in 4..6
               PROVE  Block(f, i) = IF i \in read THEN fill(i) ELSE Unread
    OBVIOUS
  <2>1. i + 1 \in 1..McBlocks /\ (i + 1) - 1 = i /\ i < McBlocks
    BY DEF McBlocks
  <2>2. f.blocks[i + 1] = IF i \in (4..6) \ read THEN Unread ELSE fill(i)
    BY <2>1
  <2> QED
    BY <1>4, <2>1, <2>2 DEF Block
<1>6. \A i \in 4..6 : fill(i) # Unread /\ Decrypted(fill(i)) = c[i - 3]
  BY Filled
<1>7. files' = [files EXCEPT ![n] = f]
  BY <1>1
<1> HIDE DEF f, fill
<1>8. ASSUME Captured(f) PROVE PlainOf(f) = c
  <2>1. \A i \in 4..6 : Block(f, i) = fill(i)
    BY <1>5, <1>8 DEF Captured
  <2>2. \A i \in 1..3 : Decrypted(Block(f, i + 3)) = c[i]
    <3> SUFFICES ASSUME NEW i \in 1..3 PROVE Decrypted(Block(f, i + 3)) = c[i]
      OBVIOUS
    <3>1. i + 3 \in 4..6 /\ (i + 3) - 3 = i
      OBVIOUS
    <3> QED
      BY <3>1, <2>1, <1>6
  <2>3. c = [i \in 1..3 |-> c[i]]
    BY HeldType
  <2> QED
    BY <2>2, <2>3 DEF PlainOf
<1>9. Captured(f) => PlainOf(f) = c
  BY <1>8
<1>10. Len(f.blocks) \in 0..McBlocks
  BY <1>4 DEF McBlocks
<1> QED
  BY <1>1, <1>2, <1>3, <1>7, <1>9, <1>10, HeldType, ReplacedIInv

LEMMA NextIInv == IInv /\ [Next]_vars => IInv'
<1>1. ASSUME IInv, UNCHANGED vars PROVE IInv'
  BY <1>1 DEF IInv, TypeOK, LoadedInv, SaveInv, Saving, FileInv, GoodInv, vars
<1> QED
  BY <1>1, ReadTagIInv, SaveCallsIInv, WriteBlockIInv, SaveReturnsIInv, CutOffIInv,
     LoadIInv, DeleteIInv, ImportIInv DEF Next

LEMMA Invariance == Spec => []IInv
<1> QED
  BY InitIInv, NextIInv, PTL DEF Spec

------------------------------------------------------------------------------
(* The theorems. *)

\* A dump never has more blocks than a tag, a UID is bytes, and what the
\* application holds as a payload has three parts.
THEOREM TypeCorrect == Spec => []TypeOK
<1>1. IInv => TypeOK
  BY DEF IInv
<1> QED
  BY <1>1, Invariance, PTL

\* Whatever saves fail or are cut off, whatever dumps another application
\* leaves behind, and whatever half-written tags are read, saved and dumped: a
\* file that cfs_storage_load takes gives the whole of what the last to write it
\* was to put there, none of it missing and none from before.
THEOREM FilesLoadAsMeant == Spec => []LoadsAsMeant
<1>1. IInv => LoadsAsMeant
  BY DEF IInv, FileInv, Loads, LoadsAsMeant
<1> QED
  BY <1>1, Invariance, PTL

\* What cfs_storage_save reported as saved is in the file until the file is
\* saved again, replaced or deleted, and a load gives it back.
THEOREM SavedIsLoadable == Spec => []SavedLoadsBack
<1>1. ASSUME IInv PROVE SavedLoadsBack
  <2> SUFFICES ASSUME NEW n \in Names, good[n] # Unknown
               PROVE  /\ Loads(files[n])
                      /\ PlainOf(files[n]) = good[n].plain
                      /\ files[n].uid = FourBytes(good[n].uid)
                      /\ Len(good[n].uid) = 4 =>
                             Block(files[n], 7).key = Derived(good[n].uid)
    BY DEF SavedLoadsBack
  <2>1. Readable(good[n].plain) /\ files[n] = Image(good[n].plain, good[n].uid, McBlocks)
    BY <1>1 DEF IInv, GoodInv
  <2> QED
    BY <2>1, SavedImage
<1> QED
  BY <1>1, Invariance, PTL
==============================================================================
