------------------------------- MODULE CfsDump -------------------------------
(***************************************************************************)
(* The saved files (src/storage): .nfc dumps of MIFARE Classic 1K tags,    *)
(* which nfc_device_save truncates and then writes block by block, and of  *)
(* which cfs_storage_load trusts blocks 4, 5 and 6.  A save may fail or be *)
(* cut off by a crash after any block.  The stock NFC application puts     *)
(* dumps of its own beside them, with blocks it could not read.            *)
(*                                                                         *)
(* A payload is three parts, one per block; a UID is its bytes.  A tag     *)
(* that a write or an erase left half done holds parts of two payloads, or *)
(* garbage, and the worker may still report it as read (CfsNfcWorker).     *)
(***************************************************************************)
EXTENDS Naturals, Sequences

CONSTANTS
    Names,      \* file names
    Payloads,   \* payloads the staged fields can be encoded to
    Held,       \* what the tags at hand hold in blocks 4, 5 and 6, decrypted
    Uids        \* UIDs of tags, four or seven bytes

ASSUME UidAssumption ==
    \A u \in Uids : u \in Seq(0..255) /\ Len(u) \in {4, 7} /\ \E i \in 1..4 : u[i] # 0

ASSUME PayloadAssumption == "junk" \notin Payloads

ASSUME NameAssumption == "none" \notin Names

VARIABLES
    files,      \* the dumps
    loaded,     \* app->tag_plain, uid, and whether they hold a tag
    save,       \* the call of cfs_storage_save the GUI thread is in
    good,       \* history: what a save that returned TRUE put into a file
    meant       \* history: what the last to write a file was to put into it

vars == <<files, loaded, save, good, meant>>

------------------------------------------------------------------------------
(* Blocks. *)

McBlocks == 64

\* What the decryption of zeros or of another tag's blocks gives.
Junk == [of |-> "junk", part |-> 0]

Plain(p) == [i \in 1..3 |-> [of |-> p, part |-> i]]

Blank == [i \in 1..3 |-> Junk]

Parts == {Junk} \cup [of : Payloads, part : 1..3]

\* A tag's blocks can each be of another payload, but of their own part.
Contents == {c \in [1..3 -> Parts] : \A i \in 1..3 : c[i] = Junk \/ c[i].part = i}

ASSUME HeldAssumption == Held \subseteq Contents

\* The charset checks of cfs_data_decode cover the bytes 17 to 33 only, which
\* are those of the second and the third block.
Decodes(plain) == plain[2] # Junk /\ plain[3] # Junk

NoUid == <<>>

ZeroUid == <<0, 0, 0, 0>>

\* The UID in four bytes, zeros when there is none.
FourBytes(uid) == IF uid = NoUid THEN ZeroUid ELSE SubSeq(uid, 1, 4)

\* The key of blank tags, which is derived from no UID.
FactoryKey == <<>>

\* cfs_crypto_derive_key: the UID repeated to 16 bytes, encrypted; different
\* UIDs give different keys.
Derived(uid) == [i \in 1..16 |-> uid[1 + ((i - 1) % Len(uid))]]

Unread == [kind |-> "unread"]
Zeros  == [kind |-> "zeros"]

Cipher(part) == [kind |-> "cipher", part |-> part]

Trailer(key) == [kind |-> "trailer", key |-> key]

\* Mutant: the last block of the payload is left out.
FillBlockMutant(i, plain, uid, key) ==
    CASE i = 0                     -> [kind |-> "manufacturer", uid |-> uid]
      [] i \in 4..5                -> Cipher(plain[i - 3])
      [] i = 7                     -> Trailer(key)
      [] i % 4 = 3 /\ i # 7        -> Trailer(FactoryKey)
      [] OTHER                     -> Zeros

\* cfs_fill_block
FillBlock(i, plain, uid, key) ==
    CASE i = 0                     -> [kind |-> "manufacturer", uid |-> uid]
      [] i \in 4..6                -> Cipher(plain[i - 3])
      [] i = 7                     -> Trailer(key)
      [] i % 4 = 3 /\ i # 7        -> Trailer(FactoryKey)
      [] OTHER                     -> Zeros

------------------------------------------------------------------------------
(* Files. *)

NoFile == [uid |-> NoUid, blocks |-> <<>>]

\* Block i of a dump; a block that is not there counts as unread.
Block(f, i) == IF i < Len(f.blocks) THEN f.blocks[i + 1] ELSE Unread

\* Mutant: the charset checks are trusted to find a missing block.
CapturedMutant(f) == \A i \in 5..6 : Block(f, i) # Unread

Captured(f) == \A i \in 4..6 : Block(f, i) # Unread

\* A block read back and decrypted.
Decrypted(b) == IF b.kind = "cipher" THEN b.part ELSE Junk

PlainOf(f) == [i \in 1..3 |-> Decrypted(Block(f, i + 3))]

\* cfs_storage_load accepts the dump, if nfc_device_load does.
Loads(f) == Captured(f) /\ Decodes(PlainOf(f))

NothingLoaded == [plain |-> Blank, uid |-> NoUid, valid |-> FALSE]

NoSave == [name |-> "none", plain |-> <<>>, uid |-> NoUid, key |-> FactoryKey, next |-> 0]

Saving == save.name # "none"

Unknown == [plain |-> <<>>, uid |-> NoUid]

------------------------------------------------------------------------------

Init ==
    /\ files = [n \in Names |-> NoFile]
    /\ loaded = NothingLoaded
    /\ save = NoSave
    /\ good = [n \in Names |-> Unknown]
    /\ meant = [n \in Names |-> Blank]

\* The worker has read a tag (cfs_read_capture_result).  A half-written or
\* half-erased one is captured as it is when it decodes.
ReadTag ==
    /\ ~Saving
    /\ \E c \in Held, u \in Uids :
           Decodes(c) /\ loaded' = [plain |-> c, uid |-> u, valid |-> TRUE]
    /\ UNCHANGED <<files, save, good, meant>>

\* cfs_storage_save is called; nfc_device_save truncates the file and begins.
CallSave(name, plain, uid) ==
    /\ ~Saving
    /\ save' = [name |-> name, plain |-> plain, uid |-> uid, next |-> 0,
                key |-> IF uid # NoUid THEN Derived(uid) ELSE FactoryKey]
    /\ files' = [files EXCEPT ![name] = [uid |-> FourBytes(uid), blocks |-> <<>>]]
    /\ good' = [good EXCEPT ![name] = Unknown]
    /\ meant' = [meant EXCEPT ![name] = plain]
    /\ UNCHANGED loaded

\* Save on a read result (cfs_app_save_pending): the captured payload.
SaveResult ==
    /\ loaded.valid
    /\ \E n \in Names : CallSave(n, loaded.plain, loaded.uid)

\* Save on the confirm screen: the fields encoded, and no UID.
SaveStaged ==
    \E n \in Names, p \in Payloads : CallSave(n, Plain(p), NoUid)

\* Mutant: the loop goes one block too far.
WriteBlockMutant ==
    /\ Saving /\ save.next <= McBlocks
    /\ files' = [files EXCEPT ![save.name].blocks =
                     Append(@, FillBlock(save.next, save.plain, FourBytes(save.uid), save.key))]
    /\ save' = [save EXCEPT !.next = save.next + 1]
    /\ UNCHANGED <<loaded, good, meant>>

WriteBlock ==
    /\ Saving /\ save.next < McBlocks
    /\ files' = [files EXCEPT ![save.name].blocks =
                     Append(@, FillBlock(save.next, save.plain, FourBytes(save.uid), save.key))]
    /\ save' = [save EXCEPT !.next = save.next + 1]
    /\ UNCHANGED <<loaded, good, meant>>

SaveReturns ==
    /\ Saving /\ save.next = McBlocks
    /\ good' = [good EXCEPT ![save.name] = [plain |-> save.plain, uid |-> save.uid]]
    /\ save' = NoSave
    /\ UNCHANGED <<files, loaded, meant>>

SaveFails ==
    /\ Saving
    /\ save' = NoSave
    /\ UNCHANGED <<files, loaded, good, meant>>

\* The device loses its power, or the application is closed and opened again.
Restart ==
    /\ loaded' = NothingLoaded
    /\ save' = NoSave
    /\ UNCHANGED <<files, good, meant>>

\* cfs_scene_saved_tags_on_enter: the file that was picked is loaded.  A file
\* that was cut off may still be taken by nfc_device_load.
Load ==
    /\ ~Saving
    /\ \E n \in Names :
           /\ files[n] # NoFile /\ Loads(files[n])
           /\ loaded' = [plain |-> PlainOf(files[n]), uid |-> files[n].uid, valid |-> TRUE]
    /\ UNCHANGED <<files, save, good, meant>>

\* Delete on a saved entry (cfs_storage_delete).
Delete ==
    /\ ~Saving
    /\ \E n \in Names :
           /\ files' = [files EXCEPT ![n] = NoFile]
           /\ good' = [good EXCEPT ![n] = Unknown]
           /\ meant' = [meant EXCEPT ![n] = Blank]
    /\ UNCHANGED <<loaded, save>>

\* The stock NFC application leaves the dump of a tag, of whose sector 1 it
\* may have read only some blocks (it tries keys one by one).  A tag whose
\* first write was broken off still has the factory's key.
Import ==
    /\ ~Saving
    /\ \E n \in Names, c \in Held, u \in Uids, read \in SUBSET (4..6) :
       \E key \in {Derived(u), FactoryKey} :
           /\ files' = [files EXCEPT ![n] =
                  [uid    |-> u,
                   blocks |-> [k \in 1..McBlocks |->
                       IF k - 1 \in (4..6) \ read THEN Unread
                       ELSE FillBlock(k - 1, c, u, key)]]]
           /\ good' = [good EXCEPT ![n] = Unknown]
           /\ meant' = [meant EXCEPT ![n] = c]
    /\ UNCHANGED <<loaded, save>>

Next ==
    \/ ReadTag \/ SaveResult \/ SaveStaged
    \/ WriteBlock \/ SaveReturns \/ SaveFails \/ Restart
    \/ Load \/ Delete \/ Import

Spec == Init /\ [][Next]_vars

------------------------------------------------------------------------------
(* Properties. *)

\* The type invariant; a dump has no more blocks than a tag.
TypeOK ==
    /\ DOMAIN files = Names /\ DOMAIN good = Names
    /\ \A n \in Names :
           files[n].uid \in Seq(0..255) /\ Len(files[n].blocks) \in 0..McBlocks
    /\ loaded.plain \in [1..3 -> Parts] /\ loaded.uid \in Seq(0..255)
    /\ loaded.valid \in BOOLEAN
    /\ save.name \in Names \cup {"none"} /\ save.next \in 0..McBlocks
    /\ meant \in [Names -> [1..3 -> Parts]]

\* A file that cfs_storage_load takes gives the whole of what the last to
\* write it, the application or another, was to put there: no block is missing,
\* or left from what the file was before, although the save may have failed or
\* been cut off, a dump may lack any blocks, and cfs_data_decode would not
\* notice a wrong first block.  What a half-written tag held is given as it was.
LoadsAsMeant == \A n \in Names : Loads(files[n]) => PlainOf(files[n]) = meant[n]

\* What cfs_storage_save reported as saved can be loaded, with its payload and
\* the first four bytes of its UID, until the file is saved again, replaced or
\* deleted; the dump of a tag with a UID of four bytes has the tag's key.
SavedLoadsBack ==
    \A n \in Names : good[n] # Unknown =>
        /\ Loads(files[n])
        /\ PlainOf(files[n]) = good[n].plain
        /\ files[n].uid = FourBytes(good[n].uid)
        /\ Len(good[n].uid) = 4 => Block(files[n], 7).key = Derived(good[n].uid)
==============================================================================
