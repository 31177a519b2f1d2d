---------------------------- MODULE CfsCodecProofs ----------------------------
(***************************************************************************)
(* Proofs about the payload on its way through the application: what the   *)
(* codec writes it reads, what it wrote it writes again, the catalog entry *)
(* picked is the one shown, and the nearest weight is the nearest.  They   *)
(* hold for every table of weights, for every byte another writer may have *)
(* left, and for every entry, colour and serial number the user chooses.   *)
(***************************************************************************)
EXTENDS CfsCodec, SequenceTheorems, WellFoundedInduction, TLAPS

------------------------------------------------------------------------------
(* Characters. *)

LEMMA DigitFacts == \A n \in Nat : Digit(n) \in 48..57 /\ Digit(n) = 48 + (n % 10)
BY DEF Digit, Zero

LEMMA HexFacts ==
    \A d \in 0..15 : IsHexDigit(HexChar(d)) /\ HexVal(HexChar(d)) = d /\ HexChar(d) \in Byte
BY DEF IsHexDigit, IsDigit, HexChar, HexVal, Byte

LEMMA ByteFacts ==
    \A b \in Byte :
        b \div 16 \in 0..15 /\ (b % 16) \in 0..15 /\ ((b \div 16) * 16) + (b % 16) = b
BY DEF Byte

\* The two hexadecimal digits of a byte give it back.
LEMMA ColorByteInverse ==
    \A b \in Byte : ColorByte(HexChar(b \div 16), HexChar(b % 16)) = b
BY HexFacts, ByteFacts DEF ColorByte

\* Four digits hold a length up to 9999, a longer one is 9999.
LEMMA LengthInverse ==
    \A n \in Nat : LengthValue(LengthText(n)) = IF n > 9999 THEN 9999 ELSE n
BY DEF LengthValue, LengthText, Digit, Zero

LEMMA UInt16Nat == \A n \in UInt16 : n \in Nat
BY DEF UInt16

LEMMA SerialNat == \A n \in SerialNumbers : n \in Nat
BY DEF SerialNumbers

LEMMA UInt16Bound == \A n \in UInt16 : n <= 65535
BY DEF UInt16

\* The lengths of four digits.
FourDigits == 0..9999

LEMMA FourDigitsUInt16 == \A n \in FourDigits : n \in UInt16
BY DEF UInt16, FourDigits

LEMMA LengthTextType == \A n \in Nat : LengthText(n) \in [1..LengthLen -> 48..57]
BY DigitFacts DEF LengthText, LengthLen

LEMMA LengthTextCut ==
    \A n \in Nat : LengthText(IF n > 9999 THEN 9999 ELSE n) = LengthText(n)
BY DEF LengthText

LEMMA SerialTextType == \A n \in Nat : SerialText(n) \in [1..SerialLen -> 48..57]
BY DigitFacts DEF SerialText, SerialLen

LEMMA FilamentIdType == \A n \in Nat : FilamentId(n) \in [1..FilamentLen -> 48..57]
BY DigitFacts DEF FilamentId, FilamentLen

LEMMA ColorTextType ==
    ASSUME NEW r \in Byte, NEW g \in Byte, NEW b \in Byte
    PROVE  ColorText(r, g, b) \in Chars(ColorLen)
<1>1. \A x \in Byte : HexChar(x \div 16) \in Byte /\ HexChar(x % 16) \in Byte
  BY HexFacts, ByteFacts
<1>2. Zero \in Byte
  BY DEF Zero, Byte
<1> QED
  BY <1>1, <1>2 DEF ColorText, Chars, ColorLen

LEMMA LengthValueType ==
    ASSUME NEW t \in [1..LengthLen -> 48..57]
    PROVE  LengthValue(t) \in FourDigits
<1> DEFINE th == t[1] - 48
           hu == t[2] - 48
           te == t[3] - 48
           un == t[4] - 48
<1>1. th \in 0..9 /\ hu \in 0..9 /\ te \in 0..9 /\ un \in 0..9
  BY DEF LengthLen
<1>2. LengthValue(t) = th * 1000 + hu * 100 + te * 10 + un
  BY DEF LengthValue
<1> HIDE DEF th, hu, te, un
<1> QED
  BY <1>1, <1>2 DEF FourDigits

LEMMA ColorByteType ==
    \A h, l \in Byte : IsHexDigit(h) /\ IsHexDigit(l) => ColorByte(h, l) \in Byte
BY DEF ColorByte, HexVal, IsHexDigit, IsDigit, Byte

------------------------------------------------------------------------------
(* Strings in arrays. *)

\* An array without a NUL is full.
LEMMA FullLen ==
    ASSUME NEW n \in Nat, NEW s \in Chars(n), \A i \in 1..n : s[i] # 0
    PROVE  StrLen(s) = n
<1>1. DOMAIN s = 1..n /\ Len(s) = n
  BY LenProperties, SeqDef DEF Chars
<1>2. {i \in DOMAIN s : s[i] = 0} = {}
  BY <1>1
<1> QED
  BY <1>1, <1>2 DEF StrLen

\* Padding an array that is full leaves it alone.
LEMMA PadFull ==
    ASSUME NEW n \in Nat, NEW s \in Chars(n), StrLen(s) = n
    PROVE  PadRight(s, n) = s /\ PadLeft(s, n) = s
BY DEF PadRight, PadLeft, Chars

\* A set of natural numbers has a first one.
LEMMA FirstOfSet ==
    ASSUME NEW I, I \subseteq Nat, I # {}
    PROVE  \E i \in I : \A j \in I : i <= j
<1> DEFINE R == {ss \in Nat \X Nat : ss[1] < ss[2]}
<1>1. IsWellFoundedOn(R, Nat)
  <2>1. R = OpToRel(<, Nat)
    BY Zenon DEF OpToRel
  <2> QED
    BY <2>1, NatLessThanWellFounded
<1>2. PICK x \in I : \A y \in I : ~(<<y, x>> \in R)
  <2> HIDE DEF R
  <2> QED
    BY <1>1, WFMin
<1>3. \A y \in I : ~(y < x)
  BY <1>2
<1>4. \A y \in I : x <= y
  <2> TAKE y \in I
  <2> HIDE DEF R
  <2>1. x \in Nat /\ y \in Nat /\ ~(y < x)
    BY <1>3
  <2> QED
    BY ONLY <2>1
<1> QED
  BY <1>4

LEMMA CharsSeq ==
    ASSUME NEW n \in Nat, NEW s \in Chars(n)
    PROVE  s \in Seq(Byte) /\ Len(s) = n /\ DOMAIN s = 1..n
BY LenProperties, SeqDef DEF Chars

\* A string ends inside its array, and has no NUL before its end.
LEMMA StrLenFacts ==
    ASSUME NEW n \in Nat, NEW s \in Chars(n)
    PROVE  /\ StrLen(s) \in 0..n
           /\ \A i \in 1..n : i <= StrLen(s) => s[i] # 0
<1> DEFINE Ends == {i \in DOMAIN s : s[i] = 0}
<1>1. DOMAIN s = 1..n /\ Len(s) = n
  BY CharsSeq
<1>2. CASE Ends = {}
  BY <1>1, <1>2 DEF StrLen
<1>3. CASE Ends # {}
  <2>1. PICK e \in Ends : \A j \in Ends : e <= j
    <3>1. Ends \subseteq Nat
      BY <1>1
    <3> HIDE DEF Ends
    <3> QED
      BY <3>1, <1>3, FirstOfSet
  <2> DEFINE m == CHOOSE i \in Ends : \A j \in Ends : i <= j
  <2>2. m \in Ends /\ \A j \in Ends : m <= j
    BY <2>1
  <2>3. StrLen(s) = m - 1
    BY <1>3 DEF StrLen
  <2> HIDE DEF m
  <2> QED
    BY <1>1, <2>2, <2>3
<1> QED
  BY <1>2, <1>3

\* Concatenation, and that p stands behind the first o characters of c, under
\* names the provers do not look into.
Join(s, t) == s \o t

At(c, o, p, n) == \A i \in 1..n : c[o + i] = p[i]

LEMMA JoinChars ==
    ASSUME NEW m \in Nat, NEW n \in Nat, NEW s \in Chars(m), NEW t \in Chars(n)
    PROVE  /\ Join(s, t) \in Chars(m + n)
           /\ At(Join(s, t), m, t, n)
           /\ \A o \in Nat, l \in Nat : \A p :
                  o + l <= m /\ At(s, o, p, l) => At(Join(s, t), o, p, l)
<1>1. s \in Seq(Byte) /\ Len(s) = m /\ t \in Seq(Byte) /\ Len(t) = n
  BY CharsSeq
<1> DEFINE c == s \o t
<1>2. /\ c \in Seq(Byte)
      /\ Len(c) = m + n
      /\ \A i \in 1..(m + n) : c[i] = IF i <= m THEN s[i] ELSE t[i - m]
  BY <1>1, ConcatProperties
<1>3. Join(s, t) = c
  BY DEF Join
<1> HIDE DEF c
<1>4. c \in Chars(m + n)
  BY <1>2, LenProperties DEF Chars
<1>5. At(c, m, t, n)
  BY <1>2 DEF At
<1>6. ASSUME NEW o \in Nat, NEW l \in Nat, NEW p, o + l <= m, At(s, o, p, l)
      PROVE  At(c, o, p, l)
  <2>1. ASSUME NEW i \in 1..l PROVE c[o + i] = p[i]
    <3>1. (o + i) \in 1..(m + n) /\ o + i <= m
      BY <1>6
    <3>2. s[o + i] = p[i]
      BY <1>6 DEF At
    <3> QED
      BY <1>2, <3>1, <3>2
  <2> QED
    BY <2>1 DEF At
<1> QED
  BY <1>3, <1>4, <1>5, <1>6

LEMMA PadRightFacts ==
    ASSUME NEW n \in Nat, NEW s \in Chars(n)
    PROVE  /\ PadRight(s, n) \in Chars(n)
           /\ PadRight(PadRight(s, n), n) = PadRight(s, n)
<1>1. StrLen(s) \in 0..n /\ \A i \in 1..n : i <= StrLen(s) => s[i] # 0
  BY StrLenFacts
<1>2. Zero \in Byte /\ Zero # 0
  BY DEF Zero, Byte
<1>3. PadRight(s, n) \in Chars(n)
  BY <1>2 DEF PadRight, Chars
<1>4. \A i \in 1..n : PadRight(s, n)[i] # 0
  BY <1>1, <1>2 DEF PadRight
<1>5. StrLen(PadRight(s, n)) = n
  BY <1>3, <1>4, FullLen
<1> QED
  BY <1>3, <1>5, PadFull

\* An array of digits is full.
LEMMA DigitsFacts ==
    ASSUME NEW n \in Nat, NEW s \in [1..n -> 48..57]
    PROVE  s \in Chars(n) /\ StrLen(s) = n /\ PadLeft(s, n) = s
<1>1. s \in Chars(n)
  BY DEF Chars, Byte
<1>2. StrLen(s) = n
  BY <1>1, FullLen
<1> QED
  BY <1>1, <1>2, PadFull

------------------------------------------------------------------------------
(* The payload. *)

\* The record of the fields of d.
FieldsOf(d) ==
    [date_raw |-> d.date_raw, vendor |-> d.vendor, batch |-> d.batch,
     filament_id |-> d.filament_id, filament_type |-> d.filament_type,
     color_r |-> d.color_r, color_g |-> d.color_g, color_b |-> d.color_b,
     length_m |-> d.length_m, serial |-> d.serial]

\* d holds the fields of a tag, as the wizard stages them.
IsTagData(d) ==
    /\ d = FieldsOf(d)
    /\ d.date_raw \in Chars(DateLen) /\ d.vendor \in Chars(VendorLen)
    /\ d.batch \in Chars(BatchLen) /\ d.filament_id \in Chars(FilamentLen)
    /\ d.filament_type = FilamentType(d.filament_id)
    /\ d.color_r \in Byte /\ d.color_g \in Byte /\ d.color_b \in Byte
    /\ d.length_m \in UInt16
    /\ d.serial \in [1..SerialLen -> 48..57]

\* The arrays of a payload, joined, stand at the offsets of its fields.
LEMMA JoinFields ==
    ASSUME NEW p1 \in Chars(5), NEW p2 \in Chars(4), NEW p3 \in Chars(2), NEW p4 \in Chars(6),
           NEW p5 \in Chars(7), NEW p6 \in Chars(4), NEW p7 \in Chars(6), NEW p8 \in Chars(14),
           NEW c, c = Join(Join(Join(Join(Join(Join(Join(p1, p2), p3), p4), p5), p6), p7), p8)
    PROVE  /\ c \in Chars(48)
           /\ At(c, 0, p1, 5) /\ At(c, 5, p2, 4) /\ At(c, 9, p3, 2) /\ At(c, 11, p4, 6)
           /\ At(c, 17, p5, 7) /\ At(c, 24, p6, 4) /\ At(c, 28, p7, 6)
<1>2. PICK c2 : c2 = Join(p1, p2)
  OBVIOUS
<1>3. PICK c3 : c3 = Join(c2, p3)
  OBVIOUS
<1>4. PICK c4 : c4 = Join(c3, p4)
  OBVIOUS
<1>5. PICK c5 : c5 = Join(c4, p5)
  OBVIOUS
<1>6. PICK c6 : c6 = Join(c5, p6)
  OBVIOUS
<1>7. PICK c7 : c7 = Join(c6, p7)
  OBVIOUS
<1>8. PICK c8 : c8 = Join(c7, p8)
  OBVIOUS
<1>9. c = c8
  BY <1>8, <1>2, <1>3, <1>4, <1>5, <1>6, <1>7
<1>11. At(p1, 0, p1, 5)
  BY DEF At
<1>12. /\ c2 \in Chars(9)
       /\ At(c2, 0, p1, 5) /\ At(c2, 5, p2, 4)
  <2>1. /\ c2 \in Chars(5 + 4) /\ At(c2, 5, p2, 4)
        /\ \A o \in Nat, l \in Nat : \A p :
               o + l <= 5 /\ At(p1, o, p, l) => At(c2, o, p, l)
    BY <1>2, JoinChars
  <2> QED
    BY <2>1, <1>11
<1>13. /\ c3 \in Chars(11)
       /\ At(c3, 0, p1, 5) /\ At(c3, 5, p2, 4) /\ At(c3, 9, p3, 2)
  <2>1. /\ c3 \in Chars(9 + 2) /\ At(c3, 9, p3, 2)
        /\ \A o \in Nat, l \in Nat : \A p :
               o + l <= 9 /\ At(c2, o, p, l) => At(c3, o, p, l)
    BY <1>3, <1>12, JoinChars
  <2> QED
    BY <2>1, <1>12
<1>14. /\ c4 \in Chars(17)
       /\ At(c4, 0, p1, 5) /\ At(c4, 5, p2, 4) /\ At(c4, 9, p3, 2) /\ At(c4, 11, p4, 6)
  <2>1. /\ c4 \in Chars(11 + 6) /\ At(c4, 11, p4, 6)
        /\ \A o \in Nat, l \in Nat : \A p :
               o + l <= 11 /\ At(c3, o, p, l) => At(c4, o, p, l)
    BY <1>4, <1>13, JoinChars
  <2> QED
    BY <2>1, <1>13
<1>15. /\ c5 \in Chars(24)
       /\ At(c5, 0, p1, 5) /\ At(c5, 5, p2, 4) /\ At(c5, 9, p3, 2) /\ At(c5, 11, p4, 6)
       /\ At(c5, 17, p5, 7)
  <2>1. /\ c5 \in Chars(17 + 7) /\ At(c5, 17, p5, 7)
        /\ \A o \in Nat, l \in Nat : \A p :
               o + l <= 17 /\ At(c4, o, p, l) => At(c5, o, p, l)
    BY <1>5, <1>14, JoinChars
  <2> QED
    BY <2>1, <1>14
<1>16. /\ c6 \in Chars(28)
       /\ At(c6, 0, p1, 5) /\ At(c6, 5, p2, 4) /\ At(c6, 9, p3, 2) /\ At(c6, 11, p4, 6)
       /\ At(c6, 17, p5, 7) /\ At(c6, 24, p6, 4)
  <2>1. /\ c6 \in Chars(24 + 4) /\ At(c6, 24, p6, 4)
        /\ \A o \in Nat, l \in Nat : \A p :
               o + l <= 24 /\ At(c5, o, p, l) => At(c6, o, p, l)
    BY <1>6, <1>15, JoinChars
  <2> QED
    BY <2>1, <1>15
<1>17. /\ c7 \in Chars(34)
       /\ At(c7, 0, p1, 5) /\ At(c7, 5, p2, 4) /\ At(c7, 9, p3, 2) /\ At(c7, 11, p4, 6)
       /\ At(c7, 17, p5, 7) /\ At(c7, 24, p6, 4) /\ At(c7, 28, p7, 6)
  <2>1. /\ c7 \in Chars(28 + 6) /\ At(c7, 28, p7, 6)
        /\ \A o \in Nat, l \in Nat : \A p :
               o + l <= 28 /\ At(c6, o, p, l) => At(c7, o, p, l)
    BY <1>7, <1>16, JoinChars
  <2> QED
    BY <2>1, <1>16
<1>18. /\ c8 \in Chars(48)
       /\ At(c8, 0, p1, 5) /\ At(c8, 5, p2, 4) /\ At(c8, 9, p3, 2) /\ At(c8, 11, p4, 6)
       /\ At(c8, 17, p5, 7) /\ At(c8, 24, p6, 4) /\ At(c8, 28, p7, 6)
  <2>1. /\ c8 \in Chars(34 + 14) /\ At(c8, 34, p8, 14)
        /\ \A o \in Nat, l \in Nat : \A p :
               o + l <= 34 /\ At(c7, o, p, l) => At(c8, o, p, l)
    BY <1>8, <1>17, JoinChars
  <2> QED
    BY <2>1, <1>17
<1> QED
  BY <1>9, <1>18

LEMMA FieldAt ==
    ASSUME NEW n \in Nat, NEW o \in Nat, NEW p \in Chars(n), NEW c, At(c, o, p, n)
    PROVE  Field(c, o, n) = p
BY DEF Field, At, Chars

\* Every field is written at its place.
LEMMA EncodeFields ==
    ASSUME NEW d, IsTagData(d)
    PROVE  /\ Encode(d) \in Chars(PlaintextSize)
           /\ Field(Encode(d), OffDate, DateLen) = PadRight(d.date_raw, DateLen)
           /\ Field(Encode(d), OffVendor, VendorLen) = PadRight(d.vendor, VendorLen)
           /\ Field(Encode(d), OffBatch, BatchLen) = PadRight(d.batch, BatchLen)
           /\ Field(Encode(d), OffFilament, FilamentLen) = d.filament_id
           /\ Field(Encode(d), OffColor, ColorLen)
                = ColorText(d.color_r, d.color_g, d.color_b)
           /\ Field(Encode(d), OffLength, LengthLen) = LengthText(d.length_m)
           /\ Field(Encode(d), OffSerial, SerialLen) = d.serial
<1>1. /\ PadRight(d.date_raw, DateLen) \in Chars(5)
      /\ PadRight(d.vendor, VendorLen) \in Chars(4)
      /\ PadRight(d.batch, BatchLen) \in Chars(2)
  BY PadRightFacts DEF IsTagData, DateLen, VendorLen, BatchLen
<1>2. /\ d.filament_id \in Chars(6)
      /\ ColorText(d.color_r, d.color_g, d.color_b) \in Chars(7)
  BY ColorTextType DEF IsTagData, FilamentLen, ColorLen
<1>3. LengthText(d.length_m) \in Chars(4)
  <2>1. d.length_m \in Nat
    BY UInt16Nat DEF IsTagData
  <2> QED
    BY <2>1, LengthTextType, DigitsFacts DEF LengthLen
<1>4. PadLeft(d.serial, SerialLen) \in Chars(6) /\ PadLeft(d.serial, SerialLen) = d.serial
  <2>1. d.serial \in [1..6 -> 48..57]
    BY DEF IsTagData, SerialLen
  <2> QED
    BY <2>1, DigitsFacts DEF SerialLen
<1>5. [i \in 1..ReservedLen |-> Zero] \in Chars(14)
  BY DEF ReservedLen, Zero, Chars, Byte
<1>6. PICK c : c = Encode(d)
  OBVIOUS
<1>7. c = Join(Join(Join(Join(Join(Join(Join(PadRight(d.date_raw, DateLen),
              PadRight(d.vendor, VendorLen)), PadRight(d.batch, BatchLen)), d.filament_id),
              ColorText(d.color_r, d.color_g, d.color_b)), LengthText(d.length_m)),
              PadLeft(d.serial, SerialLen)), [i \in 1..ReservedLen |-> Zero])
  BY Zenon, <1>6 DEF Encode, Join
<1>8. /\ c \in Chars(48)
      /\ At(c, 0, PadRight(d.date_raw, DateLen), 5)
      /\ At(c, 5, PadRight(d.vendor, VendorLen), 4)
      /\ At(c, 9, PadRight(d.batch, BatchLen), 2)
      /\ At(c, 11, d.filament_id, 6)
      /\ At(c, 17, ColorText(d.color_r, d.color_g, d.color_b), 7)
      /\ At(c, 24, LengthText(d.length_m), 4)
      /\ At(c, 28, PadLeft(d.serial, SerialLen), 6)
  BY SMTT(30), <1>1, <1>2, <1>3, <1>4, <1>5, <1>7, JoinFields
<1>9. /\ Field(c, 0, 5) = PadRight(d.date_raw, DateLen)
      /\ Field(c, 5, 4) = PadRight(d.vendor, VendorLen)
      /\ Field(c, 9, 2) = PadRight(d.batch, BatchLen)
      /\ Field(c, 11, 6) = d.filament_id
      /\ Field(c, 17, 7) = ColorText(d.color_r, d.color_g, d.color_b)
      /\ Field(c, 24, 4) = LengthText(d.length_m)
      /\ Field(c, 28, 6) = d.serial
  BY <1>1, <1>2, <1>3, <1>4, <1>8, FieldAt
<1> QED
  BY <1>6, <1>8, <1>9
     DEF PlaintextSize, OffDate, OffVendor, OffBatch, OffFilament, OffColor, OffLength,
         OffSerial, DateLen, VendorLen, BatchLen, FilamentLen, ColorLen, LengthLen,
         SerialLen

\* A payload that decodes gives fields of the right types.
LEMMA DecodeType ==
    ASSUME NEW p \in Chars(PlaintextSize), Decodes(p)
    PROVE  IsTagData(Decode(p))
<1>1. \A i \in 1..48 : p[i] \in Byte
  BY DEF Chars, PlaintextSize
<1>2. /\ Field(p, OffDate, DateLen) \in Chars(DateLen)
      /\ Field(p, OffVendor, VendorLen) \in Chars(VendorLen)
      /\ Field(p, OffBatch, BatchLen) \in Chars(BatchLen)
      /\ Field(p, OffFilament, FilamentLen) \in Chars(FilamentLen)
  BY <1>1 DEF Field, Chars, OffDate, DateLen, OffVendor, VendorLen, OffBatch, BatchLen,
              OffFilament, FilamentLen
<1>3. Field(p, OffSerial, SerialLen) \in [1..SerialLen -> 48..57]
  BY DEF Decodes, IsDigit, Field
<1>4. LengthValue(Field(p, OffLength, LengthLen)) \in UInt16
  <2>1. Field(p, OffLength, LengthLen) \in [1..LengthLen -> 48..57]
    BY DEF Decodes, IsDigit, Field
  <2> QED
    BY <2>1, LengthValueType, FourDigitsUInt16
<1>5. PICK c : c = Field(p, OffColor, ColorLen)
  OBVIOUS
<1>6. ColorByte(c[2], c[3]) \in Byte /\ ColorByte(c[4], c[5]) \in Byte
      /\ ColorByte(c[6], c[7]) \in Byte
  <2>1. \A i \in 1..7 : c[i] \in Byte /\ IsHexDigit(c[i])
    BY <1>1, <1>5 DEF Decodes, Field, OffColor, ColorLen
  <2> QED
    BY <2>1, ColorByteType
<1>7. Decode(p) = FieldsOf(Decode(p))
  BY DEF Decode, FieldsOf
<1>8. /\ Decode(p).date_raw = Field(p, OffDate, DateLen)
      /\ Decode(p).vendor = Field(p, OffVendor, VendorLen)
      /\ Decode(p).batch = Field(p, OffBatch, BatchLen)
      /\ Decode(p).filament_id = Field(p, OffFilament, FilamentLen)
      /\ Decode(p).filament_type = FilamentType(Field(p, OffFilament, FilamentLen))
      /\ Decode(p).color_r = ColorByte(c[2], c[3])
      /\ Decode(p).color_g = ColorByte(c[4], c[5])
      /\ Decode(p).color_b = ColorByte(c[6], c[7])
      /\ Decode(p).length_m = LengthValue(Field(p, OffLength, LengthLen))
      /\ Decode(p).serial = Field(p, OffSerial, SerialLen)
  BY <1>5 DEF Decode
<1> QED
  BY <1>2, <1>3, <1>4, <1>6, <1>7, <1>8 DEF IsTagData

\* What is written is read: the strings with '0' for what they lack, a length
\* of five digits as 9999, and every other field as it is.
LEMMA RoundTrip ==
    ASSUME NEW d, IsTagData(d), NEW p, p = Encode(d)
    PROVE  /\ p \in Chars(PlaintextSize)
           /\ Decodes(p)
           /\ Decode(p).date_raw = PadRight(d.date_raw, DateLen)
           /\ Decode(p).vendor = PadRight(d.vendor, VendorLen)
           /\ Decode(p).batch = PadRight(d.batch, BatchLen)
           /\ Decode(p).filament_id = d.filament_id
           /\ Decode(p).filament_type = d.filament_type
           /\ Decode(p).color_r = d.color_r
           /\ Decode(p).color_g = d.color_g
           /\ Decode(p).color_b = d.color_b
           /\ Decode(p).length_m = IF d.length_m > 9999 THEN 9999 ELSE d.length_m
           /\ Decode(p).serial = d.serial
<1>1. /\ p \in Chars(PlaintextSize)
      /\ Field(p, OffDate, DateLen) = PadRight(d.date_raw, DateLen)
      /\ Field(p, OffVendor, VendorLen) = PadRight(d.vendor, VendorLen)
      /\ Field(p, OffBatch, BatchLen) = PadRight(d.batch, BatchLen)
      /\ Field(p, OffFilament, FilamentLen) = d.filament_id
      /\ Field(p, OffColor, ColorLen) = ColorText(d.color_r, d.color_g, d.color_b)
      /\ Field(p, OffLength, LengthLen) = LengthText(d.length_m)
      /\ Field(p, OffSerial, SerialLen) = d.serial
  BY EncodeFields
<1>2. d.length_m \in Nat
  BY UInt16Nat DEF IsTagData
<1>3. d.color_r \in Byte /\ d.color_g \in Byte /\ d.color_b \in Byte
  BY DEF IsTagData
<1>4. PICK c : c = ColorText(d.color_r, d.color_g, d.color_b)
  OBVIOUS
<1>5. /\ ColorByte(c[2], c[3]) = d.color_r
      /\ ColorByte(c[4], c[5]) = d.color_g
      /\ ColorByte(c[6], c[7]) = d.color_b
  BY <1>3, <1>4, ColorByteInverse DEF ColorText
<1>6. \A i \in 1..7 : IsHexDigit(c[i])
  <2>1. IsHexDigit(Zero)
    BY DEF IsHexDigit, IsDigit, Zero
  <2>2. \A b \in Byte : IsHexDigit(HexChar(b \div 16)) /\ IsHexDigit(HexChar(b % 16))
    BY HexFacts, ByteFacts
  <2> QED
    BY <1>3, <1>4, <2>1, <2>2 DEF ColorText
<1>7. \A i \in 1..ColorLen : IsHexDigit(p[OffColor + i])
  <2>1. \A i \in 1..ColorLen : p[OffColor + i] = c[i]
    BY <1>1, <1>4 DEF Field
  <2> QED
    BY <1>6, <2>1 DEF ColorLen
<1>8. \A i \in 1..LengthLen : IsDigit(p[OffLength + i])
  <2>1. PICK t : t = LengthText(d.length_m)
    OBVIOUS
  <2>2. t \in [1..LengthLen -> 48..57]
    BY <1>2, <2>1, LengthTextType
  <2>3. \A i \in 1..LengthLen : p[OffLength + i] = t[i]
    BY <1>1, <2>1 DEF Field
  <2> QED
    BY <2>2, <2>3 DEF IsDigit
<1>9. \A i \in 1..SerialLen : IsDigit(p[OffSerial + i])
  <2>1. \A i \in 1..SerialLen : p[OffSerial + i] = d.serial[i]
    BY <1>1 DEF Field
  <2> QED
    BY <2>1 DEF IsTagData, IsDigit
<1>10. Decodes(p)
  BY <1>7, <1>8, <1>9 DEF Decodes
<1>11. /\ Decode(p).date_raw = Field(p, OffDate, DateLen)
       /\ Decode(p).vendor = Field(p, OffVendor, VendorLen)
       /\ Decode(p).batch = Field(p, OffBatch, BatchLen)
       /\ Decode(p).filament_id = Field(p, OffFilament, FilamentLen)
       /\ Decode(p).filament_type = FilamentType(Field(p, OffFilament, FilamentLen))
       /\ Decode(p).color_r = ColorByte(c[2], c[3])
       /\ Decode(p).color_g = ColorByte(c[4], c[5])
       /\ Decode(p).color_b = ColorByte(c[6], c[7])
       /\ Decode(p).length_m = LengthValue(Field(p, OffLength, LengthLen))
       /\ Decode(p).serial = Field(p, OffSerial, SerialLen)
  BY <1>1, <1>4 DEF Decode
<1>12. LengthValue(LengthText(d.length_m)) = IF d.length_m > 9999 THEN 9999 ELSE d.length_m
  BY <1>2, LengthInverse
<1>13. d.filament_type = FilamentType(d.filament_id)
  BY DEF IsTagData
<1> QED
  BY <1>1, <1>5, <1>10, <1>11, <1>12, <1>13

\* What is read from what was written is written again byte for byte.
LEMMA SecondWrite ==
    ASSUME NEW d, IsTagData(d)
    PROVE  Encode(Decode(Encode(d))) = Encode(d)
<1>1. PICK e : e = Decode(Encode(d))
  OBVIOUS
<1>2. /\ e.date_raw = PadRight(d.date_raw, DateLen)
      /\ e.vendor = PadRight(d.vendor, VendorLen)
      /\ e.batch = PadRight(d.batch, BatchLen)
      /\ e.filament_id = d.filament_id
      /\ e.color_r = d.color_r /\ e.color_g = d.color_g /\ e.color_b = d.color_b
      /\ e.length_m = IF d.length_m > 9999 THEN 9999 ELSE d.length_m
      /\ e.serial = d.serial
  BY <1>1, RoundTrip
<1>3. /\ PadRight(e.date_raw, DateLen) = PadRight(d.date_raw, DateLen)
      /\ PadRight(e.vendor, VendorLen) = PadRight(d.vendor, VendorLen)
      /\ PadRight(e.batch, BatchLen) = PadRight(d.batch, BatchLen)
  <2>1. DateLen \in Nat /\ VendorLen \in Nat /\ BatchLen \in Nat
    BY DEF DateLen, VendorLen, BatchLen
  <2>2. /\ d.date_raw \in Chars(DateLen)
        /\ d.vendor \in Chars(VendorLen)
        /\ d.batch \in Chars(BatchLen)
    BY DEF IsTagData
  <2>3. /\ PadRight(PadRight(d.date_raw, DateLen), DateLen) = PadRight(d.date_raw, DateLen)
        /\ PadRight(PadRight(d.vendor, VendorLen), VendorLen) = PadRight(d.vendor, VendorLen)
        /\ PadRight(PadRight(d.batch, BatchLen), BatchLen) = PadRight(d.batch, BatchLen)
    BY <2>1, <2>2, PadRightFacts
  <2>4. /\ e.date_raw = PadRight(d.date_raw, DateLen)
        /\ e.vendor = PadRight(d.vendor, VendorLen)
        /\ e.batch = PadRight(d.batch, BatchLen)
    BY <1>2
  <2> QED
    BY Zenon, <2>3, <2>4
<1>4. LengthText(e.length_m) = LengthText(d.length_m)
  <2>1. d.length_m \in Nat
    BY UInt16Nat DEF IsTagData
  <2> QED
    BY <1>2, <2>1, LengthTextCut
<1>5. Encode(e) = Encode(d)
  <2>1. /\ e.filament_id = d.filament_id
        /\ e.color_r = d.color_r /\ e.color_g = d.color_g /\ e.color_b = d.color_b
        /\ e.serial = d.serial
    BY <1>2
  <2> QED
    BY Zenon, <2>1, <1>3, <1>4 DEF Encode
<1> QED
  BY <1>1, <1>5

------------------------------------------------------------------------------
(* The catalog. *)

LEMMA CatalogDomain == DOMAIN Catalog = 1..56
BY DEF Catalog

LEMMA CatalogTable ==
    /\ \A i \in 1..27 : Catalog[i] = i
    /\ \A i \in 28..32 : Catalog[i] = i + 3
    /\ Catalog[33] = 1001  /\ Catalog[34] = 1601  /\ Catalog[35] = 2001
    /\ Catalog[36] = 3001  /\ Catalog[37] = 4001  /\ Catalog[38] = 5001
    /\ Catalog[39] = 6001  /\ Catalog[40] = 6002  /\ Catalog[41] = 7001
    /\ Catalog[42] = 7002  /\ Catalog[43] = 8001  /\ Catalog[44] = 9001
    /\ Catalog[45] = 9002  /\ Catalog[46] = 10001 /\ Catalog[47] = 11001
    /\ Catalog[48] = 12002 /\ Catalog[49] = 12003 /\ Catalog[50] = 13001
    /\ Catalog[51] = 14001 /\ Catalog[52] = 15001 /\ Catalog[53] = 16001
    /\ Catalog[54] = 17001 /\ Catalog[55] = 18001 /\ Catalog[56] = 19001
BY DEF Catalog

LEMMA CatalogIds == \A i \in 1..56 : Catalog[i] \in Nat /\ Catalog[i] < 100000
BY CatalogTable

\* The entries are in the order of their ids.
LEMMA CatalogInjective == \A i, j \in 1..56 : Catalog[i] = Catalog[j] => i = j
<1>1. \A i \in 1..56 : Catalog[i] \in Nat
  BY CatalogIds
<1>6. ASSUME NEW i \in 1..56, NEW j \in 1..56, i < j
      PROVE  Catalog[i] < Catalog[j]
  BY CatalogTable, <1>6
<1>7. ASSUME NEW i \in 1..56, NEW j \in 1..56, Catalog[i] = Catalog[j]
      PROVE  i = j
  <2>1. Catalog[i] \in Nat /\ Catalog[j] \in Nat
    BY <1>1
  <2>2. ~(i < j)
    <3>1. ~(Catalog[i] < Catalog[j])
      BY <2>1, <1>7
    <3> QED
      BY <3>1, <1>6
  <2>3. ~(j < i)
    <3>1. ~(Catalog[j] < Catalog[i])
      BY <2>1, <1>7
    <3> QED
      BY <3>1, <1>6
  <2> QED
    BY <2>2, <2>3
<1> QED
  BY <1>7

\* Five digits hold an id.
LEMMA FiveDigits ==
    ASSUME NEW a \in Nat, NEW b \in Nat, a < 100000, b < 100000,
           \A k \in 1..5 : FilamentId(a)[k + 1] = FilamentId(b)[k + 1]
    PROVE  a = b
<1>1. \A n \in Nat : n < 100000 =>
          n = 10000 * ((n \div 10000) % 10) + 1000 * ((n \div 1000) % 10)
                + 100 * ((n \div 100) % 10) + 10 * ((n \div 10) % 10) + (n % 10)
  OBVIOUS
<1>2. /\ FilamentId(a)[2] = FilamentId(b)[2] /\ FilamentId(a)[3] = FilamentId(b)[3]
      /\ FilamentId(a)[4] = FilamentId(b)[4] /\ FilamentId(a)[5] = FilamentId(b)[5]
      /\ FilamentId(a)[6] = FilamentId(b)[6]
  OBVIOUS
<1>3. ASSUME NEW n \in Nat
      PROVE  /\ FilamentId(n)[2] = Digit(n \div 10000)
             /\ FilamentId(n)[3] = Digit(n \div 1000)
             /\ FilamentId(n)[4] = Digit(n \div 100)
             /\ FilamentId(n)[5] = Digit(n \div 10)
             /\ FilamentId(n)[6] = Digit(n)
  BY DEF FilamentId
<1>4. \A m, n \in Nat : Digit(m) = Digit(n) => (m % 10) = (n % 10)
  BY DEF Digit, Zero
<1>5. \A n \in Nat : /\ n \div 10000 \in Nat /\ n \div 1000 \in Nat
                     /\ n \div 100 \in Nat /\ n \div 10 \in Nat
  OBVIOUS
<1>6. /\ Digit(a \div 10000) = Digit(b \div 10000) /\ Digit(a \div 1000) = Digit(b \div 1000)
      /\ Digit(a \div 100) = Digit(b \div 100) /\ Digit(a \div 10) = Digit(b \div 10)
      /\ Digit(a) = Digit(b)
  BY <1>2, <1>3
<1>7. /\ ((a \div 10000) % 10) = ((b \div 10000) % 10)
      /\ ((a \div 1000) % 10) = ((b \div 1000) % 10)
      /\ ((a \div 100) % 10) = ((b \div 100) % 10)
      /\ ((a \div 10) % 10) = ((b \div 10) % 10)
      /\ (a % 10) = (b % 10)
  BY <1>4, <1>5, <1>6
<1> QED
  BY <1>1, <1>7

\* The id of an entry is looked up as that entry.
LEMMA LookupEntry ==
    ASSUME NEW i \in DOMAIN Catalog
    PROVE  Lookup(FilamentId(Catalog[i])) = i /\ i # 0
<1>1. i \in 1..56 /\ Catalog[i] \in Nat
  BY CatalogDomain, CatalogIds
<1>2. PICK id : id = FilamentId(Catalog[i])
  OBVIOUS
<1>3. StrLen(id) = 6
  <2>1. id \in [1..6 -> 48..57]
    BY <1>1, <1>2, FilamentIdType DEF FilamentLen
  <2> QED
    BY <2>1, DigitsFacts
<1> DEFINE tail == [k \in 1..5 |-> id[StrLen(id) - 5 + k]]
           Hits == {j \in DOMAIN Catalog :
                       \A k \in 1..5 : FilamentId(Catalog[j])[k + 1] = tail[k]}
<1>4. \A k \in 1..5 : tail[k] = id[k + 1]
  BY <1>3
<1>5. i \in Hits
  BY <1>2, <1>4
<1>6. ASSUME NEW j \in Hits PROVE j = i
  <2>1. PICK a, b : a = Catalog[j] /\ b = Catalog[i]
    OBVIOUS
  <2>2. j \in 1..56
    BY CatalogDomain
  <2>3. a \in Nat /\ b \in Nat /\ a < 100000 /\ b < 100000
    BY <1>1, <2>1, <2>2, CatalogIds
  <2>4. \A k \in 1..5 : FilamentId(a)[k + 1] = FilamentId(b)[k + 1]
    BY <1>2, <1>4, <2>1
  <2>5. a = b
    BY <2>3, <2>4, FiveDigits
  <2>6. \A x, y \in 1..56 : Catalog[x] = Catalog[y] => x = y
    BY CatalogInjective
  <2> QED
    BY Zenon, <1>1, <2>1, <2>2, <2>5, <2>6
<1> HIDE DEF Hits
<1>7. (CHOOSE x \in Hits : \A y \in Hits : x <= y) = i
  <2>1. \A y \in Hits : i <= y
    BY <1>1, <1>6
  <2> QED
    BY <1>5, <1>6, <2>1
<1>8. Lookup(id) = i
  BY <1>3, <1>5, <1>7 DEF Lookup, Hits
<1> QED
  BY <1>1, <1>2, <1>8

------------------------------------------------------------------------------
(* The nearest weight. *)

\* One turn of the loop, over the distances D.
Turn(D, p, n) == IF D[n] < p.diff THEN [best |-> n, diff |-> D[n]] ELSE p

\* After k turns the best entry is no farther than any seen, and nearer than
\* any before it, or nothing is nearer than the largest distance.
Nearest(D, largest, p, k) ==
    /\ p.best \in 1..5 /\ (p.best = 1 \/ p.best <= k) /\ p.diff \in Nat
    /\ p.diff = D[p.best] \/ (p.best = 1 /\ p.diff = largest)
    /\ \A w \in 1..k : p.diff <= D[w] /\ (w < p.best => p.diff < D[w])

LEMMA TurnKeeps ==
    ASSUME NEW D \in [1..5 -> Nat], NEW largest \in Nat, NEW p,
           NEW k \in 0..4, NEW n \in 1..5, n = k + 1, Nearest(D, largest, p, k)
    PROVE  Nearest(D, largest, Turn(D, p, n), n)
<1>1. D[n] \in Nat
  OBVIOUS
<1>2. CASE D[n] < p.diff
  <2>1. PICK q : q = Turn(D, p, n)
    OBVIOUS
  <2>2. q.best = n /\ q.diff = D[n]
    BY <1>2, <2>1 DEF Turn
  <2>3. \A w \in 1..n : q.diff <= D[w] /\ (w < q.best => q.diff < D[w])
    BY <1>1, <1>2, <2>2 DEF Nearest
  <2> QED
    BY <1>1, <2>1, <2>2, <2>3 DEF Nearest
<1>3. CASE ~(D[n] < p.diff)
  <2>1. Turn(D, p, n) = p
    BY <1>3 DEF Turn
  <2>2. \A w \in 1..n : p.diff <= D[w] /\ (w < p.best => p.diff < D[w])
    BY <1>1, <1>3 DEF Nearest
  <2> QED
    BY <2>1, <2>2 DEF Nearest
<1> QED
  BY <1>2, <1>3

LEMMA DistanceBound ==
    ASSUME NEW a \in UInt16, NEW b \in UInt16
    PROVE  Distance(a, b) \in Nat /\ Distance(a, b) <= 65535
<1>1. a \in Nat /\ b \in Nat
  BY UInt16Nat
<1>2. a <= 65535 /\ b <= 65535
  BY UInt16Bound
<1> QED
  BY <1>1, <1>2 DEF Distance

\* The value before the first turn, and the one after turn n of the loop.
Start == [best |-> 1, diff |-> 65535]

LoopBody(tb, l, g, n) ==
    IF n = 0 THEN [best |-> 1, diff |-> 65535]
    ELSE IF Distance(tb[n], l) < g[n - 1].diff
         THEN [best |-> n, diff |-> Distance(tb[n], l)]
         ELSE g[n - 1]

LEMMA LoopStart == \A tb, l, g : LoopBody(tb, l, g, 0) = Start
BY DEF LoopBody, Start

LEMMA LoopTurn ==
    ASSUME NEW tb, NEW l, NEW g, NEW D, NEW n \in 1..5, NEW m, m = n - 1,
           D[n] = Distance(tb[n], l)
    PROVE  LoopBody(tb, l, g, n) = Turn(D, g[m], n)
<1>1. n # 0
  OBVIOUS
<1> QED
  BY <1>1 DEF LoopBody, Turn

\* The loop has a value after every turn, determined by the one before it.
LEMMA LoopValue ==
    ASSUME NEW tb, Len(tb) = 5, NEW l, NEW D,
           \A w \in 1..5 : D[w] = Distance(tb[w], l),
           NEW e0, NEW e1, NEW e2, NEW e3, NEW e4, NEW e5,
           e0 = Start,
           e1 = Turn(D, e0, 1), e2 = Turn(D, e1, 2), e3 = Turn(D, e2, 3),
           e4 = Turn(D, e3, 4), e5 = Turn(D, e4, 5)
    PROVE  NearestFrom(tb, l) = e5
<1> DEFINE Body(g) == [n \in 0..Len(tb) |-> LoopBody(tb, l, g, n)]
           f0 == CHOOSE g : g = Body(g)
<1>1. NearestFrom(tb, l) = f0[Len(tb)]
  BY DEF NearestFrom, LoopBody
<1>2. PICK h : h = [n \in 0..5 |-> CASE n = 0 -> e0 [] n = 1 -> e1 [] n = 2 -> e2
                                     [] n = 3 -> e3 [] n = 4 -> e4 [] OTHER -> e5]
  OBVIOUS
<1>3. h[0] = e0 /\ h[1] = e1 /\ h[2] = e2 /\ h[3] = e3 /\ h[4] = e4 /\ h[5] = e5
  BY <1>2
<1>4. h[0] = LoopBody(tb, l, h, 0)
  BY <1>3, LoopStart
<1>5. h[1] = LoopBody(tb, l, h, 1)
  BY <1>3, LoopTurn
<1>6. h[2] = LoopBody(tb, l, h, 2)
  BY <1>3, LoopTurn
<1>7. h[3] = LoopBody(tb, l, h, 3)
  BY <1>3, LoopTurn
<1>8. h[4] = LoopBody(tb, l, h, 4)
  BY <1>3, LoopTurn
<1>9. h[5] = LoopBody(tb, l, h, 5)
  BY <1>3, LoopTurn
<1>10. h = Body(h)
  <2>1. h = [n \in 0..5 |-> h[n]]
    BY <1>2
  <2>2. \A n \in 0..5 : h[n] = LoopBody(tb, l, h, n)
    BY <1>4, <1>5, <1>6, <1>7, <1>8, <1>9
  <2> QED
    BY <2>1, <2>2
<1>11. f0 = Body(f0)
  <2> HIDE DEF Body
  <2> QED
    BY <1>10
<1>12. PICK f : f = f0
  OBVIOUS
<1>13. \A n \in 0..5 : f[n] = LoopBody(tb, l, f, n)
  <2> HIDE DEF f0
  <2> QED
    BY <1>11, <1>12
<1>14. f[0] = e0
  BY <1>13, LoopStart
<1>15. f[1] = e1
  BY <1>13, <1>14, LoopTurn
<1>16. f[2] = e2
  BY <1>13, <1>15, LoopTurn
<1>17. f[3] = e3
  BY <1>13, <1>16, LoopTurn
<1>18. f[4] = e4
  BY <1>13, <1>17, LoopTurn
<1>19. f[5] = e5
  BY <1>13, <1>18, LoopTurn
<1> HIDE DEF f0
<1> QED
  BY <1>1, <1>12, <1>19

\* The entry found is the nearest, and the first of those as near.
LEMMA NearestEntry ==
    ASSUME NEW tb \in [1..5 -> UInt16], NEW l \in UInt16, NEW b,
           b = NearestWeightIndex(tb, l)
    PROVE  /\ b \in 1..5
           /\ \A w \in 1..5 : /\ Distance(tb[b], l) <= Distance(tb[w], l)
                              /\ w < b => Distance(tb[b], l) < Distance(tb[w], l)
<1>1. PICK D : D = [w \in 1..5 |-> Distance(tb[w], l)]
  OBVIOUS
<1>2. PICK largest : largest = 65535
  OBVIOUS
<1>3. D \in [1..5 -> Nat] /\ \A w \in 1..5 : D[w] <= largest
  BY <1>1, <1>2, DistanceBound
<1>4. largest \in Nat /\ Start.best = 1 /\ Start.diff = largest
  BY <1>2 DEF Start
<1>5. PICK e1 : e1 = Turn(D, Start, 1)
  OBVIOUS
<1>6. PICK e2 : e2 = Turn(D, e1, 2)
  OBVIOUS
<1>7. PICK e3 : e3 = Turn(D, e2, 3)
  OBVIOUS
<1>8. PICK e4 : e4 = Turn(D, e3, 4)
  OBVIOUS
<1>9. PICK e5 : e5 = Turn(D, e4, 5)
  OBVIOUS
<1>10. Nearest(D, largest, Start, 0)
  BY <1>4 DEF Nearest
<1>11. Nearest(D, largest, e1, 1)
  BY <1>3, <1>4, <1>5, <1>10, TurnKeeps
<1>12. Nearest(D, largest, e2, 2)
  BY <1>3, <1>4, <1>6, <1>11, TurnKeeps
<1>13. Nearest(D, largest, e3, 3)
  BY <1>3, <1>4, <1>7, <1>12, TurnKeeps
<1>14. Nearest(D, largest, e4, 4)
  BY <1>3, <1>4, <1>8, <1>13, TurnKeeps
<1>15. Nearest(D, largest, e5, 5)
  BY <1>3, <1>4, <1>9, <1>14, TurnKeeps
<1>16. b = e5.best
  <2>1. Len(tb) = 5
    BY SeqDef, LenProperties
  <2>2. \A w \in 1..5 : D[w] = Distance(tb[w], l)
    BY <1>1
  <2>3. NearestFrom(tb, l) = e5
    BY <2>1, <2>2, <1>5, <1>6, <1>7, <1>8, <1>9, LoopValue
  <2> QED
    BY <2>3 DEF NearestWeightIndex
<1>17. b \in 1..5 /\ \A w \in 1..5 : D[b] <= D[w] /\ (w < b => D[b] < D[w])
  BY <1>3, <1>15, <1>16 DEF Nearest
<1> QED
  BY <1>1, <1>17

------------------------------------------------------------------------------
(* The inductive invariant. *)

TypeInv ==
    /\ plain \in Chars(PlaintextSize)
    /\ IsTagData(data)
    /\ table \in Tables /\ index \in 1..5
    /\ foreign \in 0..MaxForeign

\* On the screen of a result the staged fields are those of the payload.
ResultInv == screen = "result" => Decodes(plain) /\ data = Decode(plain)

\* What the application has written it would write again.
OwnInv == own => Encode(Decode(plain)) = plain

\* Behind the screen of the material the fields are those of the entry picked.
PickedInv ==
    picked # 0 /\ screen \in {"color", "weight", "serial", "confirm"} =>
        /\ picked \in DOMAIN Catalog
        /\ data.filament_id = FilamentId(Catalog[picked])
        /\ BrandOf(picked) = VendorToBrand(data.vendor)

IInv == TypeInv /\ ResultInv /\ OwnInv /\ PickedInv

\* What a screen changes keeps the fields of their types.
LEMMA VendorType == \A brand : BrandToVendor(brand) \in Chars(VendorLen)
<1>1. VendorCreality \in Chars(VendorLen) /\ VendorGeneric \in Chars(VendorLen)
  BY DEF VendorCreality, VendorGeneric, Chars, VendorLen, Byte
<1> QED
  BY <1>1 DEF BrandToVendor

LEMMA WithVendor ==
    ASSUME NEW d, IsTagData(d), NEW v \in Chars(VendorLen)
    PROVE  /\ IsTagData([d EXCEPT !.vendor = v])
           /\ [d EXCEPT !.vendor = v].vendor = v
           /\ [d EXCEPT !.vendor = v].filament_id = d.filament_id
BY DEF IsTagData, FieldsOf

LEMMA WithLength ==
    ASSUME NEW d, IsTagData(d), NEW l \in UInt16, NEW e, e = [d EXCEPT !.length_m = l]
    PROVE  IsTagData(e) /\ e.filament_id = d.filament_id /\ e.vendor = d.vendor
BY DEF IsTagData, FieldsOf

LEMMA WithSerial ==
    ASSUME NEW d, IsTagData(d), NEW s \in [1..SerialLen -> 48..57], NEW e,
           e = [d EXCEPT !.serial = s]
    PROVE  IsTagData(e) /\ e.filament_id = d.filament_id /\ e.vendor = d.vendor
BY DEF IsTagData, FieldsOf

LEMMA DefaultsType == IsTagData(Defaults)
<1>1. Defaults = FieldsOf(Defaults)
  BY DEF Defaults, FieldsOf
<1>2. /\ <<65, 66, 49, 50, 52>> \in Chars(DateLen)
      /\ <<65, 50>> \in Chars(BatchLen)
      /\ VendorCreality \in Chars(VendorLen)
  BY DEF Chars, DateLen, BatchLen, VendorLen, VendorCreality, Byte
<1>3. 1001 \in Nat /\ 1 \in Nat /\ 255 \in Byte
  BY DEF Byte
<1>4. FilamentId(1001) \in Chars(FilamentLen)
  <2>1. FilamentLen \in Nat
    BY DEF FilamentLen
  <2> QED
    BY <1>3, <2>1, FilamentIdType, DigitsFacts
<1>5. FilamentType(FilamentId(1001)) = 1
  <2>1. FilamentId(1001) = <<49, 48, 49, 48, 48, 49>>
    BY DEF FilamentId, Digit, Zero
  <2>2. DOMAIN FilamentTable = 1..7
    BY DEF FilamentTable
  <2>3. \A i \in 1..7 : FilamentTable[i] = <<49, 48, 49, 48, 48, 49>> <=> i = 1
    BY DEF FilamentTable
  <2> QED
    BY <2>1, <2>2, <2>3 DEF FilamentType
<1>6. 330 \in UInt16
  BY FourDigitsUInt16 DEF FourDigits
<1>7. SerialText(1) \in [1..SerialLen -> 48..57]
  BY <1>3, SerialTextType
<1>8. /\ Defaults.date_raw = <<65, 66, 49, 50, 52>>
      /\ Defaults.vendor = VendorCreality
      /\ Defaults.batch = <<65, 50>>
      /\ Defaults.filament_id = FilamentId(1001)
      /\ Defaults.filament_type = 1
      /\ Defaults.color_r = 255 /\ Defaults.color_g = 255 /\ Defaults.color_b = 255
      /\ Defaults.length_m = 330
      /\ Defaults.serial = SerialText(1)
  BY DEF Defaults
<1> QED
  BY <1>1, <1>2, <1>3, <1>4, <1>5, <1>6, <1>7, <1>8 DEF IsTagData

LEMMA EntryFacts ==
    ASSUME NEW i \in DOMAIN Catalog
    PROVE  FilamentId(Catalog[i]) \in Chars(FilamentLen)
<1>1. Catalog[i] \in Nat
  BY CatalogDomain, CatalogIds
<1>2. FilamentLen \in Nat
  BY DEF FilamentLen
<1> QED
  BY <1>1, <1>2, FilamentIdType, DigitsFacts

LEMMA FirstTag ==
    ASSUME NEW e, IsTagData(e), NEW r \in Byte, NEW g \in Byte, NEW d,
           d = [e EXCEPT !.color_r = r, !.color_g = g]
    PROVE  IsTagData(d)
BY DEF IsTagData, FieldsOf

LEMMA Initially == Init => IInv
<1> SUFFICES ASSUME Init PROVE IInv
  OBVIOUS
<1>1. /\ plain = Encode([Defaults EXCEPT !.color_r = 171, !.color_g = 205])
      /\ foreign = 0 /\ own = FALSE /\ data = Defaults /\ picked = 0 /\ index = 1
      /\ table \in Tables /\ screen = "start"
  BY Zenon DEF Init
<1>2. PICK d : d = [Defaults EXCEPT !.color_r = 171, !.color_g = 205]
  BY Zenon
<1>3. IsTagData(d)
  <2>1. 171 \in Byte /\ 205 \in Byte
    BY DEF Byte
  <2>2. PICK e : e = Defaults
    OBVIOUS
  <2>3. d = [e EXCEPT !.color_r = 171, !.color_g = 205]
    BY Zenon, <1>2, <2>2
  <2> QED
    BY <2>1, <2>2, <2>3, DefaultsType, FirstTag
<1>4. plain = Encode(d)
  BY Zenon, <1>1, <1>2
<1>5. /\ foreign = 0 /\ own = FALSE /\ data = Defaults /\ picked = 0 /\ index = 1
      /\ table \in Tables /\ screen = "start"
  BY Zenon, <1>1
<1>6. 0 \in 0..MaxForeign
  BY PickAssumption
<1>7. TypeInv
  BY <1>3, <1>4, <1>5, <1>6, EncodeFields, DefaultsType DEF TypeInv
<1> QED
  BY <1>5, <1>7 DEF IInv, ResultInv, OwnInv, PickedInv

LEMMA TableFacts ==
    ASSUME TypeInv
    PROVE  /\ table \in [1..5 -> UInt16] /\ DOMAIN table = 1..5
           /\ data.length_m \in UInt16
BY TableAssumption DEF TypeInv, IsTagData

\* No step but the ones of the wizard touches the fields.
LEMMA ReadingKeeps ==
    ASSUME IInv, Differ \/ Read \/ Leave
    PROVE  IInv'
<1>1. CASE Differ
  <2>1. plain' \in Chars(PlaintextSize)
    BY <1>1, PickAssumption DEF Differ, IInv, TypeInv, Chars
  <2>2. foreign' \in 0..MaxForeign
    BY <1>1, PickAssumption DEF Differ, IInv, TypeInv
  <2>3. TypeInv'
    BY <1>1, <2>1, <2>2 DEF Differ, IInv, TypeInv
  <2> QED
    BY <1>1, <2>3 DEF Differ, IInv, ResultInv, OwnInv, PickedInv
<1>2. CASE Read
  <2>1. IsTagData(data')
    BY <1>2, DecodeType DEF Read, IInv, TypeInv
  <2>2. TypeInv'
    BY <1>2, <2>1 DEF Read, IInv, TypeInv
  <2> QED
    BY <1>2, <2>2 DEF Read, IInv, ResultInv, OwnInv, PickedInv
<1>3. CASE Leave
  BY <1>3 DEF Leave, IInv, TypeInv, ResultInv, OwnInv, PickedInv
<1> QED
  BY <1>1, <1>2, <1>3

LEMMA StagingKeeps ==
    ASSUME IInv, StageLoaded \/ StageNew \/ PickBrand
    PROVE  IInv'
<1>1. CASE StageLoaded
  <2>1. index' \in 1..5
    BY <1>1, TableFacts, NearestEntry DEF StageLoaded, IInv
  <2>2. TypeInv'
    BY <1>1, <2>1 DEF StageLoaded, IInv, TypeInv
  <2> QED
    BY <1>1, <2>2 DEF StageLoaded, IInv, ResultInv, OwnInv, PickedInv
<1>2. CASE StageNew
  <2>1. IsTagData(data')
    BY <1>2, DefaultsType, VendorType, WithVendor DEF StageNew
  <2>2. TypeInv'
    BY <1>2, <2>1 DEF StageNew, IInv, TypeInv
  <2> QED
    BY <1>2, <2>2 DEF StageNew, IInv, ResultInv, OwnInv, PickedInv
<1>3. CASE PickBrand
  <2>1. IsTagData(data')
    BY <1>3, VendorType, WithVendor DEF PickBrand, IInv, TypeInv
  <2>2. TypeInv'
    BY <1>3, <2>1 DEF PickBrand, IInv, TypeInv
  <2> QED
    BY <1>3, <2>2 DEF PickBrand, IInv, ResultInv, OwnInv, PickedInv
<1> QED
  BY <1>1, <1>2, <1>3

LEMMA MaterialKeeps ==
    ASSUME IInv, PickMaterial
    PROVE  IInv'
<1>1. PICK i \in Picks(foreign) :
          /\ Listed(i)
          /\ data' = [data EXCEPT !.filament_id = FilamentId(Catalog[i]),
                                  !.filament_type = FilamentType(FilamentId(Catalog[i]))]
          /\ picked' = i
  BY DEF PickMaterial
<1>2. i \in DOMAIN Catalog
  BY PickAssumption DEF IInv, TypeInv
<1>3. IsTagData(data') /\ data'.filament_id = FilamentId(Catalog[i]) /\ data'.vendor = data.vendor
  <2>1. FilamentId(Catalog[i]) \in Chars(FilamentLen)
    BY <1>2, EntryFacts
  <2>2. PICK id, type : id = FilamentId(Catalog[i]) /\ type = FilamentType(id)
    OBVIOUS
  <2>3. data' = [data EXCEPT !.filament_id = id, !.filament_type = type]
    BY <1>1, <2>2
  <2>4. IsTagData(data)
    BY DEF IInv, TypeInv
  <2> QED
    BY <2>1, <2>2, <2>3, <2>4 DEF IsTagData, FieldsOf
<1>4. TypeInv'
  BY <1>3 DEF PickMaterial, IInv, TypeInv
<1>5. PickedInv'
  BY <1>1, <1>2, <1>3 DEF PickedInv, Listed
<1> QED
  BY <1>4, <1>5 DEF PickMaterial, IInv, ResultInv, OwnInv

\* A step of the wizard behind the material leaves the material alone.
LEMMA FieldKeeps ==
    ASSUME IInv, NEW a, NEW b, a \in {"color", "weight", "serial"},
           b \in {"weight", "serial", "confirm"},
           screen = a, screen' = b, IsTagData(data'), index' \in 1..5,
           data'.filament_id = data.filament_id, data'.vendor = data.vendor,
           UNCHANGED <<plain, foreign, own, picked, table, rounds>>
    PROVE  IInv'
<1>1. TypeInv'
  BY DEF IInv, TypeInv
<1>2. PickedInv'
  BY DEF IInv, PickedInv
<1> QED
  BY <1>1, <1>2 DEF IInv, ResultInv, OwnInv

LEMMA ColorTableType == \A i \in 1..32 : ColorTable[i] \in Byte \X Byte \X Byte
BY DEF ColorTable, Byte

LEMMA ScreensKeep ==
    ASSUME IInv, PickColor \/ PickWeight \/ SetSerial
    PROVE  IInv'
<1>1. IsTagData(data) /\ index \in 1..5
  BY DEF IInv, TypeInv
<1>2. CASE PickColor
  <2>1. PICK c \in {ColorTable[i] : i \in Presets(foreign)} \cup Customs :
            data' = [data EXCEPT !.color_r = c[1], !.color_g = c[2], !.color_b = c[3]]
    BY <1>2 DEF PickColor
  <2>2. c \in Byte \X Byte \X Byte
    <3>1. Presets(foreign) \subseteq 1..32
      BY PickAssumption DEF IInv, TypeInv, PaletteSize
    <3>2. Customs \subseteq Byte \X Byte \X Byte
      BY PickAssumption
    <3> QED
      BY <2>1, <3>1, <3>2, ColorTableType
  <2>3. PICK r, g, b : r = c[1] /\ g = c[2] /\ b = c[3]
    OBVIOUS
  <2>4. r \in Byte /\ g \in Byte /\ b \in Byte
    BY <2>2, <2>3
  <2>5. data' = [data EXCEPT !.color_r = r, !.color_g = g, !.color_b = b]
    BY Zenon, <2>1, <2>3
  <2>6. IsTagData(data') /\ data'.filament_id = data.filament_id /\ data'.vendor = data.vendor
    BY <1>1, <2>4, <2>5 DEF IsTagData, FieldsOf
  <2> QED
    BY <1>1, <1>2, <2>6, FieldKeeps DEF PickColor
<1>3. CASE PickWeight
  <2>1. PICK w \in DOMAIN table : index' = w /\ data' = [data EXCEPT !.length_m = table[w]]
    BY <1>3 DEF PickWeight
  <2>2. index' \in 1..5 /\ table[w] \in UInt16
    BY <2>1, TableFacts DEF IInv
  <2>3. IsTagData(data') /\ data'.filament_id = data.filament_id /\ data'.vendor = data.vendor
    BY <1>1, <2>1, <2>2, WithLength
  <2> QED
    BY <1>3, <2>2, <2>3, FieldKeeps DEF PickWeight
<1>4. CASE SetSerial
  <2>1. CASE UNCHANGED data
    BY <1>1, <1>4, <2>1, FieldKeeps DEF SetSerial
  <2>2. ASSUME NEW n \in Serials(foreign), data' = [data EXCEPT !.serial = SerialText(n)]
        PROVE  IInv'
    <3>1. n \in Nat
      BY PickAssumption, SerialNat DEF IInv, TypeInv
    <3>2. SerialText(n) \in [1..SerialLen -> 48..57]
      BY <3>1, SerialTextType
    <3>3. IsTagData(data') /\ data'.filament_id = data.filament_id
          /\ data'.vendor = data.vendor
      BY <1>1, <2>2, <3>2, WithSerial
    <3> QED
      BY <1>1, <1>4, <3>3, FieldKeeps DEF SetSerial
  <2> QED
    BY <1>4, <2>1, <2>2 DEF SetSerial
<1> QED
  BY <1>2, <1>3, <1>4

LEMMA WriteKeeps ==
    ASSUME IInv, Write
    PROVE  IInv'
<1>1. IsTagData(data)
  BY DEF IInv, TypeInv
<1>2. plain' \in Chars(PlaintextSize)
  BY <1>1, EncodeFields DEF Write
<1>3. TypeInv'
  BY <1>2 DEF Write, IInv, TypeInv
<1>4. OwnInv'
  <2>1. Encode(Decode(Encode(data))) = Encode(data)
    BY <1>1, SecondWrite
  <2>2. plain' = Encode(data)
    BY DEF Write
  <2> QED
    BY Zenon, <2>1, <2>2 DEF OwnInv
<1> QED
  BY <1>3, <1>4 DEF Write, IInv, ResultInv, PickedInv

LEMMA BackKeeps ==
    ASSUME IInv, Back
    PROVE  IInv'
<1>1. TypeInv'
  BY DEF Back, IInv, TypeInv
<1>2. OwnInv'
  BY DEF Back, IInv, OwnInv
<1>3. ResultInv' /\ PickedInv'
  <2>1. /\ screen' # "result"
        /\ screen' \in {"color", "weight", "serial", "confirm"}
             => screen \in {"color", "weight", "serial", "confirm"}
    BY DEF Back
  <2> QED
    BY <2>1 DEF Back, IInv, ResultInv, PickedInv
<1> QED
  BY <1>1, <1>2, <1>3 DEF IInv

LEMMA Inductive == IInv /\ [Next]_vars => IInv'
<1> SUFFICES ASSUME IInv, [Next]_vars PROVE IInv'
  OBVIOUS
<1>1. CASE Differ \/ Read \/ Leave
  BY <1>1, ReadingKeeps
<1>2. CASE StageLoaded \/ StageNew \/ PickBrand
  BY <1>2, StagingKeeps
<1>3. CASE PickMaterial
  BY <1>3, MaterialKeeps
<1>4. CASE PickColor \/ PickWeight \/ SetSerial
  BY <1>4, ScreensKeep
<1>5. CASE Write
  BY <1>5, WriteKeeps
<1>6. CASE Back
  BY <1>6, BackKeeps
<1>7. CASE UNCHANGED vars
  BY <1>7 DEF vars, IInv, TypeInv, ResultInv, OwnInv, PickedInv
<1> QED
  BY <1>1, <1>2, <1>3, <1>4, <1>5, <1>6, <1>7 DEF Next

LEMMA Invariant == Spec => []IInv
<1> QED
  BY Initially, Inductive, PTL DEF Spec

------------------------------------------------------------------------------
(* The theorems. *)

\* Whatever another writer left in a payload that decodes, every field the
\* wizard holds has the type its C declaration gives it, and the preselected
\* weight is an entry of the table (cfs_data_decode, cfs_nearest_weight_index).
THEOREM TypeCorrect == Spec => []TypeOK
<1>1. IInv => TypeOK
  <2> SUFFICES ASSUME IInv PROVE TypeOK
    OBVIOUS
  <2>1. IsTagData(data) /\ plain \in Chars(PlaintextSize) /\ index \in 1..5 /\ TypeInv
    BY DEF IInv, TypeInv
  <2> QED
    BY <2>1, TableFacts DEF TypeOK, IsTagData
<1> QED
  BY <1>1, Invariant, PTL

\* What the confirm screen shows is what a reader of the tag will see, for every
\* fields the user can stage (cfs_data_encode against cfs_data_decode).
THEOREM WhatIsWrittenIsRead == Spec => []WrittenIsRead
<1>1. IInv => WrittenIsRead
  <2> SUFFICES ASSUME IInv, screen = "confirm"
               PROVE  LET p == Encode(data) IN
                      /\ Decodes(p)
                      /\ Decode(p).length_m
                           = IF data.length_m > 9999 THEN 9999 ELSE data.length_m
                      /\ NoNul(data) => [Decode(p) EXCEPT !.length_m = data.length_m] = data
                      /\ Decode(p).serial = data.serial
                      /\ Decode(p).filament_id = data.filament_id
    BY DEF WrittenIsRead
  <2> DEFINE p == Encode(data)
  <2>1. IsTagData(data)
    BY DEF IInv, TypeInv
  <2>2. PICK e : e = Decode(p)
    OBVIOUS
  <2>3. ASSUME NoNul(data) PROVE [e EXCEPT !.length_m = data.length_m] = data
    <3>1. /\ data.date_raw \in Chars(DateLen) /\ data.vendor \in Chars(VendorLen)
          /\ data.batch \in Chars(BatchLen) /\ data = FieldsOf(data)
      BY <2>1 DEF IsTagData
    <3>2. DateLen \in Nat /\ VendorLen \in Nat /\ BatchLen \in Nat
      BY DEF DateLen, VendorLen, BatchLen
    <3>3. /\ PadRight(data.date_raw, DateLen) = data.date_raw
          /\ PadRight(data.vendor, VendorLen) = data.vendor
          /\ PadRight(data.batch, BatchLen) = data.batch
      <4>1. /\ StrLen(data.date_raw) = DateLen /\ StrLen(data.vendor) = VendorLen
            /\ StrLen(data.batch) = BatchLen
        BY <2>3, <3>1, <3>2, CharsSeq DEF NoNul
      <4> QED
        BY <3>1, <3>2, <4>1, PadFull
    <3>4. /\ e.date_raw = data.date_raw /\ e.vendor = data.vendor /\ e.batch = data.batch
          /\ e.filament_id = data.filament_id /\ e.filament_type = data.filament_type
          /\ e.color_r = data.color_r /\ e.color_g = data.color_g
          /\ e.color_b = data.color_b /\ e.serial = data.serial
      BY <2>1, <2>2, <3>3, RoundTrip
    <3>5. e = FieldsOf(e)
      BY <2>2 DEF Decode, FieldsOf
    <3> QED
      BY <3>1, <3>4, <3>5 DEF FieldsOf
  <2> QED
    BY <2>1, <2>2, <2>3, RoundTrip
<1> QED
  BY <1>1, Invariant, PTL

\* A payload of the application's own is encoded again byte for byte: an edit
\* that changes nothing writes the tag it read (cfs_data_encode).
THEOREM OwnPayloadIsStable == Spec => []OwnPayloadsLast
<1>1. IInv => OwnPayloadsLast
  BY Zenon DEF IInv, ResultInv, OwnInv, OwnPayloadsLast
<1> QED
  BY <1>1, Invariant, PTL

\* The entry and the brand every later screen finds in the fields are the ones
\* picked: no two entries share the digits the lookup compares
\* (cfs_filament_lookup, cfs_resolve_brand_name).
THEOREM PickedIsShown == Spec => []ShownIsPicked
<1>1. IInv => ShownIsPicked
  <2> SUFFICES ASSUME IInv, picked # 0, screen \in {"color", "weight", "serial", "confirm"}
               PROVE  /\ Lookup(data.filament_id) = picked
                      /\ ResolveBrand(data) = VendorToBrand(data.vendor)
    BY DEF ShownIsPicked
  <2>1. /\ picked \in DOMAIN Catalog
        /\ data.filament_id = FilamentId(Catalog[picked])
        /\ BrandOf(picked) = VendorToBrand(data.vendor)
    BY DEF IInv, PickedInv
  <2>2. Lookup(data.filament_id) = picked
    BY <2>1, LookupEntry
  <2> QED
    BY <2>1, <2>2 DEF ResolveBrand
<1> QED
  BY <1>1, Invariant, PTL

\* The weight preselected for an edited spool is the nearest of the table, the
\* first of those as near, whatever the table (cfs_nearest_weight_index).
THEOREM PreselectedIsNearest == Spec => NearestIsNearest
<1>1. IInv /\ [Next]_vars =>
          [screen = "result" /\ screen' = "brand" =>
              LET d(w) == Distance(table[w], data.length_m)
              IN  \A w \in DOMAIN table :
                      d(index') <= d(w) /\ (w < index' => d(index') < d(w))]_vars
  <2> SUFFICES ASSUME IInv, Next, screen = "result", screen' = "brand", NEW w \in DOMAIN table
               PROVE  LET d(x) == Distance(table[x], data.length_m)
                      IN  d(index') <= d(w) /\ (w < index' => d(index') < d(w))
    OBVIOUS
  <2>1. index' = NearestWeightIndex(table, data.length_m)
    BY DEF Next, Differ, Read, Leave, StageLoaded, StageNew, PickBrand, PickMaterial,
           PickColor, PickWeight, SetSerial, Write, Back
  <2>2. table \in [1..5 -> UInt16] /\ DOMAIN table = 1..5 /\ data.length_m \in UInt16
    BY TableFacts DEF IInv
  <2> QED
    BY <2>1, <2>2, NearestEntry
<1> QED
  BY <1>1, Invariant, PTL DEF Spec, NearestIsNearest
==============================================================================
