------------------------------ MODULE CfsTagData ------------------------------
(***************************************************************************)
(* The codec of the 48-byte payload and the tables of src/data, as         *)
(* operators on bytes.  A C array of characters is a sequence of bytes of  *)
(* its full length, and 0 is the NUL.                                      *)
(***************************************************************************)
EXTENDS Naturals, Sequences

Byte == 0..255

\* Lengths in metres.
UInt16 == 0..65535

\* Serial numbers of at most six digits.
SerialNumbers == 0..(10^6 - 1)

Zero == 48      \* the character '0'

\* Byte offsets of the fields in the payload, and their lengths.
OffDate     == 0
OffVendor   == 5
OffBatch    == 9
OffFilament == 11
OffColor    == 17
OffLength   == 24
OffSerial   == 28
OffReserved == 34

DateLen     == 5
VendorLen   == 4
BatchLen    == 2
FilamentLen == 6
ColorLen    == 7
LengthLen   == 4
SerialLen   == 6
ReservedLen == 14

PlaintextSize == 48

\* n bytes of p from an offset on.
Field(p, off, n) == [i \in 1..n |-> p[off + i]]

------------------------------------------------------------------------------
(* Characters. *)

IsDigit(c) == c \in 48..57

IsHexDigit(c) == IsDigit(c) \/ c \in 65..70 \/ c \in 97..102

HexVal(c) ==
    IF IsDigit(c) THEN c - 48 ELSE IF c \in 65..70 THEN c - 55 ELSE c - 87

\* The last decimal digit of n.
Digit(n) == Zero + (n % 10)

\* "%X"
HexChar(d) == IF d < 10 THEN 48 + d ELSE 55 + d

\* The length of a C string in an array.
StrLen(s) ==
    LET Ends == {i \in DOMAIN s : s[i] = 0}
    IN  IF Ends = {} THEN Len(s) ELSE (CHOOSE i \in Ends : \A j \in Ends : i <= j) - 1

\* The string at the left of n characters, '0' behind it.
PadRight(s, n) == [i \in 1..n |-> IF i <= StrLen(s) THEN s[i] ELSE Zero]

\* The string at the right of n characters, '0' before it.
PadLeft(s, n) ==
    LET gap == n - StrLen(s)
    IN  [i \in 1..n |-> IF i <= gap THEN Zero ELSE s[i - gap]]

\* "0RRGGBB"
ColorText(r, g, b) ==
    <<Zero, HexChar(r \div 16), HexChar(r % 16),
            HexChar(g \div 16), HexChar(g % 16),
            HexChar(b \div 16), HexChar(b % 16)>>

\* Mutant: the digits are swapped.
ColorByteMutant(high, low) == HexVal(low) * 16 + HexVal(high)

ColorByte(high, low) == HexVal(high) * 16 + HexVal(low)

\* Mutant: a length that needs five digits is cut to its first four.
LengthTextMutant(n) ==
    LET m == IF n > 9999 THEN n \div 10 ELSE n
    IN  <<Digit(m \div 1000), Digit(m \div 100), Digit(m \div 10), Digit(m)>>

\* "%04u" of a length, at most 9999.
LengthText(n) ==
    LET m == IF n > 9999 THEN 9999 ELSE n
    IN  <<Digit(m \div 1000), Digit(m \div 100), Digit(m \div 10), Digit(m)>>

LengthValue(t) ==
    (t[1] - 48) * 1000 + (t[2] - 48) * 100 + (t[3] - 48) * 10 + (t[4] - 48)

\* "%06lu" of a serial number below a million.
SerialText(n) ==
    <<Digit(n \div 100000), Digit(n \div 10000), Digit(n \div 1000),
      Digit(n \div 100), Digit(n \div 10), Digit(n)>>

------------------------------------------------------------------------------
(* The fields. *)

\* filament_id "1" and the five digits of a catalog id.
FilamentId(base) ==
    <<49, Digit(base \div 10000), Digit(base \div 1000),
          Digit(base \div 100), Digit(base \div 10), Digit(base)>>

VendorCreality == <<48, 50, 55, 54>>
VendorGeneric  == <<48, 48, 48, 48>>

\* The legacy table of filament types, in its order.
FilamentTable ==
    <<<<49, 48, 49, 48, 48, 49>>, <<49, 48, 49, 48, 48, 50>>, <<49, 48, 49, 48, 48, 51>>,
      <<49, 48, 49, 48, 48, 52>>, <<49, 48, 49, 48, 48, 53>>, <<69, 48, 48, 48, 48, 51>>,
      <<49, 48, 48, 48, 48, 51>>>>

\* CfsFilamentUnknown is 0.
FilamentType(id) ==
    IF \E i \in DOMAIN FilamentTable : FilamentTable[i] = id
    THEN CHOOSE i \in DOMAIN FilamentTable : FilamentTable[i] = id
    ELSE 0

\* cfs_data_set_defaults: "AB124", "0276", "A2", "101001", white, 330 m, "000001".
Defaults ==
    [date_raw      |-> <<65, 66, 49, 50, 52>>,
     vendor        |-> VendorCreality,
     batch         |-> <<65, 50>>,
     filament_id   |-> FilamentId(1001),
     filament_type |-> 1,
     color_r       |-> 255,
     color_g       |-> 255,
     color_b       |-> 255,
     length_m      |-> 330,
     serial        |-> SerialText(1)]

\* Mutant: the charset of the serial number is not checked.
DecodesMutant(p) ==
    /\ \A i \in 1..ColorLen  : IsHexDigit(p[OffColor + i])
    /\ \A i \in 1..LengthLen : IsDigit(p[OffLength + i])

\* cfs_data_decode returns TRUE.
Decodes(p) ==
    /\ \A i \in 1..ColorLen  : IsHexDigit(p[OffColor + i])
    /\ \A i \in 1..LengthLen : IsDigit(p[OffLength + i])
    /\ \A i \in 1..SerialLen : IsDigit(p[OffSerial + i])

\* The fields cfs_data_decode fills in.
Decode(p) ==
    LET c == Field(p, OffColor, ColorLen) IN
    [date_raw      |-> Field(p, OffDate, DateLen),
     vendor        |-> Field(p, OffVendor, VendorLen),
     batch         |-> Field(p, OffBatch, BatchLen),
     filament_id   |-> Field(p, OffFilament, FilamentLen),
     filament_type |-> FilamentType(Field(p, OffFilament, FilamentLen)),
     color_r       |-> ColorByte(c[2], c[3]),
     color_g       |-> ColorByte(c[4], c[5]),
     color_b       |-> ColorByte(c[6], c[7]),
     length_m      |-> LengthValue(Field(p, OffLength, LengthLen)),
     serial        |-> Field(p, OffSerial, SerialLen)]

\* cfs_data_encode
Encode(d) ==
    PadRight(d.date_raw, DateLen) \o PadRight(d.vendor, VendorLen)
        \o PadRight(d.batch, BatchLen) \o d.filament_id
        \o ColorText(d.color_r, d.color_g, d.color_b)
        \o LengthText(d.length_m)
        \o PadLeft(d.serial, SerialLen)
        \o [i \in 1..ReservedLen |-> Zero]

IsBlank(p) == \A i \in 1..PlaintextSize : p[i] = 0

------------------------------------------------------------------------------
(* The catalog. *)

BrandGeneric  == 0
BrandCreality == 1
BrandESUN     == 2

WritableBrands == {BrandGeneric, BrandCreality}

\* base_id of the entries, in the order of the table.
Catalog ==
    <<1, 2, 3, 4, 5, 6, 7, 8, 9, 10, 11, 12, 13, 14, 15, 16, 17, 18, 19, 20, 21, 22,
      23, 24, 25, 26, 27, 31, 32, 33, 34, 35, 1001, 1601, 2001, 3001, 4001, 5001,
      6001, 6002, 7001, 7002, 8001, 9001, 9002, 10001, 11001, 12002, 12003, 13001,
      14001, 15001, 16001, 17001, 18001, 19001>>

\* The brand of an entry.
BrandOf(index) ==
    CASE Catalog[index] < 35 -> BrandGeneric
      [] Catalog[index] = 35 -> BrandESUN
      [] OTHER               -> BrandCreality

\* Mutant: the first five characters are compared.
LookupMutant(id) ==
    LET Hits == {i \in DOMAIN Catalog :
                    \A k \in 1..5 : FilamentId(Catalog[i])[k + 1] = id[k]}
    IN  IF StrLen(id) < 5 \/ Hits = {} THEN 0
        ELSE CHOOSE i \in Hits : \A j \in Hits : i <= j

\* cfs_filament_lookup: the first entry with the last five characters of the
\* id, 0 when there is none.
Lookup(id) ==
    LET tail == [k \in 1..5 |-> id[StrLen(id) - 5 + k]]
        Hits == {i \in DOMAIN Catalog :
                    \A k \in 1..5 : FilamentId(Catalog[i])[k + 1] = tail[k]}
    IN  IF StrLen(id) < 5 \/ Hits = {} THEN 0
        ELSE CHOOSE i \in Hits : \A j \in Hits : i <= j

BrandToVendor(brand) == IF brand = BrandCreality THEN VendorCreality ELSE VendorGeneric

VendorToBrand(vendor) == IF vendor = VendorCreality THEN BrandCreality ELSE BrandGeneric

\* The brand a screen shows (cfs_resolve_brand_name).
ResolveBrand(d) ==
    LET i == Lookup(d.filament_id)
    IN  IF i # 0 THEN BrandOf(i) ELSE VendorToBrand(d.vendor)

\* The palettes: 8, 16 and 32 named colours.
PaletteSize(palette) == IF palette = 1 THEN 16 ELSE IF palette = 2 THEN 32 ELSE 8

\* The named colours, in the order of the table.
ColorTable ==
    <<<<0, 0, 0>>, <<255, 255, 255>>, <<128, 128, 128>>, <<255, 0, 0>>,
      <<0, 128, 0>>, <<0, 0, 255>>, <<255, 255, 0>>, <<255, 165, 0>>,
      <<192, 192, 192>>, <<64, 64, 64>>, <<139, 69, 19>>, <<128, 0, 128>>,
      <<255, 192, 203>>, <<0, 255, 255>>, <<255, 215, 0>>, <<248, 248, 255>>,
      <<0, 0, 128>>, <<0, 128, 128>>, <<135, 206, 235>>, <<34, 139, 34>>,
      <<128, 128, 0>>, <<50, 205, 50>>, <<255, 0, 255>>, <<238, 130, 238>>,
      <<245, 245, 220>>, <<210, 180, 140>>, <<184, 115, 51>>, <<240, 230, 140>>,
      <<152, 255, 152>>, <<230, 230, 250>>, <<128, 0, 0>>, <<64, 224, 208>>>>

------------------------------------------------------------------------------
(* Weights. *)

Distance(a, b) == IF a > b THEN a - b ELSE b - a

\* Mutant: a weight that is as near replaces the one found before.
NearestFromMutant(table, length) ==
    LET f[n \in 0..Len(table)] ==
            IF n = 0 THEN [best |-> 1, diff |-> 65535]
            ELSE IF Distance(table[n], length) <= f[n - 1].diff
                 THEN [best |-> n, diff |-> Distance(table[n], length)]
                 ELSE f[n - 1]
    IN  f[Len(table)]

\* The loop of cfs_nearest_weight_index, after all entries of the table.
NearestFrom(table, length) ==
    LET f[n \in 0..Len(table)] ==
            IF n = 0 THEN [best |-> 1, diff |-> 65535]
            ELSE IF Distance(table[n], length) < f[n - 1].diff
                 THEN [best |-> n, diff |-> Distance(table[n], length)]
                 ELSE f[n - 1]
    IN  f[Len(table)]

NearestWeightIndex(table, length) == NearestFrom(table, length).best
==============================================================================
