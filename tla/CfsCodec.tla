------------------------------- MODULE CfsCodec -------------------------------
(***************************************************************************)
(* One payload on its way through the application: a tag of some writer is *)
(* read, its fields are staged (or the defaults are), the wizard replaces  *)
(* them screen by screen, and the fields are encoded and written.  The     *)
(* operators are those of CfsTagData; the radio, the files and the flags   *)
(* of the CfsApp struct are in other modules.                              *)
(***************************************************************************)
EXTENDS CfsTagData

CONSTANTS
    ForeignBytes,   \* bytes another writer may leave where the app writes its own
    MaxForeign,     \* bound: number of such bytes
    Tables,         \* weight tables of the settings
    Picks(_),       \* catalog entries the user picks from, ...
    Presets(_),     \* named colours he picks from, ...
    Serials(_),     \* and serial numbers he enters or the counter gives, when
                    \* so many bytes are another writer's
    Customs,        \* colours he enters
    MaxRounds       \* bound: number of payloads written

ASSUME PickAssumption ==
    /\ \A n \in 0..MaxForeign :
           /\ Picks(n) \subseteq DOMAIN Catalog
           /\ Presets(n) \subseteq 1..PaletteSize(2)
           /\ Serials(n) \subseteq SerialNumbers
    /\ Customs \subseteq Byte \X Byte \X Byte
    /\ ForeignBytes \subseteq Byte
    /\ MaxForeign \in Nat /\ MaxRounds \in Nat

\* uint16_t weight_len[CFS_WEIGHT_COUNT]
ASSUME TableAssumption == Tables \subseteq [1..5 -> UInt16]

VARIABLES
    plain,      \* the payload on the tag
    foreign,    \* the number of bytes another writer changed in it
    own,        \* was the payload encoded by the application?
    data,       \* app->tag_data, then app->pending
    picked,     \* history: the catalog entry of the material screen, 0 before it
    index,      \* app->pending_weight_index, counted from 1
    table,      \* settings.weight_len
    screen,     \* where the user is
    rounds      \* history: payloads written

vars == <<plain, foreign, own, data, picked, index, table, screen, rounds>>

------------------------------------------------------------------------------

\* A tag of the vendor, before another writer's peculiarities.
Init ==
    /\ plain = Encode([Defaults EXCEPT !.color_r = 171, !.color_g = 205])
    /\ foreign = 0
    /\ own = FALSE
    /\ data = Defaults
    /\ picked = 0
    /\ index = 1
    /\ table \in Tables
    /\ screen = "start"
    /\ rounds = 0

\* Another writer leaves a byte of his own.
Differ ==
    /\ screen = "start" /\ ~own /\ foreign < MaxForeign
    /\ \E i \in 1..PlaintextSize, b \in ForeignBytes :
           plain' = [plain EXCEPT ![i] = b]
    /\ foreign' = foreign + 1
    /\ UNCHANGED <<own, data, picked, index, table, screen, rounds>>

\* The worker decodes what it read (cfs_read_capture_result copies the fields).
Read ==
    /\ screen = "start"
    /\ Decodes(plain)
    /\ data' = Decode(plain)
    /\ picked' = 0
    /\ screen' = "result"
    /\ UNCHANGED <<plain, foreign, own, index, table, rounds>>

Leave ==
    /\ screen = "result"
    /\ screen' = "start"
    /\ UNCHANGED <<plain, foreign, own, data, picked, index, table, rounds>>

\* Edit & Write (cfs_app_stage_write_from_loaded).
StageLoaded ==
    /\ screen = "result" /\ rounds < MaxRounds
    /\ index' = NearestWeightIndex(table, data.length_m)
    /\ screen' = "brand"
    /\ UNCHANGED <<plain, foreign, own, data, picked, table, rounds>>

\* Write Tag in the menu, with a default brand of the settings.
StageNew ==
    /\ screen = "start" /\ rounds < MaxRounds
    /\ \E brand \in WritableBrands :
           data' = [Defaults EXCEPT !.vendor = BrandToVendor(brand)]
    /\ picked' = 0
    /\ index' = 1
    /\ screen' = "brand"
    /\ UNCHANGED <<plain, foreign, own, table, rounds>>

PickBrand ==
    /\ screen = "brand"
    /\ \E brand \in WritableBrands : data' = [data EXCEPT !.vendor = BrandToVendor(brand)]
    /\ screen' = "material"
    /\ UNCHANGED <<plain, foreign, own, picked, index, table, rounds>>

\* Mutant: the list shows the whole catalog.
ListedMutant(i) == TRUE

\* The list shows the entries of the vendor's brand.
Listed(i) == BrandOf(i) = VendorToBrand(data.vendor)

PickMaterial ==
    /\ screen = "material"
    /\ \E i \in Picks(foreign) :
           /\ Listed(i)
           /\ data' = [data EXCEPT !.filament_id = FilamentId(Catalog[i]),
                                   !.filament_type = FilamentType(FilamentId(Catalog[i]))]
           /\ picked' = i
    /\ screen' = "color"
    /\ UNCHANGED <<plain, foreign, own, index, table, rounds>>

PickColor ==
    /\ screen = "color"
    /\ \E c \in {ColorTable[i] : i \in Presets(foreign)} \cup Customs :
           data' = [data EXCEPT !.color_r = c[1], !.color_g = c[2], !.color_b = c[3]]
    /\ screen' = "weight"
    /\ UNCHANGED <<plain, foreign, own, picked, index, table, rounds>>

PickWeight ==
    /\ screen = "weight"
    /\ \E w \in DOMAIN table :
           /\ index' = w
           /\ data' = [data EXCEPT !.length_m = table[w]]
    /\ screen' = "serial"
    /\ UNCHANGED <<plain, foreign, own, picked, table, rounds>>

\* The serial number is kept or replaced, by the mode of the settings.
SetSerial ==
    /\ screen = "serial"
    /\ \/ UNCHANGED data
       \/ \E n \in Serials(foreign) : data' = [data EXCEPT !.serial = SerialText(n)]
    /\ screen' = "confirm"
    /\ UNCHANGED <<plain, foreign, own, picked, index, table, rounds>>

\* cfs_nfc_worker_start_write encodes the fields, and the run writes them.
Write ==
    /\ screen = "confirm"
    /\ plain' = Encode(data)
    /\ own' = TRUE
    /\ rounds' = rounds + 1
    /\ screen' = "start"
    /\ UNCHANGED <<foreign, data, picked, index, table>>

Back ==
    /\ screen \in {"brand", "material", "color", "weight", "serial", "confirm"}
    /\ screen' = CASE screen = "brand"    -> "start"
                   [] screen = "material" -> "brand"
                   [] screen = "color"    -> "material"
                   [] screen = "weight"   -> "color"
                   [] OTHER               -> "weight"
    /\ UNCHANGED <<plain, foreign, own, data, picked, index, table, rounds>>

Next ==
    \/ Differ \/ Read \/ Leave \/ StageLoaded \/ StageNew
    \/ PickBrand \/ PickMaterial \/ PickColor \/ PickWeight \/ SetSerial
    \/ Write \/ Back

Spec == Init /\ [][Next]_vars

------------------------------------------------------------------------------
(* Properties. *)

\* An array of n characters.
Chars(n) == [1..n -> Byte]

\* The type invariant.
TypeOK ==
    /\ plain \in Chars(PlaintextSize)
    /\ data.date_raw \in Chars(DateLen) /\ data.vendor \in Chars(VendorLen)
    /\ data.batch \in Chars(BatchLen) /\ data.filament_id \in Chars(FilamentLen)
    /\ data.serial \in [1..SerialLen -> 48..57]
    /\ {data.color_r, data.color_g, data.color_b} \subseteq Byte
    /\ data.length_m \in UInt16
    /\ index \in DOMAIN table

NoNul(d) ==
    \A s \in {d.date_raw, d.vendor, d.batch} : StrLen(s) = Len(s)

\* What the confirm screen shows is what a reader of the written tag sees: the
\* payload decodes, to the same fields.  A length of five digits (the settings
\* file allows it) is written as 9999, and strings with a NUL are padded.
WrittenIsRead ==
    screen = "confirm" =>
        LET p == Encode(data) IN
        /\ Decodes(p)
        /\ Decode(p).length_m = IF data.length_m > 9999 THEN 9999 ELSE data.length_m
        /\ NoNul(data) => [Decode(p) EXCEPT !.length_m = data.length_m] = data
        /\ Decode(p).serial = data.serial /\ Decode(p).filament_id = data.filament_id

\* What the codec drops it drops once: a payload the application has encoded
\* is encoded again from its fields byte for byte.
OwnPayloadsLast == own /\ screen = "result" => Encode(data) = plain

\* The screen of the material decides what every later screen shows: the
\* catalog entry and the brand found in the staged fields are the picked ones.
ShownIsPicked ==
    picked # 0 /\ screen \in {"color", "weight", "serial", "confirm"} =>
        /\ Lookup(data.filament_id) = picked
        /\ ResolveBrand(data) = VendorToBrand(data.vendor)

\* The weight preselected for an edited spool: no other is nearer to its
\* length, and none before it is as near.
NearestIsNearest ==
    [][screen = "result" /\ screen' = "brand" =>
          LET d(w) == Distance(table[w], data.length_m)
          IN  \A w \in DOMAIN table :
                  d(index') <= d(w) /\ (w < index' => d(index') < d(w))]_vars
==============================================================================
