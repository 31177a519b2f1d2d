------------------------------- MODULE MCCodec -------------------------------
(***************************************************************************)
(* Small instances of CfsCodec for TLC.                                    *)
(***************************************************************************)
EXTENDS CfsCodec

\* The table of a new device, one of a settings file edited by hand with equal
\* lengths and one of five digits, and one with equal distances to 330.
MCTables ==
    {<<82, 165, 198, 247, 330>>, <<1, 9999, 330, 330, 12345>>, <<320, 340, 340, 320, 331>>}

\* A colour with every kind of digit.
MCCustoms == {<<0, 169, 255>>}

\* Every entry; over foreign bytes one of either writable brand.
MCPicks(n) == IF n = 0 THEN DOMAIN Catalog ELSE {1, 33}

MCPresets(n) == IF n = 0 THEN {2, 8} ELSE {}

MCSerials(n) == IF n = 0 THEN {0, 999999, 20304} ELSE {}
==============================================================================
