-------------------------------- MODULE MCDump --------------------------------
(***************************************************************************)
(* Small instances of CfsDump for TLC.                                     *)
(***************************************************************************)
EXTENDS CfsDump

MCPayloads == {"p1", "p2"}

\* A tag that holds p1, what an erase leaves of it after its first and after
\* its second block, and what a write of p2 over it leaves after its first.
MCHeld ==
    {Plain("p1"), [Plain("p1") EXCEPT ![1] = Plain("p2")[1]]}
    \cup {[i \in 1..3 |-> IF i <= n THEN Junk ELSE Plain("p1")[i]] : n \in 1..2}

\* A UID of four bytes, and one of seven that begins with them.
MCUids == {<<96, 234, 18, 33>>, <<96, 234, 18, 33, 1, 2, 3>>}
==============================================================================
