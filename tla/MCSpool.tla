------------------------------- MODULE MCSpool --------------------------------
(***************************************************************************)
(* Small instances of CfsSpool for TLC.                                    *)
(***************************************************************************)
EXTENDS CfsSpool

MCSettings == [serial_mode : SerialModes, serial_counter : 0..MaxCounter]

\* The default mode is "keep", and the counter starts with 1.
MCDefault == [serial_mode |-> "keep", serial_counter |-> 1]

\* A device that was started with other settings than it had is as good as new:
\* what it does next is what one with these settings and another history does.
NotLost == ~lost
==============================================================================
