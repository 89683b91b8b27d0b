---------------------------- MODULE MCAddressDecode ----------------------------
(***************************************************************************)
(* Instances of AddressDecode for TLC, scaled down: lines of two bytes,    *)
(* two sets, an int of four bits, and one bit of tag more than that (in    *)
(* the code 36 and 32, four more): 128 addresses, of which a build tells   *)
(* the lines of 8 or of 64 bytes apart.                                    *)
(***************************************************************************)
EXTENDS AddressDecode

WideTags == 32

\* Pairs of one line, of one set, and some 8 and 64 bytes apart.
SpreadAddresses == {0, 1, 2, 4, 8, 64, 72, 127}
===============================================================================
