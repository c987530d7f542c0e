---------------------------- MODULE MCRomPatches ----------------------------
(***************************************************************************)
(* RomPatches for TLC: a ROM of four bytes of two values.                  *)
(***************************************************************************)
EXTENDS RomPatches, TLC

MCOffsets == 0 .. 3
MCSupported == [o \in MCOffsets |-> o % 2]
MCRoms == {MCSupported, [o \in MCOffsets |-> 0]}

\* The client writes the last two bytes, which the bridge may patch as well.
MCRace  == (2 :> 1)
MCTitle == (3 :> 0)
=============================================================================
