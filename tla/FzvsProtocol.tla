---------------------------- MODULE FzvsProtocol ----------------------------
(***************************************************************************)
(* The vocabulary that the race server and the client share on the wire    *)
(* (src/shared/fzvs_protocol.h): phases, player statuses, and the serial-  *)
(* number comparison of the 32-bit race, command, state and snapshot       *)
(* counters.                                                               *)
(***************************************************************************)
EXTENDS Integers

CONSTANT SeqMod      \* how many values a wire counter has: 2^32 in the code

ASSUME SeqModAssumption == SeqMod \in Nat /\ SeqMod >= 4 /\ SeqMod % 2 = 0

\* The values of a uint32_t counter.
WireSeq == 0 .. SeqMod - 1

\* Unsigned increment: the counter wraps.
fz_succ(a) == (a + 1) % SeqMod

\* a is after b when it is less than half of the number circle ahead of it.
fz_newer(a, b) == a # b /\ (a - b) % SeqMod < SeqMod \div 2

-----------------------------------------------------------------------------
(* The slots of a room. FZ_PLAYERS is 4 whatever the room's size.          *)
Slots == 0 .. 3

(* Phases of a room, in the order a race goes through them.                *)
FZ_LOBBY     == 0
FZ_LOADING   == 1
FZ_COUNTDOWN == 2
FZ_RACING    == 3
FZ_RESULTS   == 4
Phases       == 0 .. 4

(* Statuses of a slot. The code compares them with <.                      *)
FZ_EMPTY         == 0
FZ_JOINED        == 1
FZ_SELECTED      == 2
FZ_PLAYER_LOADED == 3
FZ_PLAYER_RACING == 4
FZ_FINISHED      == 5
FZ_DISCONNECTED  == 6
Statuses         == 0 .. 6

(* Client to server commands, and the reasons for which a HELLO is refused *)
FZ_COMMANDS == {"SELECT", "LOADED", "ARM", "FINISH", "NEXT", "CONFIG", "LEAVE"}
FZ_REJECTS  == {"PASSWORD", "FULL", "RACING", "STARTING", "VERSION"}
=============================================================================
