---------------------------- MODULE MCRaceServer ----------------------------
(***************************************************************************)
(* RaceServer for TLC. Endpoints are only compared for equality.           *)
(*                                                                         *)
(* Two states that the view identifies have the same behaviours and the    *)
(* same properties:                                                        *)
(*   - the race, command and state counters only grow and the environment  *)
(*     always offers packets relative to them;                             *)
(*   - of an unoccupied slot only status, car position and armed time are  *)
(*     looked at before it is cleared;                                     *)
(*   - what a PONG may do a PING, which may always arrive, does too, so    *)
(*     whether a PING of the server is outstanding does not matter;        *)
(*   - the only nonce of a player that is looked at again is that of P1 in *)
(*     a hosted room.                                                      *)
(***************************************************************************)
EXTENDS RaceServer, TLC

Symmetry == Permutations(Addrs)

Seen(i, p) ==
  [p EXCEPT !.cmdSeq = 0, !.stateSeq = 0,
            !.nonce = IF i = 0 /\ room.owner # 0 THEN @ ELSE 0,
            !.addr  = IF occupied(p) THEN @ ELSE NoAddr,
            !.token = IF occupied(p) THEN @ ELSE 0,
            !.seen  = IF occupied(p) THEN @ ELSE 0,
            !.ping  = FALSE]

View ==
  << [room EXCEPT !.race = 0, !.slot = [i \in Slots |-> Seen(i, room.slot[i])]],
     issued, pollRest, clock >>
=============================================================================
