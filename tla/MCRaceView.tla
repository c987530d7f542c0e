----------------------------- MODULE MCRaceView -----------------------------
(***************************************************************************)
(* RaceView for TLC. The two cars lie on either side of orientation 0, so  *)
(* that the shorter way from one to the other passes it.                   *)
(*                                                                         *)
(* Neither the clock estimate nor the start gate looks at the buffer or at *)
(* a car, and the buffer does not depend on the PINGs. Once a PING is sent *)
(* the view forgets buffer and car: every buffer is also reached by the    *)
(* same snapshots without a PING, where all of it is kept.                 *)
(***************************************************************************)
EXTENDS RaceView

TwoCars == {[x |-> 1, orientation |-> 7], [x |-> 4, orientation |-> 2]}

View ==
  IF lastPing = 0 THEN vars
  ELSE <<clockVars, lastPing, flight, est, [view EXCEPT !.car = NoCar], running>>
=============================================================================
