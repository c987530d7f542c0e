---------------------------- MODULE StartBarrier ----------------------------
(***************************************************************************)
(* What a room promises to its players about the start of a race, without  *)
(* commands, acknowledgements, timeouts or ticks: the specification that   *)
(* RaceServer implements (RaceServer!Barrier).                             *)
(*                                                                         *)
(* A step may combine departures with one move of the race, as a handler   *)
(* of the server does.                                                     *)
(***************************************************************************)
EXTENDS FzvsProtocol

VARIABLES
  now,       \* the server's clock
  race,      \* number of the race
  phase,     \* phase of the race
  field,     \* the slots of its players
  start,     \* the start time, 0 before there is one
  armed      \* the players who have agreed to the start time

\* The fields of a race.
raceVars == <<race, phase, field, start, armed>>

Init ==
  /\ now \in Nat /\ race \in WireSeq
  /\ phase = FZ_LOBBY /\ field = {} /\ start = 0 /\ armed = {}

\* The race goes on without some of its players, or with all of them.
GoesOn == race' = race /\ now' = now /\ field' \subseteq field

\* Players come and go in the lobby, until the race is closed to newcomers.
Gather ==
  /\ phase = FZ_LOBBY /\ phase' \in {FZ_LOBBY, FZ_LOADING}
  /\ race' = race /\ now' = now
  /\ phase' = FZ_LOADING => field' # {}
  /\ field' \subseteq Slots /\ start' = 0 /\ armed' = {}

Load ==
  /\ phase = FZ_LOADING /\ phase' = FZ_LOADING
  /\ GoesOn /\ start' = 0 /\ armed' = {}

\* A start time in the future is announced.
Announce ==
  /\ phase = FZ_LOADING /\ phase' = FZ_COUNTDOWN
  /\ GoesOn /\ field' # {} /\ start' > now /\ armed' = {}

\* Players agree to the start time, and do not take it back.
Agree ==
  /\ phase = FZ_COUNTDOWN /\ phase' = FZ_COUNTDOWN
  /\ GoesOn /\ start' = start
  /\ armed \cap field' \subseteq armed' /\ armed' \subseteq field'

\* As long as somebody has not agreed, the start may be put off, and everybody is asked again.
PutOff ==
  /\ phase = FZ_COUNTDOWN /\ phase' = FZ_COUNTDOWN
  /\ GoesOn /\ ~(field' \subseteq armed)
  /\ start' > start /\ start' > now /\ armed' = {}

\* The start, at the time that everybody has agreed to.
Go ==
  /\ phase = FZ_COUNTDOWN /\ phase' = FZ_RACING
  /\ GoesOn /\ now >= start /\ start' = start /\ armed' = field'

Race ==
  /\ phase \in {FZ_RACING, FZ_RESULTS} /\ phase' \in {phase, FZ_RESULTS}
  /\ GoesOn /\ start' = start /\ armed' = armed \cap field'

\* A new lobby for those who are still there.
Again ==
  /\ race' # race /\ now' = now /\ phase' = FZ_LOBBY
  /\ field' \subseteq field /\ start' = 0 /\ armed' = {}

PassTime == now' > now /\ UNCHANGED raceVars

Next ==
  \/ Gather \/ Load \/ Announce \/ Agree \/ PutOff \/ Go \/ Race \/ Again \/ PassTime

Spec == Init /\ [][Next]_<<now, raceVars>>
=============================================================================
