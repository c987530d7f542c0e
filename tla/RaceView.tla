------------------------------ MODULE RaceView ------------------------------
(***************************************************************************)
(* What a client makes of the server's time and of the other cars          *)
(* (src/client/fzvs_client.cpp): the clock estimate from PING and PONG,    *)
(* the start gate that uses it, and the buffer of snapshots between which  *)
(* the cars are drawn.                                                     *)
(*                                                                         *)
(* Both clocks are variables. They run together, but for `drift': the      *)
(* number of units that one of them has made without the other. Times are  *)
(* integers, so the offset, a mean of two times, is kept doubled. PING and *)
(* PONG may be lost, delayed, duplicated and overtaken.                    *)
(*                                                                         *)
(* RaceRoom has the order of snapshots, commands and acknowledgements;     *)
(* here a snapshot is any that StartBarrier lets the server send, no older *)
(* than the last one accepted. One opponent stands for all: the others are *)
(* treated alike and independently.                                        *)
(***************************************************************************)
EXTENDS FzvsProtocol, Sequences, FiniteSets

CONSTANTS
  Cars,          \* what a snapshot may say of a car: records of x and orientation
  Ring,          \* orientations are numbers modulo Ring (256)
  Capacity,      \* FZ_SNAPSHOT_BUFFER_CAPACITY (16)
  PingEvery,     \* time between two PINGs (0.5 s)
  TripLimit,     \* a PONG that took longer is ignored (5 s)
  MaxFlight,     \* PINGs and PONGs in flight, a bound
  MaxClock,      \* bound on both clocks
  MaxDrift,      \* bound on drift
  MaxRace        \* bound on races

ASSUME ViewAssumption ==
  /\ Ring \in Nat \ {0} /\ Capacity \in Nat \ {0}
  /\ PingEvery \in Nat \ {0} /\ TripLimit \in Nat
  /\ MaxClock \in Nat /\ MaxDrift \in Nat /\ MaxFlight \in Nat /\ MaxRace \in Nat

VARIABLES
  clock, now,    \* the server's clock and the client's
  drift,         \* how often one of them has run without the other
  lastPing,      \* when the last PING was sent
  flight,        \* PINGs and PONGs on their way
  est,           \* bestRtt, twice the offset; basis: drift when the server took its time
  view,          \* the last snapshot: race, phase, start, car, and its time
  buffer,        \* snapshotBuffer
  running        \* the game has been let go

vars == <<clock, now, drift, lastPing, flight, est, view, buffer, running>>

clockVars == <<clock, now, drift>>
viewVars  == <<view, buffer, running>>

\* bestRtt before any PONG, 1e12: more than any trip that counts.
NoTrip == TripLimit + 1

NoEstimate == [best |-> NoTrip, offset2 |-> 0, basis |-> 0]

\* The car of a player nobody has told of: peers={}.
NoCar == [x |-> 0, orientation |-> 0]

-----------------------------------------------------------------------------
(* The clock estimate.                                                     *)

\* A network of at most MaxFlight packets: when it is full one is lost, old or new.
Sends(packets, m) ==
  IF Cardinality(packets \cup {m}) <= MaxFlight THEN {packets \cup {m}}
  ELSE {(packets \cup {m}) \ {k} : k \in packets \cup {m}}

\* tick(): a PING with the client's time.
Ping ==
  /\ now - lastPing >= PingEvery
  /\ lastPing' = now
  /\ flight' \in Sends(flight, [type |-> "PING", sent |-> now])
  /\ UNCHANGED <<clockVars, est, viewVars>>

\* The server answers with its own time. `seen' and `drift' only serve to state properties:
\* the client's time and the drift at this moment.
Answer ==
  \E m \in flight, again \in BOOLEAN :
    /\ m.type = "PING"
    /\ flight' \in Sends(IF again THEN flight ELSE flight \ {m},
                         [type |-> "PONG", sent |-> m.sent, at |-> clock, seen |-> now, drift |-> drift])
    /\ UNCHANGED <<clockVars, lastPing, est, viewVars>>

\* Mutant: the time of the PONG is taken for the server's time now.
Estimate_NoTrip(e, m, t) ==
  LET sample == t - m.sent
  IN  IF sample < 0 \/ sample > TripLimit \/ sample >= e.best THEN e
      ELSE [best |-> sample, offset2 |-> 2 * m.at - 2 * m.sent, basis |-> m.drift]

\* The sample of the fastest trip is kept.
Estimate(e, m, t) ==
  LET sample == t - m.sent
  IN  IF sample < 0 \/ sample > TripLimit \/ sample >= e.best THEN e
      ELSE [best |-> sample, offset2 |-> 2 * m.at - (m.sent + t), basis |-> m.drift]

Pong ==
  \E m \in flight, again \in BOOLEAN :
    /\ m.type = "PONG"
    /\ est' = Estimate(est, m, now)
    /\ flight' = IF again THEN flight ELSE flight \ {m}
    /\ UNCHANGED <<clockVars, lastPing, viewVars>>

-----------------------------------------------------------------------------
(* Snapshots.                                                              *)

\* resetGame() clears the buffer when a snapshot brings a new race.
NewBuffer(old, b, m) == IF m.race = old.race THEN b ELSE <<>>

bufferSnapshot(b, m) ==
  LET longer == Append(b, [time |-> m.time, race |-> m.race, car |-> m.car])
  IN  IF Len(longer) <= Capacity THEN longer ELSE Tail(longer)

\* What the server may have sent after the snapshot v: its phases come in order, the start
\* stands once everybody has armed, and nobody races before it (StartBarrier). COUNTDOWN
\* is here the part of it in which everybody has armed.
Follows(v, m) ==
  /\ m.time \in v.time .. clock
  /\ \/ m.race = v.race /\ m.phase >= v.phase /\ (v.phase >= FZ_COUNTDOWN => m.start = v.start)
     \/ m.race = v.race + 1 /\ m.race <= MaxRace
  /\ m.phase >= FZ_COUNTDOWN <=> m.start # 0
  /\ m.phase >= FZ_RACING => m.start <= m.time

Snapshots ==
  [ time : 0 .. clock, race : {view.race, view.race + 1},
    phase : {FZ_LOBBY, FZ_COUNTDOWN, FZ_RACING}, start : 0 .. MaxClock, car : Cars ]

\* receive() of a snapshot that is not stale.
Snapshot ==
  \E m \in Snapshots :
    /\ Follows(view, m)
    /\ view' = m
    /\ buffer' = bufferSnapshot(NewBuffer(view, buffer, m), m)
    /\ running' = (running /\ m.race = view.race)
    /\ UNCHANGED <<clockVars, lastPing, flight, est>>

\* Mutant: the offset is used before there is one.
Due_Guess(v) == 2 * now + est.offset2 >= 2 * v.start

\* The client's estimate says that the start has come.
Due(v) == est.best < NoTrip /\ 2 * now + est.offset2 >= 2 * v.start

\* frame(): the start gate, with all others armed.
Release ==
  /\ ~running
  /\ \/ view.phase = FZ_RACING
     \/ view.phase = FZ_COUNTDOWN /\ Due(view)
  /\ running' = TRUE
  /\ UNCHANGED <<clockVars, lastPing, flight, est, view, buffer>>

\* attach() after detach(): another session, whose packets carry another token.
Attach ==
  /\ lastPing' = 0 /\ flight' = {} /\ est' = NoEstimate
  /\ view' = [view EXCEPT !.phase = FZ_LOBBY, !.start = 0, !.time = clock, !.car = NoCar]
  /\ buffer' = <<>> /\ running' = FALSE
  /\ UNCHANGED clockVars

-----------------------------------------------------------------------------

\* One unit of time, on both clocks or, drifting, on one of them.
PassTime ==
  \E s, c \in {0, 1} :
    /\ s + c > 0
    /\ clock' = clock + s /\ now' = now + c
    /\ clock' <= MaxClock /\ now' <= MaxClock
    /\ drift' = IF s = c THEN drift ELSE drift + 1
    /\ drift' <= MaxDrift
    /\ UNCHANGED <<lastPing, flight, est, viewVars>>

Init ==
  /\ clock \in 0 .. 1 /\ now \in 0 .. 1 /\ drift = 0
  /\ lastPing = 0 /\ flight = {} /\ est = NoEstimate
  /\ view = [time |-> 0, race |-> 1, phase |-> FZ_LOBBY, start |-> 0, car |-> NoCar]
  /\ buffer = <<>> /\ running = FALSE

Next == Ping \/ Answer \/ Pong \/ Snapshot \/ Release \/ Attach \/ PassTime

Spec == Init /\ [][Next]_vars

-----------------------------------------------------------------------------
(* Drawing the cars.                                                       *)

\* std::lround of n / d: to the nearest, halves away from zero.
lround(n, d) == IF n >= 0 THEN (2 * n + d) \div (2 * d) ELSE -((2 * (-n) + d) \div (2 * d))

\* The way from one orientation to another, the shorter way round.
Turn(a, b) ==
  LET turn == b - a
  IN  IF turn > Ring \div 2 - 1 THEN turn - Ring
      ELSE IF turn < -(Ring \div 2) THEN turn + Ring ELSE turn

\* The car at time t between two snapshots.
Blend(before, after, t) ==
  LET n == t - before.time
      d == after.time - before.time
      a == before.car
      b == after.car
  IN  [ x |-> lround(a.x * d + (b.x - a.x) * n, d),
        orientation |-> lround(a.orientation * d + Turn(a.orientation, b.orientation) * n, d) % Ring ]

\* Mutant: the two oldest snapshots are taken for those around t.
Rendered_Oldest(t) ==
  LET n == Len(buffer)
  IN  IF n = 0 THEN view.car
      ELSE IF t <= buffer[1].time THEN buffer[1].car
      ELSE IF t >= buffer[n].time \/ buffer[2].time = buffer[1].time THEN buffer[n].car
      ELSE Blend(buffer[1], buffer[2], t)

\* renderedPeers() for a render time t, for one car.
Rendered(t) ==
  LET n == Len(buffer)
      i == CHOOSE k \in 2 .. n : t <= buffer[k].time /\ \A j \in 2 .. k - 1 : t > buffer[j].time
  IN  IF n = 0 THEN view.car
      ELSE IF t <= buffer[1].time THEN buffer[1].car
      ELSE IF t >= buffer[n].time THEN buffer[n].car
      ELSE Blend(buffer[i - 1], buffer[i], t)

-----------------------------------------------------------------------------
(* Properties.                                                             *)

\* How far the client may be off, doubled: the fastest trip, and what the clocks have
\* drifted since.
Slack == IF est.best = NoTrip THEN 0 ELSE est.best + 2 * (drift - est.basis)

\* The estimate of the server's time is off by at most half the fastest trip, and by what
\* the clocks have drifted since then, which the client never corrects (client.cpp:97),
\* whatever PONGs are late, lost, repeated or out of order.
ClockWithinTrip ==
  est.best # NoTrip => 2 * (clock - now) - est.offset2 \in -Slack .. Slack

\* The start gate lets nobody go before the start: when the game is let go on the client's
\* own clock, the server's has reached the start up to the error of the estimate. Without
\* a PONG the gate stays shut until the server says that the race is on.
NoEarlyStart ==
  [][~running /\ running' => 2 * clock + Slack >= 2 * view.start]_vars

\* How far two orientations are apart.
Apart(a, b) == LET d == (b - a) % Ring IN IF d <= Ring - d THEN d ELSE Ring - d

\* Every car is drawn, for any estimate of the time, where it was between two snapshots of
\* this race that enclose the time, or in the last or first one; it turns the shorter way.
\* Two snapshots of the same time, a full buffer and a new race do not lead astray.
CarsInBetween ==
  /\ \A i \in DOMAIN buffer : buffer[i].race = view.race
  /\ \A t \in 0 .. MaxClock :
       LET p == Rendered(t)
       IN  \/ buffer = <<>>
           \/ p = buffer[1].car /\ t <= buffer[1].time
           \/ p = view.car /\ t >= view.time
           \/ \E i \in 1 .. Len(buffer) - 1 :
                LET a == buffer[i]
                    b == buffer[i + 1]
                IN  /\ a.time < t /\ t <= b.time
                    /\ (a.car.x <= p.x /\ p.x <= b.car.x) \/ (b.car.x <= p.x /\ p.x <= a.car.x)
                    /\ Apart(a.car.orientation, p.orientation) + Apart(p.orientation, b.car.orientation)
                         = Apart(a.car.orientation, b.car.orientation)
=============================================================================
