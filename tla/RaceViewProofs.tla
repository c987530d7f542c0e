--------------------------- MODULE RaceViewProofs ---------------------------
(***************************************************************************)
(* Proofs about the client's estimate of the server's clock and about the  *)
(* start gate, for clocks, trips and drifts of any size and any number of  *)
(* packets in flight.                                                      *)
(*                                                                         *)
(* The invariant follows a sample through the network: when the server     *)
(* answers, the difference of the two clocks is known, and it can change   *)
(* only by what they drift until the answer is used (PongOK).              *)
(***************************************************************************)
EXTENDS RaceView, TLAPS

USE DEF FZ_LOBBY, FZ_COUNTDOWN, FZ_RACING

Pings == [type : {"PING"}, sent : Nat]
Pongs == [type : {"PONG"}, sent : Nat, at : Nat, seen : Nat, drift : Nat]
Views == [time : Nat, race : Nat, phase : {FZ_LOBBY, FZ_COUNTDOWN, FZ_RACING}, start : Nat, car : Cars \cup {NoCar}]

\* The server's answer m lies between the PING and now, and since then the clocks have only
\* drifted.
PongOK(m) ==
  /\ m.sent <= m.seen /\ m.seen <= now /\ m.drift <= drift
  /\ (clock - now) - (m.at - m.seen) <= drift - m.drift
  /\ (m.at - m.seen) - (clock - now) <= drift - m.drift

\* The inductive invariant.
ClockInv ==
  /\ clock \in Nat /\ now \in Nat /\ drift \in Nat
  /\ flight \subseteq Pings \cup Pongs
  /\ \A m \in flight : m.sent <= now /\ (m \in Pongs => PongOK(m))
  /\ est \in [best : Nat, offset2 : Int, basis : Nat]
  /\ est.best # NoTrip =>
       /\ est.basis <= drift
       /\ 2 * (clock - now) - est.offset2 <= est.best + 2 * (drift - est.basis)
       /\ est.offset2 - 2 * (clock - now) <= est.best + 2 * (drift - est.basis)
  /\ view \in Views
  /\ view.phase = FZ_RACING => view.start <= clock

\* The network delivers nothing that nobody sent.
LEMMA SendsSubset ==
  ASSUME NEW packets, NEW m, NEW after \in Sends(packets, m)
  PROVE  after \subseteq packets \cup {m}
  BY DEF Sends

\* The clocks start with no estimate.
LEMMA ViewInit == ASSUME Init PROVE ClockInv
  BY ViewAssumption DEF Init, ClockInv, NoEstimate, NoTrip, Views

\* A PING carries the client's present time.
LEMMA PingStep == ASSUME ClockInv, Ping PROVE ClockInv'
<1> DEFINE p == [type |-> "PING", sent |-> now]
<1>1. flight' \subseteq flight \cup {p}  BY SendsSubset DEF Ping
<1>2. UNCHANGED <<clock, now, drift, est, view>>  BY DEF Ping, clockVars, viewVars
<1>3. p \in Pings /\ p.sent = now /\ p \notin Pongs  BY DEF ClockInv, Pings, Pongs
<1> HIDE DEF p
<1>4. flight' \subseteq Pings \cup Pongs  BY <1>1, <1>3 DEF ClockInv
<1>5. \A m \in flight' : m.sent <= now /\ (m \in Pongs => PongOK(m))
  BY <1>1, <1>3 DEF ClockInv
<1> QED  BY <1>2, <1>4, <1>5 DEF ClockInv, PongOK

\* The server's answer is a sample of both clocks.
LEMMA AnswerStep == ASSUME ClockInv, Answer PROVE ClockInv'
<1>1. PICK m \in flight, again \in BOOLEAN :
        /\ m.type = "PING"
        /\ flight' \in Sends(IF again THEN flight ELSE flight \ {m},
                             [type |-> "PONG", sent |-> m.sent, at |-> clock, seen |-> now, drift |-> drift])
        /\ UNCHANGED <<clockVars, lastPing, est, viewVars>>
  BY DEF Answer
<1> DEFINE p == [type |-> "PONG", sent |-> m.sent, at |-> clock, seen |-> now, drift |-> drift]
<1>2. flight' \subseteq flight \cup {p}  BY <1>1, SendsSubset
<1>3. UNCHANGED <<clock, now, drift, est, view>>  BY <1>1 DEF clockVars, viewVars
<1>4. m.sent \in Nat /\ m.sent <= now  BY <1>1 DEF ClockInv, Pings, Pongs
<1>5. p \in Pongs /\ p.sent <= now /\ PongOK(p)  BY <1>4 DEF ClockInv, Pongs, PongOK
<1> HIDE DEF p
<1>6. flight' \subseteq Pings \cup Pongs  BY <1>2, <1>5 DEF ClockInv
<1>7. \A k \in flight' : k.sent <= now /\ (k \in Pongs => PongOK(k))
  BY <1>2, <1>5 DEF ClockInv
<1> QED  BY <1>3, <1>6, <1>7 DEF ClockInv, PongOK

\* The sample that is taken is off by at most half the trip, and by the drift.
LEMMA PongStep == ASSUME ClockInv, Pong PROVE ClockInv'
<1>1. PICK m \in flight, again \in BOOLEAN :
        /\ m.type = "PONG"
        /\ est' = Estimate(est, m, now)
        /\ flight' = IF again THEN flight ELSE flight \ {m}
        /\ UNCHANGED <<clockVars, lastPing, viewVars>>
  BY DEF Pong
<1>2. UNCHANGED <<clock, now, drift, view>> /\ flight' \subseteq flight
  BY <1>1 DEF clockVars, viewVars
<1>3. m \in Pongs /\ PongOK(m)  BY <1>1 DEF ClockInv, Pings
<1>4. /\ m.sent \in Nat /\ m.at \in Nat /\ m.seen \in Nat /\ m.drift \in Nat
      /\ clock \in Nat /\ now \in Nat /\ drift \in Nat
  BY <1>3 DEF Pongs, ClockInv
<1>5. CASE est' = est  BY <1>2, <1>5 DEF ClockInv, PongOK
<1>6. CASE est' # est
  <2> DEFINE e == [best |-> now - m.sent, offset2 |-> 2 * m.at - (m.sent + now), basis |-> m.drift]
  <2>1. est' = e /\ ~(now - m.sent < 0)  BY <1>1, <1>6 DEF Estimate
  <2>2. e \in [best : Nat, offset2 : Int, basis : Nat]  BY <1>4, <2>1
  <2>3. e.best = now - m.sent /\ e.offset2 = 2 * m.at - (m.sent + now) /\ e.basis = m.drift  OBVIOUS
  <2> HIDE DEF e
  <2>4. /\ e.basis <= drift
        /\ 2 * (clock - now) - e.offset2 <= e.best + 2 * (drift - e.basis)
        /\ e.offset2 - 2 * (clock - now) <= e.best + 2 * (drift - e.basis)
    BY <1>3, <1>4, <2>3 DEF PongOK
  <2> QED  BY <1>2, <2>1, <2>2, <2>4 DEF ClockInv, PongOK
<1> QED  BY <1>5, <1>6

\* A snapshot says that the race is on only after its start.
LEMMA SnapshotStep == ASSUME ClockInv, Snapshot PROVE ClockInv'
<1>1. PICK m \in Snapshots : Follows(view, m) /\ view' = m
  BY DEF Snapshot
<1>2. UNCHANGED <<clock, now, drift, flight, est>>  BY DEF Snapshot, clockVars
<1>3. m \in Views
  <2>1. view.race \in Nat /\ clock \in Nat  BY DEF ClockInv, Views
  <2> QED  BY <2>1, ViewAssumption DEF Snapshots, Views
<1>4. m.phase = FZ_RACING => m.start <= clock
  <2>1. m.start \in Nat /\ m.time \in Nat /\ m.time <= clock  BY <1>1, <1>3 DEF Follows, Views
  <2> QED  BY <1>1, <2>1 DEF Follows, ClockInv
<1> QED  BY <1>1, <1>2, <1>3, <1>4 DEF ClockInv, PongOK

\* Errors add up.
LEMMA Triangle ==
  ASSUME NEW x \in Int, NEW y \in Int, NEW k \in Int, NEW w \in Int, NEW u \in Int,
         x - k <= w, k - x <= w, y - x <= u, x - y <= u
  PROVE  y - k <= w + u /\ k - y <= w + u
  OBVIOUS

\* In a unit of time the difference of the clocks changes by what they drift.
LEMMA TimeStep == ASSUME ClockInv, PassTime PROVE ClockInv'
<1>1. PICK s \in {0, 1}, c \in {0, 1} :
        /\ clock' = clock + s /\ now' = now + c
        /\ drift' = IF s = c THEN drift ELSE drift + 1
  BY DEF PassTime
<1>2. UNCHANGED <<flight, est, view>>  BY DEF PassTime, viewVars
<1>3. clock \in Nat /\ now \in Nat /\ drift \in Nat  BY DEF ClockInv
<1>4. clock' \in Nat /\ now' \in Nat /\ drift' \in Nat  BY <1>1, <1>3
<1>5. /\ (clock' - now') - (clock - now) <= drift' - drift
      /\ (clock - now) - (clock' - now') <= drift' - drift
      /\ clock' >= clock /\ now' >= now /\ drift' >= drift
  BY <1>1, <1>3
<1>6. ASSUME NEW m \in flight PROVE m.sent <= now' /\ (m \in Pongs => PongOK(m)')
  <2>1. m.sent \in Nat /\ m.sent <= now  BY <1>6 DEF ClockInv, Pings, Pongs
  <2>2. CASE m \in Pongs
    <3>1. m.at \in Nat /\ m.seen \in Nat /\ m.drift \in Nat  BY <2>2 DEF Pongs
    <3>2. PongOK(m)  BY <1>6, <2>2 DEF ClockInv
    <3>3. m.sent <= m.seen /\ m.seen <= now' /\ m.drift <= drift'
      BY <1>3, <1>4, <1>5, <3>1, <3>2 DEF PongOK
    <3> DEFINE x == clock - now
               y == clock' - now'
               k == m.at - m.seen
               w == drift - m.drift
               u == drift' - drift
    <3>4. x \in Int /\ y \in Int /\ k \in Int /\ w \in Int /\ u \in Int  BY <1>3, <1>4, <3>1
    <3>5. x - k <= w /\ k - x <= w  BY <3>2 DEF PongOK
    <3>6. y - x <= u /\ x - y <= u  BY <1>5
    <3>7. w + u = drift' - m.drift  BY <1>3, <1>4, <3>1
    <3> HIDE DEF x, w, u
    <3>8. y - k <= drift' - m.drift /\ k - y <= drift' - m.drift  BY <3>4, <3>5, <3>6, <3>7, Triangle
    <3>9. m.sent <= now'  BY <1>3, <1>4, <1>5, <2>1
    <3> QED  BY <3>3, <3>8, <3>9 DEF PongOK
  <2> QED  BY <1>3, <1>4, <1>5, <2>1, <2>2
<1>7. est.best # NoTrip =>
        /\ est.basis <= drift'
        /\ 2 * (clock' - now') - est.offset2 <= est.best + 2 * (drift' - est.basis)
        /\ est.offset2 - 2 * (clock' - now') <= est.best + 2 * (drift' - est.basis)
  <2>1. est.best \in Nat /\ est.offset2 \in Int /\ est.basis \in Nat  BY DEF ClockInv
  <2> SUFFICES ASSUME est.best # NoTrip
      PROVE  /\ est.basis <= drift'
             /\ 2 * (clock' - now') - est.offset2 <= est.best + 2 * (drift' - est.basis)
             /\ est.offset2 - 2 * (clock' - now') <= est.best + 2 * (drift' - est.basis)
    OBVIOUS
  <2>2. est.basis <= drift'  BY <1>3, <1>4, <1>5, <2>1 DEF ClockInv
  <2> DEFINE x == 2 * (clock - now)
             y == 2 * (clock' - now')
             k == est.offset2
             w == est.best + 2 * (drift - est.basis)
             u == 2 * (drift' - drift)
  <2>3. x \in Int /\ y \in Int /\ k \in Int /\ w \in Int /\ u \in Int  BY <1>3, <1>4, <2>1
  <2>4. x - k <= w /\ k - x <= w  BY DEF ClockInv
  <2>5. y - x <= u /\ x - y <= u
    <3> DEFINE a == clock - now
               b == clock' - now'
               g == drift' - drift
    <3>1. a \in Int /\ b \in Int /\ g \in Int  BY <1>3, <1>4
    <3>2. b - a <= g /\ a - b <= g  BY <1>5
    <3> HIDE DEF a, b, g
    <3>3. 2 * b - 2 * a <= 2 * g /\ 2 * a - 2 * b <= 2 * g  BY <3>1, <3>2
    <3> QED  BY <3>3 DEF a, b, g
  <2>6. w + u = est.best + 2 * (drift' - est.basis)  BY <1>3, <1>4, <2>1
  <2> HIDE DEF x, w, u
  <2>7. y - k <= est.best + 2 * (drift' - est.basis) /\ k - y <= est.best + 2 * (drift' - est.basis)
    BY <2>3, <2>4, <2>5, <2>6, Triangle
  <2> QED  BY <2>2, <2>7
<1>8. view.phase = FZ_RACING => view.start <= clock'  BY <1>3, <1>4, <1>5 DEF ClockInv, Views
<1> QED  BY <1>2, <1>4, <1>6, <1>7, <1>8 DEF ClockInv

\* Every step preserves the invariant.
LEMMA ViewNext == ASSUME ClockInv, [Next]_vars PROVE ClockInv'
<1>1. CASE Release  BY <1>1 DEF Release, ClockInv, PongOK, clockVars
<1>2. CASE Attach
  <2>1. flight' = {} /\ est' = NoEstimate /\ UNCHANGED <<clock, now, drift>>
    BY <1>2 DEF Attach, clockVars
  <2>2. view' = [view EXCEPT !.phase = FZ_LOBBY, !.start = 0, !.time = clock, !.car = NoCar]
    BY <1>2 DEF Attach
  <2>3. view \in Views /\ clock \in Nat  BY DEF ClockInv
  <2>4. view' \in Views  BY <2>2, <2>3 DEF Views
  <2>5. view'.phase # FZ_RACING  BY <2>2, <2>3 DEF Views
  <2> QED  BY <2>1, <2>4, <2>5, ViewAssumption DEF ClockInv, NoEstimate, NoTrip
<1>3. CASE UNCHANGED vars  BY <1>3 DEF vars, ClockInv, PongOK
<1> QED  BY <1>1, <1>2, <1>3, PingStep, AnswerStep, PongStep, SnapshotStep, TimeStep DEF Next

\* The invariant holds at all times.
THEOREM ViewInvariant == Spec => []ClockInv
  BY ViewInit, ViewNext, PTL DEF Spec

\* The estimate of the server's time is off by at most half the fastest trip and by what the
\* clocks have drifted since then, whatever PONGs are late, lost, repeated or out of order.
THEOREM EstimateIsClose == Spec => []ClockWithinTrip
<1>1. ClockInv => ClockWithinTrip  BY DEF ClockInv, ClockWithinTrip, Slack
<1> QED  BY <1>1, ViewInvariant, PTL

\* The start gate lets nobody go before the start, up to that error, and before the first
\* PONG not until the server says that the race is on.
THEOREM NobodyStartsEarly == Spec => NoEarlyStart
<1>1. ASSUME ClockInv, [Next]_vars, ~running, running' PROVE 2 * clock + Slack >= 2 * view.start
  <2>1. Release
    <3>1. ~Ping /\ ~Answer /\ ~Pong /\ ~PassTime  BY <1>1 DEF Ping, Answer, Pong, PassTime, viewVars
    <3>2. ~Snapshot /\ ~Attach /\ ~UNCHANGED vars  BY <1>1 DEF Snapshot, Attach, vars
    <3> QED  BY <1>1, <3>1, <3>2 DEF Next
  <2>2. /\ clock \in Nat /\ now \in Nat /\ drift \in Nat /\ view.start \in Nat
        /\ est.best \in Nat /\ est.offset2 \in Int /\ est.basis \in Nat
    BY <1>1 DEF ClockInv, Views
  <2>3. Slack \in Nat  BY <1>1, <2>2 DEF ClockInv, Slack
  <2>4. CASE view.phase = FZ_RACING  BY <1>1, <2>2, <2>3, <2>4 DEF ClockInv
  <2>5. CASE Due(view)
    <3>1. est.best # NoTrip /\ 2 * now + est.offset2 >= 2 * view.start
      BY <2>2, <2>5, ViewAssumption DEF Due, NoTrip
    <3>2. Slack = est.best + 2 * (drift - est.basis)  BY <3>1 DEF Slack
    <3> QED  BY <1>1, <2>2, <3>1, <3>2 DEF ClockInv
  <2> QED  BY <2>1, <2>4, <2>5 DEF Release
<1>2. ClockInv /\ [Next]_vars => [~running /\ running' => 2 * clock + Slack >= 2 * view.start]_vars
  BY <1>1
<1> QED  BY <1>2, ViewInvariant, PTL DEF Spec, NoEarlyStart
=============================================================================
