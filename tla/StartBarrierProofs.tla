------------------------- MODULE StartBarrierProofs -------------------------
(***************************************************************************)
(* The race server implements StartBarrier.                                *)
(*                                                                         *)
(* A handler of the server first changes players (a command, departures,   *)
(* timeouts) and then tests the transitions of advance(). What the first   *)
(* part leaves of a room r is Reached(r, x): the race goes on with fewer   *)
(* players (Stays), or there is a new lobby (Fresh). From there advance()  *)
(* makes at most one of the moves of StartBarrier (AdvanceMoves). That it  *)
(* is at most one takes the invariant of RaceServerProofs: the statuses    *)
(* that a phase allows rule out the next transition.                       *)
(***************************************************************************)
EXTENDS RaceServerProofs

USE DEF FZ_LOBBY, FZ_LOADING, FZ_COUNTDOWN, FZ_RACING, FZ_RESULTS,
        FZ_EMPTY, FZ_JOINED, FZ_SELECTED, FZ_PLAYER_LOADED, FZ_PLAYER_RACING,
        FZ_FINISHED, FZ_DISCONNECTED

\* The race goes on, with some of its players; in the countdown more of them may have armed.
Stays(r, x) ==
  /\ x.race = r.race /\ x.phase = r.phase /\ x.start = r.start
  /\ Occupants(x) \subseteq Occupants(r)
  /\ \A i \in Occupants(x) : \/ x.slot[i].armed = r.slot[i].armed
                             \/ r.phase = FZ_COUNTDOWN /\ x.slot[i].armed = r.start

\* A lobby that nobody has selected a machine in, one race or, when it was left at once by
\* everybody, two races later.
Fresh(r, x) ==
  /\ x.phase = FZ_LOBBY /\ x.start = 0
  /\ Occupants(x) \subseteq Occupants(r)
  /\ \A i \in Occupants(x) : x.slot[i].status = FZ_JOINED
  /\ \/ x.race = fz_succ(r.race)
     \/ x.race = fz_succ(fz_succ(r.race)) /\ Occupants(x) = {}

Reached(r, x) == RoomInv(x) /\ (Stays(r, x) \/ Fresh(r, x))

-----------------------------------------------------------------------------
(* What comes before the transitions.                                      *)

\* drop() either takes a player out of the room and leaves the others alone, or it was the
\* last one and there is a new lobby.
LEMMA DropFacts ==
  ASSUME NEW x \in RoomType, NEW i \in Occupants(x)
  PROVE  LET q == drop(x, i) IN
         /\ Occupants(q) = Occupants(x) \ {i}
         /\ \/ /\ q.race = x.race /\ q.phase = x.phase /\ q.start = x.start
               /\ \A j \in Occupants(q) : q.slot[j] = x.slot[j]
            \/ /\ Occupants(q) = {}
               /\ q.race = fz_succ(x.race) /\ q.phase = FZ_LOBBY /\ q.start = 0
<1> DEFINE gone == Disconnect(x, i)
<1>1. i \in Slots /\ x.slot \in [Slots -> PlayerType]  BY DEF Occupants, RoomType
<1>2. /\ gone \in RoomType /\ Occupants(gone) = Occupants(x) \ {i}
      /\ gone.phase = x.phase /\ gone.start = x.start /\ gone.race = x.race
  BY <1>1, DisconnectFacts
<1>3. \A j \in Occupants(gone) : gone.slot[j] = x.slot[j]
  <2>1. \A j \in Slots \ {i} : gone.slot[j] = x.slot[j]  BY <1>1 DEF Disconnect, RoomType
  <2> QED  BY <1>2, <2>1 DEF Occupants
<1> HIDE DEF gone
<1>4. CASE x.owner # 0 /\ i = 0
  <2> DEFINE q == [gone EXCEPT !.closed = TRUE]
  <2>1. drop(x, i) = q  BY <1>4 DEF drop, gone
  <2>2. q.slot = gone.slot /\ q.phase = gone.phase /\ q.start = gone.start /\ q.race = gone.race
    BY <1>2 DEF RoomType
  <2> HIDE DEF q
  <2>3. Occupants(q) = Occupants(gone)  BY <2>2 DEF Occupants
  <2> QED  BY <1>2, <1>3, <2>1, <2>2, <2>3
<1>5. CASE ~(x.owner # 0 /\ i = 0)
  <2> DEFINE h == [gone EXCEPT !.host = NewHost(gone, i)]
             f == IF gone.phase = FZ_LOBBY THEN [h EXCEPT !.slot[i] = EmptyPlayer] ELSE h
             l == [begin_lobby(f) EXCEPT !.host = NoHost]
  <2>1. drop(x, i) = IF Occupants(f) = {} THEN l ELSE f
    BY <1>5 DEF drop, Release, gone
  <2>2. /\ h \in RoomType /\ h.slot = gone.slot
        /\ h.phase = gone.phase /\ h.start = gone.start /\ h.race = gone.race
    BY <1>1, <1>2, NewHostType DEF RoomType
  <2> HIDE DEF h
  <2>3. /\ f \in RoomType
        /\ f.phase = gone.phase /\ f.start = gone.start /\ f.race = gone.race
        /\ \A j \in Slots \ {i} : f.slot[j] = gone.slot[j]
        /\ f.slot[i] = EmptyPlayer \/ f.slot[i] = gone.slot[i]
    BY <1>1, <2>2, EmptyPlayerType DEF RoomType
  <2> HIDE DEF f
  <2>4. i \notin Occupants(gone)  BY <1>2
  <2>5. Occupants(f) = Occupants(gone)
    BY <1>1, <2>3, <2>4, EmptyPlayerType DEF Occupants
  <2>6. CASE Occupants(f) # {}
    <3>1. \A j \in Occupants(f) : f.slot[j] = x.slot[j]
      BY <1>3, <2>3, <2>4, <2>5 DEF Occupants
    <3> QED  BY <1>2, <2>1, <2>3, <2>5, <2>6, <3>1
  <2>7. CASE Occupants(f) = {}
    <3> DEFINE b == begin_lobby(f)
    <3>1. /\ b \in RoomType /\ Occupants(b) = {} /\ b.race = fz_succ(x.race)
          /\ b.phase = FZ_LOBBY /\ b.start = 0
      BY <1>2, <2>3, <2>7, BeginLobbyFacts
    <3>2. l.slot = b.slot /\ l.race = b.race /\ l.phase = b.phase /\ l.start = b.start
      BY <3>1 DEF RoomType
    <3> HIDE DEF b, l
    <3>3. Occupants(l) = {}  BY <3>1, <3>2 DEF Occupants
    <3> QED  BY <1>2, <2>1, <2>5, <2>7, <3>1, <3>2, <3>3
  <2> QED  BY <2>6, <2>7
<1> QED  BY <1>4, <1>5

\* A departure, by LEAVE or by timeout.
LEMMA ReachedDrop ==
  ASSUME NEW r, NEW x, Reached(r, x), NEW i \in Occupants(x)
  PROVE  Reached(r, drop(x, i))
<1> DEFINE q == drop(x, i)
<1>1. x \in RoomType /\ RoomInv(x)  BY DEF Reached, RoomInv
<1>2. RoomInv(q)  BY <1>1, DropInv
<1>3. /\ Occupants(q) = Occupants(x) \ {i}
      /\ \/ /\ q.race = x.race /\ q.phase = x.phase /\ q.start = x.start
            /\ \A j \in Occupants(q) : q.slot[j] = x.slot[j]
         \/ /\ Occupants(q) = {}
            /\ q.race = fz_succ(x.race) /\ q.phase = FZ_LOBBY /\ q.start = 0
  BY <1>1, DropFacts
<1> HIDE DEF q
<1>4. CASE Stays(r, x)
  <2>1. Stays(r, q) \/ Fresh(r, q)  BY <1>3, <1>4 DEF Stays, Fresh
  <2> QED  BY <1>2, <2>1 DEF Reached, q
<1>5. CASE Fresh(r, x)
  <2>1. Fresh(r, q)  BY <1>3, <1>5 DEF Fresh
  <2> QED  BY <1>2, <2>1 DEF Reached, q
<1> QED  BY <1>4, <1>5 DEF Reached

\* The timeout loop of advance().
LEMMA ReachedDropSilent ==
  ASSUME NEW r, NEW x, Reached(r, x), NEW now
  PROVE  Reached(r, DropSilent(x, now))
<1>1. ASSUME NEW y, Reached(r, y), NEW i \in Slots PROVE Reached(r, DropIfSilent(y, i, now))
  BY <1>1, ReachedDrop DEF DropIfSilent, Occupants
<1>2. 0 \in Slots /\ 1 \in Slots /\ 2 \in Slots /\ 3 \in Slots  BY DEF Slots
<1> QED  BY <1>1, <1>2 DEF DropSilent

\* A valid command changes nothing but its player, the configuration, and in the countdown
\* the armed time.
LEMMA AssignStays ==
  ASSUME NEW r, RoomInv(r), NEW i \in Occupants(r), NEW c \in CommandType, Valid(r, i, c)
  PROVE  Stays(r, Assign(r, i, c))
<1> DEFINE b == r.slot[i]
<1>1. /\ i \in Slots /\ r \in RoomType /\ b \in PlayerType /\ occupied(b)
      /\ r.slot \in [Slots -> PlayerType]
  BY DEF RoomInv, RoomType, Occupants
<1>2. ASSUME NEW p \in PlayerType, 
             p.armed = b.armed \/ (r.phase = FZ_COUNTDOWN /\ p.armed = r.start)
      PROVE  Stays(r, [r EXCEPT !.slot[i] = p])
  <2> DEFINE q == [r EXCEPT !.slot[i] = p]
  <2>1. /\ q.race = r.race /\ q.phase = r.phase /\ q.start = r.start
        /\ q.slot = [r.slot EXCEPT ![i] = p]
    BY <1>1 DEF RoomType
  <2> HIDE DEF q
  <2>2. Occupants(q) \subseteq Occupants(r)  BY <1>1, <2>1 DEF Occupants
  <2>3. \A j \in Slots : q.slot[j] = IF j = i THEN p ELSE r.slot[j]  BY <1>1, <2>1
  <2>4. \A j \in Occupants(q) : \/ q.slot[j].armed = r.slot[j].armed
                                \/ r.phase = FZ_COUNTDOWN /\ q.slot[j].armed = r.start
    BY <1>2, <2>3 DEF Occupants
  <2> QED  BY <2>1, <2>2, <2>4 DEF Stays, q
<1>3. Stays(r, r)  BY DEF Stays
<1>4. CASE c.cmd = "SELECT"
  <2> DEFINE p == [b EXCEPT !.car = c.arg, !.status = FZ_SELECTED]
  <2>1. c.arg \in Cars  BY <1>4 DEF CommandType
  <2>2. p \in PlayerType /\ p.armed = b.armed  BY <1>1, <2>1, Zeros DEF PlayerType
  <2>3. Assign(r, i, c) = [r EXCEPT !.slot[i] = p]  BY <1>4 DEF Assign
  <2> QED  BY <1>2, <2>2, <2>3
<1>5. CASE c.cmd = "LOADED"
  <2> DEFINE p == [b EXCEPT !.pos = c.arg, !.status = FZ_PLAYER_LOADED]
  <2>1. c.arg \in Positions  BY <1>5 DEF CommandType
  <2>2. p \in PlayerType /\ p.armed = b.armed  BY <1>1, <2>1, Zeros DEF PlayerType
  <2>3. Assign(r, i, c) = [r EXCEPT !.slot[i] = p]  BY <1>5 DEF Assign
  <2> QED  BY <1>2, <2>2, <2>3
<1>6. CASE c.cmd = "ARM"
  <2> DEFINE p == [b EXCEPT !.armed = r.start]
  <2>1. r.phase = FZ_COUNTDOWN  BY <1>6 DEF Valid
  <2>2. p \in PlayerType /\ p.armed = r.start  BY <1>1 DEF PlayerType, RoomType
  <2>3. Assign(r, i, c) = [r EXCEPT !.slot[i] = p]  BY <1>6 DEF Assign
  <2> QED  BY <1>2, <2>1, <2>2, <2>3
<1>7. CASE c.cmd = "FINISH"
  <2> DEFINE p == [b EXCEPT !.pos = 0, !.status = FZ_FINISHED]
  <2>1. p \in PlayerType /\ p.armed = b.armed  BY <1>1, Zeros DEF PlayerType
  <2>2. Assign(r, i, c) = [r EXCEPT !.slot[i] = p]  BY <1>7 DEF Assign
  <2> QED  BY <1>2, <2>1, <2>2
<1>8. CASE c.cmd = "CONFIG"
  <2> DEFINE q == [r EXCEPT !.expected = c.arg[1], !.course = c.arg[2]]
  <2>1. Assign(r, i, c) = q  BY <1>8 DEF Assign
  <2>2. q.race = r.race /\ q.phase = r.phase /\ q.start = r.start /\ q.slot = r.slot
    BY <1>1 DEF RoomType
  <2> HIDE DEF q
  <2> QED  BY <2>1, <2>2 DEF Stays, Occupants
<1>9. CASE c.cmd \in {"NEXT", "LEAVE"}
  BY <1>3, <1>9 DEF Assign
<1> QED  BY <1>4, <1>5, <1>6, <1>7, <1>8, <1>9 DEF CommandType

\* The acknowledgement, too.
LEMMA AcknowledgeStays ==
  ASSUME NEW x, RoomInv(x), NEW i \in Occupants(x), NEW seq \in WireSeq, NEW now \in Times
  PROVE  Stays(x, Acknowledge(x, i, seq, now))
<1> DEFINE p == [x.slot[i] EXCEPT !.cmdSeq = seq, !.seen = now]
           q == [x EXCEPT !.slot[i] = p]
<1>1. i \in Slots /\ x \in RoomType /\ x.slot \in [Slots -> PlayerType]
  BY DEF RoomInv, RoomType, Occupants
<1>2. p.armed = x.slot[i].armed /\ (occupied(p) <=> occupied(x.slot[i]))
  BY <1>1 DEF PlayerType, occupied
<1>3. Acknowledge(x, i, seq, now) = q  BY DEF Acknowledge
<1> HIDE DEF p
<1>4. /\ q.race = x.race /\ q.phase = x.phase /\ q.start = x.start
      /\ q.slot = [x.slot EXCEPT ![i] = p]
  BY <1>1 DEF RoomType
<1> HIDE DEF q
<1>5. Occupants(q) \subseteq Occupants(x)  BY <1>1, <1>2, <1>4 DEF Occupants
<1>6. \A j \in Slots : q.slot[j].armed = x.slot[j].armed  BY <1>1, <1>2, <1>4
<1> QED  BY <1>3, <1>4, <1>5, <1>6 DEF Stays, Occupants

\* Two steps within the race are one.
LEMMA StaysTwice ==
  ASSUME NEW r, NEW x, NEW y, Stays(r, x), Stays(x, y)
  PROVE  Stays(r, y)
  BY DEF Stays

\* begin_lobby() makes a fresh lobby.
LEMMA BeginLobbyFresh ==
  ASSUME NEW r, NEW x, RoomInv(x), Stays(r, x)
  PROVE  Reached(r, begin_lobby(x))
<1> DEFINE q == begin_lobby(x)
<1>1. x \in RoomType  BY DEF RoomInv
<1>2. /\ Occupants(q) = Occupants(x)
      /\ q.phase = FZ_LOBBY /\ q.start = 0 /\ q.race = fz_succ(x.race)
  BY <1>1, BeginLobbyFacts
<1>3. \A i \in Occupants(x) : q.slot[i].status = FZ_JOINED
  <2> SUFFICES ASSUME NEW i \in Occupants(x) PROVE q.slot[i].status = FZ_JOINED  OBVIOUS
  <2>1. i \in Slots /\ occupied(x.slot[i]) /\ x.slot[i] \in PlayerType
    BY <1>1 DEF Occupants, RoomType
  <2>2. q.slot[i] = LobbyPlayer(x.slot[i])  BY <1>1, <2>1 DEF begin_lobby, RoomType
  <2> QED  BY <2>1, <2>2 DEF LobbyPlayer, PlayerType
<1>4. RoomInv(q)  BY BeginLobbyInv
<1> HIDE DEF q
<1>5. Fresh(r, q)  BY <1>2, <1>3 DEF Fresh, Stays
<1> QED  BY <1>4, <1>5 DEF Reached, q

\* A well-sequenced command, before advance().
LEMMA ExecuteReached ==
  ASSUME NEW r, RoomInv(r), NEW i \in Occupants(r), NEW c \in CommandType,
         NEW seq \in WireSeq, NEW now \in Times
  PROVE  Reached(r, Execute(r, i, c, seq, now))
<1>1. CASE ~Valid(r, i, c)
  BY <1>1, AcknowledgeStays, AcknowledgeInv DEF Execute, Reached
<1>2. CASE Valid(r, i, c)
  <2> DEFINE a == Assign(r, i, c)
             k == Acknowledge(a, i, seq, now)
  <2>1. RoomInv(a) /\ i \in Occupants(a) /\ Stays(r, a)  BY <1>2, AssignInv, AssignStays
  <2> HIDE DEF a
  <2>2. RoomInv(k) /\ i \in Occupants(k) /\ Stays(a, k)  BY <2>1, AcknowledgeInv, AcknowledgeStays
  <2> HIDE DEF k
  <2>3. Stays(r, k)  BY <2>1, <2>2, StaysTwice
  <2>4. Execute(r, i, c, seq, now) = Conclude(k, i, c)  BY <1>2 DEF Execute, a, k
  <2>5. Conclude(k, i, c) \in {begin_lobby(k), drop(k, i), k}  BY DEF Conclude
  <2>6. Reached(r, k)  BY <2>2, <2>3 DEF Reached
  <2> QED  BY <2>2, <2>3, <2>4, <2>5, <2>6, BeginLobbyFresh, ReachedDrop
<1> QED  BY <1>1, <1>2

-----------------------------------------------------------------------------
(* The transitions of advance().                                           *)

\* The race moves on to the next phase, at the time now, with the players of x.
Loads(r, q) ==
  /\ r.phase = FZ_LOBBY /\ q.phase = FZ_LOADING /\ q.race = r.race
  /\ Occupants(q) # {} /\ q.start = 0

Announces(r, q, now) ==
  /\ r.phase = FZ_LOADING /\ q.phase = FZ_COUNTDOWN /\ q.race = r.race
  /\ Occupants(q) \subseteq Occupants(r) /\ Occupants(q) # {}
  /\ q.start > now /\ Armed(q) = {}

PutsOff(r, q, now) ==
  /\ r.phase = FZ_COUNTDOWN /\ q.phase = FZ_COUNTDOWN /\ q.race = r.race
  /\ Occupants(q) \subseteq Occupants(r) /\ ~(Occupants(q) \subseteq Armed(r))
  /\ q.start > r.start /\ q.start > now /\ Armed(q) = {}

Goes(r, q, now) ==
  /\ r.phase = FZ_COUNTDOWN /\ q.phase = FZ_RACING /\ q.race = r.race
  /\ Occupants(q) \subseteq Occupants(r)
  /\ now >= r.start /\ q.start = r.start /\ Armed(q) = Occupants(q)

Ends(r, q) ==
  /\ r.phase = FZ_RACING /\ q.phase = FZ_RESULTS /\ q.race = r.race
  /\ Occupants(q) \subseteq Occupants(r) /\ q.start = r.start
  /\ Armed(q) = Armed(r) \cap Occupants(q)

Moves(r, q, now) ==
  \/ Stays(r, q) \/ Fresh(r, q) \/ Loads(r, q) \/ Announces(r, q, now)
  \/ PutsOff(r, q, now) \/ Goes(r, q, now) \/ Ends(r, q)

\* In a fresh lobby, and in a lobby or a race where nothing is due, no transition is made.
LEMMA FreshRests ==
  ASSUME NEW r, NEW x, RoomInv(x), Fresh(r, x), NEW now
  PROVE  EndRace(CountDown(StartCountdown(StartLoading(x), now), now)) = x
<1>1. StartLoading(x) = x  BY DEF Fresh, StartLoading, all_at_least
<1>2. x.phase = FZ_LOBBY  BY DEF Fresh
<1> QED  BY <1>1, <1>2 DEF StartCountdown, CountDown, EndRace

\* The transitions out of a lobby.
LEMMA LobbyMoves ==
  ASSUME NEW r, NEW x, RoomInv(x), Stays(r, x), x.phase = FZ_LOBBY, NEW now
  PROVE  Moves(r, EndRace(CountDown(StartCountdown(StartLoading(x), now), now)), now)
<1> DEFINE q == StartLoading(x)
<1>1. x \in RoomType /\ x.start = 0 /\ \A i \in Occupants(x) : x.slot[i].status \in {FZ_JOINED, FZ_SELECTED}
  BY StatusesByPhase DEF RoomInv, SlotOK, Occupants, RoomType
<1>2. CASE q = x
  <2>1. EndRace(CountDown(StartCountdown(q, now), now)) = x
    <3>1. StartCountdown(x, now) = x  BY DEF StartCountdown
    <3>2. CountDown(x, now) = x  BY DEF CountDown
    <3>3. EndRace(x) = x  BY DEF EndRace
    <3> QED  BY <1>2, <3>1, <3>2, <3>3
  <2> QED  BY <2>1 DEF Moves
<1>3. CASE q # x
  <2>1. q = [x EXCEPT !.phase = FZ_LOADING] /\ Occupants(x) # {}
    BY <1>3 DEF StartLoading, all_at_least
  <2>2. q.phase = FZ_LOADING /\ q.slot = x.slot /\ q.start = x.start /\ q.race = x.race
    BY <1>1, <2>1 DEF RoomType
  <2> HIDE DEF q
  <2>3. Occupants(q) = Occupants(x)  BY <2>2 DEF Occupants
  <2>4. ~all_at_least(q, FZ_PLAYER_LOADED)
    BY <1>1, <2>1, <2>2, <2>3 DEF all_at_least
  <2>5. EndRace(CountDown(StartCountdown(q, now), now)) = q
    BY <2>2, <2>4 DEF StartCountdown, CountDown, EndRace
  <2>6. Loads(r, q)  BY <1>1, <2>1, <2>2, <2>3 DEF Loads, Stays
  <2> QED  BY <2>5, <2>6 DEF Moves, q
<1> QED  BY <1>2, <1>3

\* The transition out of loading.
LEMMA LoadingMoves ==
  ASSUME NEW r, NEW x, RoomInv(x), Stays(r, x), x.phase = FZ_LOADING, NEW now \in Times
  PROVE  Moves(r, EndRace(CountDown(StartCountdown(StartLoading(x), now), now)), now)
<1> DEFINE q == StartCountdown(x, now)
<1>1. StartLoading(x) = x  BY DEF StartLoading
<1>2. x \in RoomType /\ x.slot \in [Slots -> PlayerType]  BY DEF RoomInv, RoomType
<1>3. CASE ~all_at_least(x, FZ_PLAYER_LOADED)
  <2>1. EndRace(CountDown(StartCountdown(x, now), now)) = x
    BY <1>3 DEF StartCountdown, CountDown, EndRace
  <2> QED  BY <1>1, <2>1 DEF Moves
<1>4. CASE all_at_least(x, FZ_PLAYER_LOADED)
  <2> DEFINE s == [i \in Slots |-> [x.slot[i] EXCEPT !.armed = 0]]
  <2>1. q = [x EXCEPT !.start = now + StartDelay, !.phase = FZ_COUNTDOWN, !.slot = s]
    BY <1>4 DEF StartCountdown
  <2>2. /\ q.phase = FZ_COUNTDOWN /\ q.slot = s /\ q.start = now + StartDelay /\ q.race = x.race
    BY <1>2, <2>1 DEF RoomType
  <2>3. \A i \in Slots : s[i].armed = 0 /\ s[i].status = x.slot[i].status
    BY <1>2 DEF PlayerType
  <2> HIDE DEF s, q
  <2>4. Occupants(q) = Occupants(x)  BY <2>2, <2>3 DEF Occupants, occupied
  <2>5. Occupants(x) # {}  BY <1>4 DEF all_at_least
  <2>6. now + StartDelay > now /\ now + StartDelay # 0 /\ ~(now + ArmMargin >= now + StartDelay)
    BY TimeAssumption, BoundAssumption DEF Times
  <2>7. Armed(q) = {}  BY <2>2, <2>3, <2>6 DEF Armed, Occupants
  <2>8. ~AllArmed(q)  BY <2>4, <2>5, <2>7 DEF AllArmed
  <2>9. CountDown(q, now) = q  BY <2>2, <2>6, <2>8 DEF CountDown
  <2>10. EndRace(q) = q  BY <2>2 DEF EndRace
  <2>11. Announces(r, q, now)  BY <2>2, <2>4, <2>5, <2>6, <2>7 DEF Announces, Stays
  <2> QED  BY <1>1, <2>9, <2>10, <2>11 DEF Moves, q
<1> QED  BY <1>3, <1>4

\* The transition out of the countdown, or the new start time.
LEMMA CountdownMoves ==
  ASSUME NEW r, RoomInv(r), NEW x, RoomInv(x), Stays(r, x), x.phase = FZ_COUNTDOWN, NEW now \in Times
  PROVE  Moves(r, EndRace(CountDown(StartCountdown(StartLoading(x), now), now)), now)
<1>1. StartCountdown(StartLoading(x), now) = x  BY DEF StartLoading, StartCountdown
<1>2. /\ x \in RoomType /\ x.slot \in [Slots -> PlayerType]
      /\ x.start \in Int /\ now \in Int
      /\ \A i \in Slots : x.slot[i].armed \in Int /\ x.slot[i].armed <= x.start
  <2>1. /\ x \in RoomType /\ x.slot \in [Slots -> PlayerType]
        /\ x.start \in 0 .. MaxClock + StartDelay
    BY DEF RoomInv, RoomType
  <2>2. x.start \in Int /\ now \in Int
    BY <2>1, BoundAssumption, TimeAssumption DEF Times
  <2>3. \A i \in Slots : x.slot[i].armed \in 0 .. MaxClock + StartDelay
    BY <2>1 DEF PlayerType
  <2>4. \A i \in Slots : x.slot[i].armed <= x.start
    BY DEF RoomInv, SlotOK
  <2> QED  BY <2>1, <2>2, <2>3, <2>4, BoundAssumption, TimeAssumption
<1>3. x.race = r.race /\ r.phase = FZ_COUNTDOWN /\ x.start = r.start /\ Occupants(x) \subseteq Occupants(r)
  BY DEF Stays
<1>4. CASE ~AllArmed(x) /\ now + ArmMargin >= x.start
  <2> DEFINE q == [x EXCEPT !.start = now + StartDelay]
  <2>1. CountDown(x, now) = q  BY <1>4 DEF CountDown
  <2>2. q.phase = FZ_COUNTDOWN /\ q.slot = x.slot /\ q.race = x.race /\ q.start = now + StartDelay
    BY <1>2 DEF RoomType
  <2> HIDE DEF q
  <2>3. Occupants(q) = Occupants(x)  BY <2>2 DEF Occupants
  <2>4. q.start > x.start /\ q.start > now  BY <1>2, <1>4, <2>2, TimeAssumption
  <2>5. Armed(q) = {}
    <3>1. \A i \in Slots : q.slot[i].armed # q.start  BY <1>2, <2>2, <2>4
    <3> QED  BY <3>1 DEF Armed, Occupants
  <2>6. ~(Occupants(x) \subseteq Armed(r))
    <3>1. PICK i \in Occupants(x) : x.slot[i].armed # x.start  BY <1>4 DEF AllArmed, Armed
    <3>2. r.slot[i].armed # r.start  BY <1>3, <3>1 DEF Stays
    <3> QED  BY <3>1, <3>2 DEF Armed
  <2>7. EndRace(q) = q  BY <2>2 DEF EndRace
  <2>8. PutsOff(r, q, now)  BY <1>3, <2>2, <2>3, <2>4, <2>5, <2>6 DEF PutsOff
  <2> QED  BY <1>1, <2>1, <2>7, <2>8 DEF Moves
<1>5. CASE AllArmed(x) /\ now >= x.start
  <2> DEFINE q == StartRacing(x)
  <2>1. CountDown(x, now) = q  BY <1>5 DEF CountDown
  <2>2. /\ Occupants(q) = Occupants(x)
        /\ q.phase = FZ_RACING /\ q.start = x.start /\ q.race = x.race
        /\ \A i \in Slots : /\ q.slot[i].armed = x.slot[i].armed
                            /\ q.slot[i].status = IF occupied(x.slot[i]) THEN FZ_PLAYER_RACING
                                                  ELSE x.slot[i].status
    BY <1>2, StartRacingFacts
  <2> HIDE DEF q
  <2>3. ~all_at_least(q, FZ_FINISHED)  BY <2>2 DEF all_at_least, Occupants
  <2>4. EndRace(q) = q  BY <2>3 DEF EndRace
  <2>5. Armed(q) = Occupants(q)  BY <1>5, <2>2 DEF AllArmed, Armed, Occupants
  <2>6. Goes(r, q, now)  BY <1>3, <1>5, <2>2, <2>5 DEF Goes
  <2> QED  BY <1>1, <2>1, <2>4, <2>6 DEF Moves
<1>6. CASE ~(~AllArmed(x) /\ now + ArmMargin >= x.start) /\ ~(AllArmed(x) /\ now >= x.start)
  <2>1. CountDown(x, now) = x  BY <1>6 DEF CountDown
  <2>2. EndRace(x) = x  BY DEF EndRace
  <2> QED  BY <1>1, <2>1, <2>2 DEF Moves
<1> QED  BY <1>4, <1>5, <1>6

\* The transition to the results.
LEMMA RaceMoves ==
  ASSUME NEW r, NEW x, RoomInv(x), Stays(r, x), x.phase \in {FZ_RACING, FZ_RESULTS}, NEW now
  PROVE  Moves(r, EndRace(CountDown(StartCountdown(StartLoading(x), now), now)), now)
<1>1. CountDown(StartCountdown(StartLoading(x), now), now) = x
  <2>1. StartLoading(x) = x  BY DEF StartLoading
  <2>2. StartCountdown(x, now) = x  BY DEF StartCountdown
  <2>3. CountDown(x, now) = x  BY DEF CountDown
  <2> QED  BY <2>1, <2>2, <2>3
<1>2. CASE EndRace(x) = x  BY <1>1, <1>2 DEF Moves
<1>3. CASE EndRace(x) # x
  <2> DEFINE q == [x EXCEPT !.phase = FZ_RESULTS]
  <2>1. EndRace(x) = q /\ x.phase = FZ_RACING  BY <1>3 DEF EndRace
  <2>2. q.phase = FZ_RESULTS /\ q.slot = x.slot /\ q.race = x.race /\ q.start = x.start
    BY DEF RoomInv, RoomType
  <2> HIDE DEF q
  <2>3. Occupants(q) = Occupants(x) /\ Armed(q) = Armed(x)  BY <2>2 DEF Occupants, Armed
  <2>4. Armed(x) = Armed(r) \cap Occupants(x)  BY <2>1 DEF Stays, Armed
  <2>5. Ends(r, q)  BY <2>1, <2>2, <2>3, <2>4 DEF Ends, Stays
  <2> QED  BY <1>1, <2>1, <2>5 DEF Moves
<1> QED  BY <1>2, <1>3

\* advance() makes at most one move of the race.
LEMMA AdvanceMoves ==
  ASSUME NEW r, RoomInv(r), NEW x, Reached(r, x), NEW now \in Times
  PROVE  Moves(r, advance(x, now), now)
<1> DEFINE k == DropSilent(x, now)
<1>1. Reached(r, k)  BY ReachedDropSilent
<1> HIDE DEF k
<1>2. advance(x, now) = IF k.closed THEN k
                        ELSE EndRace(CountDown(StartCountdown(StartLoading(k), now), now))
  BY DEF advance, k
<1>3. CASE k.closed  BY <1>1, <1>2, <1>3 DEF Reached, Moves
<1>4. CASE ~k.closed /\ Fresh(r, k)  BY <1>1, <1>2, <1>4, FreshRests DEF Reached, Moves
<1>5. CASE ~k.closed /\ Stays(r, k)
  <2>1. RoomInv(k)  BY <1>1 DEF Reached
  <2>2. k.phase \in {FZ_LOBBY, FZ_LOADING, FZ_COUNTDOWN, FZ_RACING, FZ_RESULTS}
    BY <2>1 DEF RoomInv, RoomType, Phases
  <2> QED  BY <1>2, <1>5, <2>1, <2>2, LobbyMoves, LoadingMoves, CountdownMoves, RaceMoves
<1> QED  BY <1>1, <1>3, <1>4, <1>5 DEF Reached

\* The summary's PINGs are not seen in the race.
LEMMA SummaryMoves ==
  ASSUME NEW r, NEW x, x \in RoomType, NEW now, Moves(r, x, now)
  PROVE  Moves(r, Summary(x), now)
<1> DEFINE q == Summary(x)
           s == [i \in Slots |-> IF occupied(x.slot[i])
                                 THEN [x.slot[i] EXCEPT !.ping = TRUE] ELSE x.slot[i]]
<1>1. q.race = x.race /\ q.phase = x.phase /\ q.start = x.start /\ q.slot = s
  BY DEF Summary, RoomType
<1>2. \A i \in Slots : s[i].armed = x.slot[i].armed /\ s[i].status = x.slot[i].status
  BY DEF RoomType, PlayerType
<1> HIDE DEF q, s
<1>3. Occupants(q) = Occupants(x)  BY <1>1, <1>2 DEF Occupants, occupied
<1>4. Armed(q) = Armed(x)  BY <1>1, <1>2, <1>3 DEF Armed, Occupants
<1>5. Stays(r, x) => Stays(r, q)  BY <1>1, <1>2, <1>3 DEF Stays, Occupants
<1>6. Fresh(r, x) => Fresh(r, q)  BY <1>1, <1>2, <1>3 DEF Fresh, Occupants
<1>7. Loads(r, x) => Loads(r, q)  BY <1>1, <1>3 DEF Loads
<1>8. Announces(r, x, now) => Announces(r, q, now)  BY <1>1, <1>3, <1>4 DEF Announces
<1>9. PutsOff(r, x, now) => PutsOff(r, q, now)  BY <1>1, <1>3, <1>4 DEF PutsOff
<1>10. Goes(r, x, now) => Goes(r, q, now)  BY <1>1, <1>3, <1>4 DEF Goes
<1>11. Ends(r, x) => Ends(r, q)  BY <1>1, <1>3, <1>4 DEF Ends
<1> QED  BY <1>5, <1>6, <1>7, <1>8, <1>9, <1>10, <1>11 DEF Moves, q

-----------------------------------------------------------------------------
(* The refinement.                                                         *)

\* Two races on is another race.
LEMMA TwoRacesOn ==
  ASSUME NEW a \in WireSeq
  PROVE  fz_succ(fz_succ(a)) # a
  BY SeqModAssumption DEF WireSeq, fz_succ

\* The moves are those of StartBarrier.
LEMMA MoveIsStep ==
  ASSUME RoomInv(room), RoomInv(room'), clock' = clock, Moves(room, room', clock)
  PROVE  Barrier!Next
<1> USE DEF Barrier!FZ_LOBBY, Barrier!FZ_LOADING, Barrier!FZ_COUNTDOWN, Barrier!FZ_RACING, Barrier!FZ_RESULTS
<1>1. /\ room.race \in WireSeq
      /\ room.start # 0 <=> room.phase >= FZ_COUNTDOWN
      /\ room'.start # 0 <=> room'.phase >= FZ_COUNTDOWN
      /\ room.phase \in {FZ_LOBBY, FZ_LOADING, FZ_COUNTDOWN, FZ_RACING, FZ_RESULTS}
  BY DEF RoomInv, RoomType, Phases
<1>2. CASE Fresh(room, room')
  <2>1. room'.race # room.race  BY <1>1, <1>2, WireSucc, TwoRacesOn DEF Fresh
  <2>2. Barrier!Again  BY <1>2, <2>1 DEF Barrier!Again, Fresh
  <2> QED  BY <2>2 DEF Barrier!Next
<1>3. CASE Stays(room, room')
  <2>1. CASE room.phase = FZ_LOBBY
    <3>1. Occupants(room') \subseteq Slots  BY DEF Occupants
    <3>2. Barrier!Gather  BY <1>1, <1>3, <2>1, <3>1 DEF Barrier!Gather, Barrier!Slots, Slots, Stays
    <3> QED  BY <3>2 DEF Barrier!Next
  <2>2. CASE room.phase = FZ_LOADING
    <3>1. Barrier!Load  BY <1>1, <1>3, <2>2 DEF Barrier!Load, Barrier!GoesOn, Stays
    <3> QED  BY <3>1 DEF Barrier!Next
  <2>3. CASE room.phase = FZ_COUNTDOWN
    <3>1. /\ Armed(room) \cap Occupants(room') \subseteq Armed(room')
          /\ Armed(room') \subseteq Occupants(room')
      BY <1>3 DEF Stays, Armed
    <3>2. Barrier!Agree  BY <1>1, <1>3, <2>3, <3>1 DEF Barrier!Agree, Barrier!GoesOn, Stays
    <3> QED  BY <3>2 DEF Barrier!Next
  <2>4. CASE room.phase \in {FZ_RACING, FZ_RESULTS}
    <3>1. Armed(room') = Armed(room) \cap Occupants(room')  BY <1>3, <2>4 DEF Stays, Armed
    <3>2. Barrier!Race  BY <1>1, <1>3, <2>4, <3>1 DEF Barrier!Race, Barrier!GoesOn, Stays
    <3> QED  BY <3>2 DEF Barrier!Next
  <2> QED  BY <1>1, <2>1, <2>2, <2>3, <2>4
<1>4. CASE Loads(room, room')
  <2>1. Occupants(room') \subseteq Slots  BY DEF Occupants
  <2>2. Barrier!Gather  BY <1>1, <1>4, <2>1 DEF Barrier!Gather, Barrier!Slots, Slots, Loads
  <2> QED  BY <2>2 DEF Barrier!Next
<1>5. CASE Announces(room, room', clock)
  <2>1. Barrier!Announce  BY <1>1, <1>5 DEF Barrier!Announce, Barrier!GoesOn, Announces
  <2> QED  BY <2>1 DEF Barrier!Next
<1>6. CASE PutsOff(room, room', clock)
  <2>1. Barrier!PutOff  BY <1>1, <1>6 DEF Barrier!PutOff, Barrier!GoesOn, PutsOff
  <2> QED  BY <2>1 DEF Barrier!Next
<1>7. CASE Goes(room, room', clock)
  <2>1. Barrier!Go  BY <1>1, <1>7 DEF Barrier!Go, Barrier!GoesOn, Goes
  <2> QED  BY <2>1 DEF Barrier!Next
<1>8. CASE Ends(room, room')
  <2>1. Barrier!Race  BY <1>1, <1>8 DEF Barrier!Race, Barrier!GoesOn, Ends
  <2> QED  BY <2>1 DEF Barrier!Next
<1> QED  BY <1>2, <1>3, <1>4, <1>5, <1>6, <1>7, <1>8 DEF Moves

\* A change of one player that is neither a status nor an armed time.
LEMMA SlotStays ==
  ASSUME NEW r \in RoomType, NEW i \in Slots, NEW p,
         p.status = r.slot[i].status, p.armed = r.slot[i].armed
  PROVE  Stays(r, [r EXCEPT !.slot[i] = p])
<1> DEFINE q == [r EXCEPT !.slot[i] = p]
<1>1. r.slot \in [Slots -> PlayerType]  BY DEF RoomType
<1>2. q.race = r.race /\ q.phase = r.phase /\ q.start = r.start /\ q.slot = [r.slot EXCEPT ![i] = p]
  BY DEF RoomType
<1> HIDE DEF q
<1>3. \A j \in Slots : q.slot[j].status = r.slot[j].status /\ q.slot[j].armed = r.slot[j].armed
  BY <1>1, <1>2
<1>4. Occupants(q) = Occupants(r)  BY <1>3 DEF Occupants, occupied
<1> QED  BY <1>2, <1>3, <1>4 DEF Stays, Occupants, q

\* Every step of the server is a step of StartBarrier, or none.
LEMMA BarrierStep ==
  ASSUME ServerInv, ServerInv', [Next]_serverVars
  PROVE  [Barrier!Next]_<<clock, Barrier!raceVars>>
<1>1. room \in RoomType /\ clock \in Times /\ RoomInv(room) /\ RoomInv(room')
  BY DEF ServerInv, RoomInv
<1>2. ASSUME clock' = clock, Stays(room, room') PROVE Barrier!Next
  BY <1>1, <1>2, MoveIsStep DEF Moves
<1>3. ASSUME NEW m \in Hellos, ReceiveHello(m) PROVE Barrier!Next
  <2>1. PICK token \in {0} \cup (IF issued < MaxTokens THEN {issued + 1} ELSE {}) :
          room' = Hello(room, m, token, clock)
    BY <1>3 DEF ReceiveHello
  <2>2. clock' = clock  BY <1>3 DEF ReceiveHello
  <2>3. CASE ~Joins(room, m)
    <3>1. room' = room  BY <2>1, <2>3 DEF Hello
    <3> QED  BY <1>2, <2>2, <3>1 DEF Stays
  <2>4. CASE Joins(room, m)
    <3>1. room.phase = FZ_LOBBY  BY <2>4 DEF Joins, HelloReject
    <3>2. room' = Join(room, m, token, clock)  BY <2>1, <2>4 DEF Hello
    <3>3. room'.phase = room.phase /\ room'.race = room.race /\ room'.start = room.start
      BY <1>1, <3>2 DEF Join, RoomType
    <3>4. room.start = 0 /\ Occupants(room') \subseteq Slots
      BY <1>1, <3>1 DEF RoomInv, Occupants
    <3>5. Barrier!Gather
      BY <2>2, <3>1, <3>3, <3>4 DEF Barrier!Gather, Barrier!Slots, Slots, Barrier!FZ_LOBBY, Barrier!FZ_LOADING
    <3> QED  BY <3>5 DEF Barrier!Next
  <2> QED  BY <2>3, <2>4
<1>4. ASSUME NEW i \in Slots, ReceivePing(i) PROVE Barrier!Next
  <2> DEFINE p == [room.slot[i] EXCEPT !.seen = clock]
  <2>1. p.status = room.slot[i].status /\ p.armed = room.slot[i].armed
    BY <1>1 DEF RoomType, PlayerType
  <2>2. room' = [room EXCEPT !.slot[i] = p] /\ clock' = clock
    BY <1>4 DEF ReceivePing, Receive, Ping
  <2> HIDE DEF p
  <2> QED  BY <1>1, <1>2, <2>1, <2>2, SlotStays
<1>5. ASSUME NEW i \in Slots, NEW echoes \in BOOLEAN, ReceivePong(i, echoes) PROVE Barrier!Next
  <2> DEFINE p == [room.slot[i] EXCEPT !.ping = FALSE, !.seen = clock]
  <2>1. p.status = room.slot[i].status /\ p.armed = room.slot[i].armed
    BY <1>1 DEF RoomType, PlayerType
  <2>2. room' \in {room, [room EXCEPT !.slot[i] = p]} /\ clock' = clock
    BY <1>5 DEF ReceivePong, Receive, Pong
  <2> HIDE DEF p
  <2>3. Stays(room, room)  BY DEF Stays
  <2> QED  BY <1>1, <1>2, <2>1, <2>2, <2>3, SlotStays
<1>6. ASSUME NEW i \in Slots, NEW m \in States(room, i), ReceiveState(i, m) PROVE Barrier!Next
  <2> DEFINE p == [room.slot[i] EXCEPT !.stateSeq = m.seq, !.pos = m.pos, !.seen = clock]
  <2>1. p.status = room.slot[i].status /\ p.armed = room.slot[i].armed
    BY <1>1 DEF RoomType, PlayerType
  <2>2. room' \in {room, [room EXCEPT !.slot[i] = p]} /\ clock' = clock
    BY <1>6 DEF ReceiveState, Receive, State
  <2> HIDE DEF p
  <2>3. Stays(room, room)  BY DEF Stays
  <2> QED  BY <1>1, <1>2, <2>1, <2>2, <2>3, SlotStays
<1>7. ASSUME NEW i \in Slots, NEW m \in CommandPackets(room, i), ReceiveCommand(i, m)
      PROVE  Barrier!Next
  <2>1. room.start \in Nat  BY <1>1, BoundAssumption, TimeAssumption DEF RoomType
  <2>2. room.slot[i].cmdSeq \in WireSeq  BY <1>1 DEF RoomType, PlayerType
  <2>3. m.seq \in WireSeq /\ m.c \in Commands(room)
    BY <2>2, WireSucc DEF CommandPackets, SeqsNear, Commands
  <2>4. m.c \in CommandType  BY <2>1, <2>3 DEF Commands, CommandType
  <2>5. i \in Occupants(room) /\ clock' = clock  BY <1>7 DEF ReceiveCommand, Receive, Occupants
  <2>6. Reached(room, Execute(room, i, m.c, m.seq, clock))
    BY <1>1, <2>3, <2>4, <2>5, ExecuteReached
  <2>7. room' \in {room, advance(Execute(room, i, m.c, m.seq, clock), clock)}
    BY <1>7 DEF ReceiveCommand, Receive, Command
  <2>8. Moves(room, room', clock)
    <3>1. Stays(room, room)  BY DEF Stays
    <3> QED  BY <1>1, <2>6, <2>7, <3>1, AdvanceMoves DEF Moves
  <2> QED  BY <1>1, <2>5, <2>8, MoveIsStep
<1>8. ASSUME NEW tick \in BOOLEAN, NEW summary \in BOOLEAN, PollTail(tick, summary)
      PROVE  Barrier!Next
  <2> DEFINE t == IF tick THEN advance(room, clock) ELSE room
  <2>1. Stays(room, room)  BY DEF Stays
  <2>2. Moves(room, t, clock)
    BY <1>1, <2>1, AdvanceMoves DEF Moves, Reached
  <2>3. t \in RoomType  BY <1>1, AdvanceInv DEF RoomInv
  <2>4. room' = (IF summary THEN Summary(t) ELSE t) /\ clock' = clock  BY <1>8 DEF PollTail
  <2> HIDE DEF t
  <2>5. Moves(room, room', clock)  BY <2>2, <2>3, <2>4, SummaryMoves
  <2> QED  BY <1>1, <2>4, <2>5, MoveIsStep
<1>9. CASE Close
  <2>1. /\ room'.race = room.race /\ room'.phase = room.phase /\ room'.start = room.start
        /\ room'.slot = room.slot /\ clock' = clock
    BY <1>1, <1>9 DEF Close, RoomType
  <2>2. Stays(room, room')  BY <2>1 DEF Stays, Occupants
  <2> QED  BY <1>2, <2>1, <2>2
<1>10. CASE PassTime
  <2>1. clock' > clock /\ room' = room  BY <1>1, <1>10, BoundAssumption DEF PassTime, Times
  <2>2. Barrier!PassTime  BY <2>1 DEF Barrier!PassTime, Barrier!raceVars
  <2> QED  BY <2>2 DEF Barrier!Next
<1>11. CASE UNCHANGED serverVars
  <2>1. clock' = clock /\ room' = room  BY <1>11 DEF serverVars
  <2> QED  BY <2>1 DEF Barrier!raceVars
<1> QED  BY <1>3, <1>4, <1>5, <1>6, <1>7, <1>8, <1>9, <1>10, <1>11 DEF Next

\* A new server has an empty lobby.
LEMMA BarrierInit == ASSUME Init PROVE Barrier!Init
<1>1. ServerInv  BY InitInv
<1>2. room.race \in WireSeq /\ clock \in Nat  BY <1>1, BoundAssumption DEF ServerInv, RoomInv, RoomType, Times
<1>3. room.phase = FZ_LOBBY /\ room.start = 0 /\ \A i \in Slots : room.slot[i] = EmptyPlayer
  BY DEF Init, InitialRoom
<1>4. Occupants(room) = {}  BY <1>3, EmptyPlayerType DEF Occupants
<1> QED  BY <1>2, <1>3, <1>4 DEF Barrier!Init, Barrier!WireSeq, WireSeq, Barrier!FZ_LOBBY

\* The server keeps the promise about the start of a race that StartBarrier states, for any
\* number of endpoints, any timing constants, and whatever packets arrive: nobody joins after
\* the lobby, the start is put off only while somebody has not armed, and it comes for all
\* the players who are left at the time they have armed for.
THEOREM ServerImplementsBarrier == Spec => StartsTogether
<1>1. ServerInv /\ ServerInv' /\ [Next]_serverVars => [Barrier!Next]_<<clock, Barrier!raceVars>>
  BY BarrierStep
<1>2. Init => Barrier!Init  BY BarrierInit
<1> QED  BY <1>1, <1>2, ServerInvariant, PTL DEF Spec, StartsTogether, Barrier!Spec
=============================================================================
