---------------------------- MODULE PlayerProofs ----------------------------
(***************************************************************************)
(* Proofs about who the players of a room are: no endpoint and no token    *)
(* belongs to two of them, and the owner of a hosted room is its host.     *)
(*                                                                         *)
(* Only a HELLO brings a player in. All the other handlers leave a part of *)
(* the players with their identities (Held): most functions leave all of   *)
(* them and the host (SameCrew), drop() takes one out.                     *)
(***************************************************************************)
EXTENDS RaceServerProofs

USE DEF FZ_LOBBY, FZ_LOADING, FZ_COUNTDOWN, FZ_RACING, FZ_RESULTS,
        FZ_EMPTY, FZ_JOINED, FZ_SELECTED, FZ_PLAYER_LOADED, FZ_PLAYER_RACING,
        FZ_FINISHED, FZ_DISCONNECTED

\* Two records of one player.
SameId(p, q) == p.addr = q.addr /\ p.nonce = q.nonce /\ p.token = q.token

\* OwnerIsHost as a predicate of a room.
OwnerOK(r) ==
  r.owner # 0 /\ ~r.closed /\ Occupants(r) # {} =>
    0 \in Occupants(r) /\ r.slot[0].nonce = r.owner /\ r.host = 0

\* The room q has the players, the host and the owner of x.
SameCrew(x, q) ==
  /\ q.owner = x.owner /\ q.closed = x.closed /\ q.host = x.host
  /\ Occupants(q) = Occupants(x)
  /\ \A i \in Occupants(x) : SameId(q.slot[i], x.slot[i])

\* What a handler has made of the room r so far: x, with some of its players.
Held(r, x) ==
  /\ RoomInv(x) /\ OwnerOK(x)
  /\ Occupants(x) \subseteq Occupants(r)
  /\ \A i \in Occupants(x) : SameId(x.slot[i], r.slot[i])

\* A function that keeps the players keeps what holds of them.
LEMMA CrewHeld ==
  ASSUME NEW r, NEW x, Held(r, x), NEW q, RoomInv(q), SameCrew(x, q)
  PROVE  Held(r, q)
<1>1. OwnerOK(q)  BY DEF Held, SameCrew, OwnerOK, SameId
<1> QED  BY <1>1 DEF Held, SameCrew, SameId

\* Replacing the record of a player by another one of the same player.
LEMMA SlotCrew ==
  ASSUME NEW x \in RoomType, NEW i \in Occupants(x), NEW p, occupied(p), SameId(p, x.slot[i])
  PROVE  SameCrew(x, [x EXCEPT !.slot[i] = p])
<1> DEFINE q == [x EXCEPT !.slot[i] = p]
<1>1. i \in Slots /\ occupied(x.slot[i]) /\ x.slot \in [Slots -> PlayerType]  BY DEF Occupants, RoomType
<1>2. q.owner = x.owner /\ q.closed = x.closed /\ q.host = x.host /\ q.slot = [x.slot EXCEPT ![i] = p]
  BY DEF RoomType
<1> HIDE DEF q
<1>3. \A j \in Slots : q.slot[j] = IF j = i THEN p ELSE x.slot[j]  BY <1>1, <1>2
<1>4. Occupants(q) = Occupants(x)  BY <1>1, <1>3 DEF Occupants
<1>5. \A j \in Occupants(x) : SameId(q.slot[j], x.slot[j])  BY <1>3 DEF Occupants, SameId
<1> QED  BY <1>2, <1>4, <1>5 DEF SameCrew, q

\* Replacing all records.
LEMMA SlotsCrew ==
  ASSUME NEW x \in RoomType, NEW q, q.owner = x.owner, q.closed = x.closed, q.host = x.host,
         \A i \in Slots : (occupied(q.slot[i]) <=> occupied(x.slot[i]))
                          /\ (occupied(x.slot[i]) => SameId(q.slot[i], x.slot[i]))
  PROVE  SameCrew(x, q)
<1>1. Occupants(q) = Occupants(x)  BY DEF Occupants
<1> QED  BY <1>1 DEF SameCrew, Occupants

-----------------------------------------------------------------------------

\* A player leaves. The owner of a hosted room closes it; a guest is not its host.
LEMMA DropHeld ==
  ASSUME NEW r, NEW x, Held(r, x), NEW i \in Occupants(x)
  PROVE  Held(r, drop(x, i))
<1> DEFINE gone == Disconnect(x, i)
           out  == drop(x, i)
<1>1. /\ x \in RoomType /\ i \in Slots /\ x.slot \in [Slots -> PlayerType] /\ OwnerOK(x)
      /\ Occupants(x) \subseteq Occupants(r)
      /\ \A j \in Occupants(x) : SameId(x.slot[j], r.slot[j])
  BY DEF Held, RoomInv, RoomType, Occupants
<1>2. /\ gone \in RoomType /\ Occupants(gone) = Occupants(x) \ {i}
      /\ gone.phase = x.phase /\ gone.host = x.host /\ gone.closed = x.closed
  BY <1>1, DisconnectFacts
<1>3. gone.owner = x.owner /\ \A j \in Slots \ {i} : gone.slot[j] = x.slot[j]
  BY <1>1 DEF Disconnect, RoomType
<1>4. RoomInv(out)  BY DropInv DEF Held
<1>5. ASSUME Occupants(out) \subseteq Occupants(x) \ {i}, OwnerOK(out),
             \A j \in Occupants(out) : SameId(out.slot[j], x.slot[j])
      PROVE  Held(r, out)
  <2> HIDE DEF out
  <2> QED  BY <1>1, <1>4, <1>5 DEF Held, SameId
<1> HIDE DEF gone
<1>6. CASE x.owner # 0 /\ i = 0
  <2> DEFINE q == [gone EXCEPT !.closed = TRUE]
  <2>1. out = q  BY <1>6 DEF drop, gone
  <2>2. q.slot = gone.slot /\ q.closed = TRUE  BY <1>2 DEF RoomType
  <2> HIDE DEF q
  <2>3. Occupants(q) = Occupants(gone)  BY <2>2 DEF Occupants
  <2>4. \A j \in Occupants(q) : SameId(q.slot[j], x.slot[j])
    BY <1>1, <1>2, <1>3, <2>2, <2>3 DEF Occupants, SameId
  <2>5. OwnerOK(q)  BY <2>2 DEF OwnerOK
  <2> HIDE DEF out
  <2>6. Held(r, out)  BY <1>2, <1>5, <2>1, <2>3, <2>4, <2>5
  <2> QED  BY <2>6 DEF out
<1>7. CASE ~(x.owner # 0 /\ i = 0)
  <2> DEFINE h == [gone EXCEPT !.host = NewHost(gone, i)]
             f == IF gone.phase = FZ_LOBBY THEN [h EXCEPT !.slot[i] = EmptyPlayer] ELSE h
             l == [begin_lobby(f) EXCEPT !.host = NoHost]
  <2>1. out = IF Occupants(f) = {} THEN l ELSE f  BY <1>7 DEF drop, Release, gone
  <2>2. /\ h \in RoomType /\ h.slot = gone.slot /\ h.owner = gone.owner /\ h.closed = gone.closed
        /\ h.host = NewHost(gone, i)
    BY <1>1, <1>2, NewHostType DEF RoomType
  <2> HIDE DEF h
  <2>3. /\ f \in RoomType /\ f.owner = h.owner /\ f.closed = h.closed /\ f.host = h.host
        /\ \A j \in Slots \ {i} : f.slot[j] = gone.slot[j]
        /\ f.slot[i] = EmptyPlayer \/ f.slot[i] = gone.slot[i]
    BY <1>1, <2>2, EmptyPlayerType DEF RoomType
  <2> HIDE DEF f
  <2>4. Occupants(f) = Occupants(gone)
    BY <1>1, <1>2, <2>3, EmptyPlayerType DEF Occupants
  <2>5. \A j \in Occupants(f) : j # i /\ f.slot[j] = x.slot[j]
    BY <1>2, <1>3, <2>3, <2>4 DEF Occupants
  <2>6. CASE Occupants(f) # {}
    <3>1. OwnerOK(f)
      <4> SUFFICES ASSUME f.owner # 0, ~f.closed
                   PROVE  0 \in Occupants(f) /\ f.slot[0].nonce = f.owner /\ f.host = 0
        BY DEF OwnerOK
      <4>1. x.owner # 0 /\ ~x.closed /\ x.owner = f.owner  BY <1>2, <1>3, <2>2, <2>3
      <4>2. 0 \in Occupants(x) /\ x.slot[0].nonce = x.owner /\ x.host = 0  BY <1>1, <4>1 DEF OwnerOK
      <4>3. i # 0  BY <1>7, <4>1
      <4>4. 0 \in Occupants(f)  BY <1>2, <2>4, <4>2, <4>3
      <4>5. f.host = 0  BY <1>2, <2>2, <2>3, <4>2, <4>3 DEF NewHost
      <4> QED  BY <2>5, <4>1, <4>2, <4>4, <4>5
    <3>2. out = f  BY <2>1, <2>6
    <3> HIDE DEF out
    <3>3. Held(r, out)  BY <1>2, <1>5, <2>4, <2>5, <3>1, <3>2 DEF SameId
    <3> QED  BY <3>3 DEF out
  <2>7. CASE Occupants(f) = {}
    <3> DEFINE b == begin_lobby(f)
    <3>1. b \in RoomType /\ Occupants(b) = {}  BY <2>3, <2>7, BeginLobbyFacts
    <3>2. l.slot = b.slot  BY <3>1 DEF RoomType
    <3> HIDE DEF b, l
    <3>3. Occupants(l) = {}  BY <3>1, <3>2 DEF Occupants
    <3>4. OwnerOK(l)  BY <3>3 DEF OwnerOK
    <3>5. out = l  BY <2>1, <2>7
    <3> HIDE DEF out
    <3>6. Held(r, out)  BY <1>5, <3>3, <3>4, <3>5
    <3> QED  BY <3>6 DEF out
  <2> QED  BY <2>6, <2>7
<1> QED  BY <1>6, <1>7

\* The timeout loop of advance().
LEMMA DropSilentHeld ==
  ASSUME NEW r, NEW x, Held(r, x), NEW now
  PROVE  Held(r, DropSilent(x, now))
<1>1. ASSUME NEW y, Held(r, y), NEW i \in Slots PROVE Held(r, DropIfSilent(y, i, now))
  BY <1>1, DropHeld DEF DropIfSilent, Occupants
<1>2. 0 \in Slots /\ 1 \in Slots /\ 2 \in Slots /\ 3 \in Slots  BY DEF Slots
<1> QED  BY <1>1, <1>2 DEF DropSilent

\* begin_lobby() keeps the players.
LEMMA BeginLobbyCrew ==
  ASSUME NEW x \in RoomType
  PROVE  SameCrew(x, begin_lobby(x))
<1> DEFINE q == begin_lobby(x)
<1>1. x.slot \in [Slots -> PlayerType]  BY DEF RoomType
<1>2. q.closed = x.closed /\ q.host = x.host  BY BeginLobbyFacts
<1>3. q.owner = x.owner /\ \A i \in Slots : q.slot[i] = LobbyPlayer(x.slot[i])
  BY DEF begin_lobby, RoomType
<1>4. ASSUME NEW p \in PlayerType, occupied(p) PROVE SameId(LobbyPlayer(p), p)
  BY <1>4 DEF LobbyPlayer, SameId, PlayerType
<1> HIDE DEF q
<1>5. \A i \in Slots : (occupied(q.slot[i]) <=> occupied(x.slot[i]))
                       /\ (occupied(x.slot[i]) => SameId(q.slot[i], x.slot[i]))
  BY <1>1, <1>3, <1>4, LobbyPlayerType
<1> QED  BY <1>2, <1>3, <1>5, SlotsCrew DEF q

\* A change of phase or of the start time keeps the players.
LEMMA PhaseCrew ==
  ASSUME NEW x \in RoomType, NEW ph, NEW st
  PROVE  /\ SameCrew(x, [x EXCEPT !.phase = ph])
         /\ SameCrew(x, [x EXCEPT !.start = st])
<1> DEFINE q == [x EXCEPT !.phase = ph]
           s == [x EXCEPT !.start = st]
<1>1. q.owner = x.owner /\ q.closed = x.closed /\ q.host = x.host /\ q.slot = x.slot  BY DEF RoomType
<1>2. s.owner = x.owner /\ s.closed = x.closed /\ s.host = x.host /\ s.slot = x.slot  BY DEF RoomType
<1> HIDE DEF q, s
<1>3. SameCrew(x, q)  BY <1>1, SlotsCrew DEF SameId
<1>4. SameCrew(x, s)  BY <1>2, SlotsCrew DEF SameId
<1> QED  BY <1>3, <1>4 DEF q, s

\* The transitions of advance() keep the players.
LEMMA StagesCrew ==
  ASSUME NEW x \in RoomType, NEW now
  PROVE  /\ SameCrew(x, StartLoading(x)) /\ SameCrew(x, StartCountdown(x, now))
         /\ SameCrew(x, CountDown(x, now)) /\ SameCrew(x, EndRace(x))
<1>1. SameCrew(x, x)  BY SlotsCrew DEF SameId
<1>2. x.slot \in [Slots -> PlayerType]  BY DEF RoomType
<1>3. SameCrew(x, StartLoading(x))  BY <1>1, PhaseCrew DEF StartLoading
<1>4. SameCrew(x, EndRace(x))  BY <1>1, PhaseCrew DEF EndRace
<1>5. SameCrew(x, StartCountdown(x, now))
  <2> DEFINE s == [i \in Slots |-> [x.slot[i] EXCEPT !.armed = 0]]
             q == [x EXCEPT !.start = now + StartDelay, !.phase = FZ_COUNTDOWN, !.slot = s]
  <2>1. q.owner = x.owner /\ q.closed = x.closed /\ q.host = x.host /\ q.slot = s  BY DEF RoomType
  <2>2. \A i \in Slots : s[i].status = x.slot[i].status /\ SameId(s[i], x.slot[i])
    BY <1>2 DEF PlayerType, SameId
  <2>3. StartCountdown(x, now) \in {q, x}  BY DEF StartCountdown
  <2> HIDE DEF s, q
  <2>4. SameCrew(x, q)  BY <2>1, <2>2, SlotsCrew DEF occupied
  <2> QED  BY <1>1, <2>3, <2>4
<1>6. SameCrew(x, StartRacing(x))
  <2> DEFINE s == [i \in Slots |-> IF occupied(x.slot[i])
                                   THEN [x.slot[i] EXCEPT !.status = FZ_PLAYER_RACING]
                                   ELSE x.slot[i]]
             q == [x EXCEPT !.phase = FZ_RACING, !.slot = s]
  <2>1. q.owner = x.owner /\ q.closed = x.closed /\ q.host = x.host /\ q.slot = s  BY DEF RoomType
  <2>2. \A i \in Slots : (occupied(s[i]) <=> occupied(x.slot[i])) /\ SameId(s[i], x.slot[i])
    BY <1>2 DEF PlayerType, SameId, occupied
  <2>3. StartRacing(x) = q  BY DEF StartRacing
  <2> HIDE DEF s, q
  <2>4. SameCrew(x, q)  BY <2>1, <2>2, SlotsCrew
  <2> QED  BY <2>3, <2>4
<1>7. SameCrew(x, CountDown(x, now))
  <2>1. CountDown(x, now) \in {[x EXCEPT !.start = now + StartDelay], StartRacing(x), x}
    BY DEF CountDown
  <2> QED  BY <1>1, <1>6, <2>1, PhaseCrew
<1> QED  BY <1>3, <1>4, <1>5, <1>7

\* advance() brings nobody in.
LEMMA AdvanceHeld ==
  ASSUME NEW r, NEW x, Held(r, x), NEW now \in Times
  PROVE  Held(r, advance(x, now))
<1> DEFINE k == DropSilent(x, now)
           a == StartLoading(k)
           b == StartCountdown(a, now)
           c == CountDown(b, now)
           d == EndRace(c)
<1>1. Held(r, k)  BY DropSilentHeld
<1>2. advance(x, now) = IF k.closed THEN k ELSE d  BY DEF advance
<1> HIDE DEF k
<1>3. CASE k.closed  BY <1>1, <1>2, <1>3
<1>4. CASE ~k.closed
  <2>1. RoomInv(a) /\ SameCrew(k, a)  BY <1>1, StartLoadingInv, StagesCrew DEF Held, RoomInv
  <2> HIDE DEF a
  <2>2. Held(r, a)  BY <1>1, <2>1, CrewHeld
  <2>3. RoomInv(b) /\ SameCrew(a, b)  BY <2>1, StartCountdownInv, StagesCrew DEF RoomInv
  <2> HIDE DEF b
  <2>4. Held(r, b) /\ ~b.closed  BY <1>4, <2>1, <2>2, <2>3, CrewHeld DEF SameCrew
  <2>5. RoomInv(c) /\ SameCrew(b, c)  BY <2>3, <2>4, CountDownInv, StagesCrew DEF RoomInv
  <2> HIDE DEF c
  <2>6. Held(r, c)  BY <2>4, <2>5, CrewHeld
  <2>7. RoomInv(d) /\ SameCrew(c, d)  BY <2>5, EndRaceInv, StagesCrew DEF RoomInv
  <2> HIDE DEF d
  <2>8. Held(r, d)  BY <2>6, <2>7, CrewHeld
  <2> QED  BY <1>2, <1>4, <2>8
<1> QED  BY <1>3, <1>4

-----------------------------------------------------------------------------

\* The assignments of a command keep the players.
LEMMA AssignCrew ==
  ASSUME NEW x \in RoomType, NEW i \in Occupants(x), NEW c \in CommandType
  PROVE  SameCrew(x, Assign(x, i, c))
<1> DEFINE b == x.slot[i]
<1>1. i \in Slots /\ b \in PlayerType /\ occupied(b)  BY DEF Occupants, RoomType
<1>2. SameCrew(x, x)  BY SlotsCrew DEF SameId
<1>3. ASSUME NEW st \in {FZ_SELECTED, FZ_PLAYER_LOADED, FZ_FINISHED}, NEW car, NEW pos
      PROVE  /\ LET p == [b EXCEPT !.car = car, !.status = st] IN occupied(p) /\ SameId(p, b)
             /\ LET p == [b EXCEPT !.pos = pos, !.status = st] IN occupied(p) /\ SameId(p, b)
  BY <1>1, <1>3 DEF PlayerType, occupied, SameId
<1>4. CASE c.cmd = "SELECT"
  <2> DEFINE p == [b EXCEPT !.car = c.arg, !.status = FZ_SELECTED]
  <2>1. occupied(p) /\ SameId(p, b)  BY <1>3
  <2>2. Assign(x, i, c) = [x EXCEPT !.slot[i] = p]  BY <1>4 DEF Assign
  <2> HIDE DEF p
  <2> QED  BY <2>1, <2>2, SlotCrew
<1>5. CASE c.cmd = "LOADED"
  <2> DEFINE p == [b EXCEPT !.pos = c.arg, !.status = FZ_PLAYER_LOADED]
  <2>1. occupied(p) /\ SameId(p, b)  BY <1>3
  <2>2. Assign(x, i, c) = [x EXCEPT !.slot[i] = p]  BY <1>5 DEF Assign
  <2> HIDE DEF p
  <2> QED  BY <2>1, <2>2, SlotCrew
<1>6. CASE c.cmd = "ARM"
  <2> DEFINE p == [b EXCEPT !.armed = x.start]
  <2>1. occupied(p) /\ SameId(p, b)  BY <1>1 DEF PlayerType, occupied, SameId
  <2>2. Assign(x, i, c) = [x EXCEPT !.slot[i] = p]  BY <1>6 DEF Assign
  <2> HIDE DEF p
  <2> QED  BY <2>1, <2>2, SlotCrew
<1>7. CASE c.cmd = "FINISH"
  <2> DEFINE p == [b EXCEPT !.pos = 0, !.status = FZ_FINISHED]
  <2>1. occupied(p) /\ SameId(p, b)  BY <1>3
  <2>2. Assign(x, i, c) = [x EXCEPT !.slot[i] = p]  BY <1>7 DEF Assign
  <2> HIDE DEF p
  <2> QED  BY <2>1, <2>2, SlotCrew
<1>8. CASE c.cmd = "CONFIG"
  <2> DEFINE q == [x EXCEPT !.expected = c.arg[1], !.course = c.arg[2]]
  <2>1. Assign(x, i, c) = q  BY <1>8 DEF Assign
  <2>2. q.owner = x.owner /\ q.closed = x.closed /\ q.host = x.host /\ q.slot = x.slot  BY DEF RoomType
  <2> HIDE DEF q
  <2> QED  BY <2>1, <2>2, SlotsCrew DEF SameId
<1>9. CASE c.cmd \in {"NEXT", "LEAVE"}  BY <1>2, <1>9 DEF Assign
<1> QED  BY <1>4, <1>5, <1>6, <1>7, <1>8, <1>9 DEF CommandType

\* So does the acknowledgement.
LEMMA AcknowledgeCrew ==
  ASSUME NEW x \in RoomType, NEW i \in Occupants(x), NEW seq, NEW now
  PROVE  SameCrew(x, Acknowledge(x, i, seq, now))
<1> DEFINE p == [x.slot[i] EXCEPT !.cmdSeq = seq, !.seen = now]
<1>1. x.slot[i] \in PlayerType /\ occupied(x.slot[i])  BY DEF Occupants, RoomType
<1>2. occupied(p) /\ SameId(p, x.slot[i])  BY <1>1 DEF PlayerType, occupied, SameId
<1>3. Acknowledge(x, i, seq, now) = [x EXCEPT !.slot[i] = p]  BY DEF Acknowledge
<1> HIDE DEF p
<1> QED  BY <1>2, <1>3, SlotCrew

\* A command brings nobody in.
LEMMA ExecuteHeld ==
  ASSUME NEW r, RoomInv(r), OwnerOK(r), NEW i \in Occupants(r), NEW c \in CommandType,
         NEW seq \in WireSeq, NEW now \in Times
  PROVE  Held(r, Execute(r, i, c, seq, now))
<1>1. Held(r, r) /\ r \in RoomType  BY DEF Held, SameId, RoomInv
<1>2. CASE ~Valid(r, i, c)
  <2> DEFINE k == Acknowledge(r, i, seq, now)
  <2>1. RoomInv(k) /\ SameCrew(r, k)  BY <1>1, AcknowledgeInv, AcknowledgeCrew
  <2> HIDE DEF k
  <2> QED  BY <1>1, <1>2, <2>1, CrewHeld DEF Execute, k
<1>3. CASE Valid(r, i, c)
  <2> DEFINE a == Assign(r, i, c)
             k == Acknowledge(a, i, seq, now)
             l == begin_lobby(k)
  <2>1. RoomInv(a) /\ i \in Occupants(a) /\ SameCrew(r, a)  BY <1>1, <1>3, AssignInv, AssignCrew
  <2> HIDE DEF a
  <2>2. Held(r, a) /\ a \in RoomType  BY <1>1, <2>1, CrewHeld DEF RoomInv
  <2>3. RoomInv(k) /\ i \in Occupants(k) /\ SameCrew(a, k)  BY <2>1, <2>2, AcknowledgeInv, AcknowledgeCrew
  <2> HIDE DEF k
  <2>4. Held(r, k) /\ k \in RoomType  BY <2>2, <2>3, CrewHeld DEF RoomInv
  <2>5. RoomInv(l) /\ SameCrew(k, l)  BY <2>3, <2>4, BeginLobbyInv, BeginLobbyCrew
  <2> HIDE DEF l
  <2>6. Held(r, l)  BY <2>4, <2>5, CrewHeld
  <2>7. Execute(r, i, c, seq, now) = Conclude(k, i, c)  BY <1>3 DEF Execute, a, k
  <2>8. Conclude(k, i, c) \in {l, drop(k, i), k}  BY DEF Conclude, l
  <2> QED  BY <2>3, <2>4, <2>6, <2>7, <2>8, DropHeld
<1> QED  BY <1>2, <1>3

-----------------------------------------------------------------------------

\* The inductive invariant: every token has been issued, which keeps the next one apart.
IdInv ==
  /\ \A i \in Occupants(room) : room.slot[i].token \in 1 .. issued
  /\ OneSlotPerEndpoint
  /\ OwnerOK(room)

\* A handler that brings nobody in preserves the invariant.
LEMMA HeldId ==
  ASSUME IdInv, Held(room, room'), issued' = issued
  PROVE  IdInv'
<1>1. OneSlotPerEndpoint'  BY DEF IdInv, Held, SameId, OneSlotPerEndpoint
<1>2. OwnerOK(room)'  BY DEF Held, OwnerOK, Occupants
<1>3. (\A i \in Occupants(room) : room.slot[i].token \in 1 .. issued)'
  BY DEF IdInv, Held, SameId, Occupants
<1> QED  BY <1>1, <1>2, <1>3 DEF IdInv

\* The first free slot of an empty room is slot 0.
LEMMA FirstSlot == Min(Slots) = 0
<1>1. 0 \in Slots /\ \A y \in Slots : 0 <= y  BY DEF Slots
<1>2. \A x \in Slots : (\A y \in Slots : x <= y) => x = 0  BY <1>1 DEF Slots
<1> QED  BY <1>1, <1>2 DEF Min

\* A HELLO brings in one player, with an address nobody has and a new token. In a hosted
\* room it is the owner, or the owner is there.
LEMMA HelloId ==
  ASSUME ServerInv, IdInv, NEW m \in Hellos, ReceiveHello(m)
  PROVE  IdInv'
<1>1. /\ room \in RoomType /\ room.slot \in [Slots -> PlayerType] /\ issued \in Nat
      /\ RoomInv(room) /\ ~room.closed
  BY BoundAssumption DEF ServerInv, RoomInv, RoomType, ReceiveHello
<1>2. PICK token \in {0} \cup (IF issued < MaxTokens THEN {issued + 1} ELSE {}) :
        /\ room' = Hello(room, m, token, clock)
        /\ issued' = IF Joins(room, m) /\ token # 0 THEN token ELSE issued
  BY DEF ReceiveHello
<1>3. CASE ~Joins(room, m)
  <2>1. room' = room /\ issued' = issued  BY <1>2, <1>3 DEF Hello
  <2> QED  BY <2>1 DEF IdInv, OneSlotPerEndpoint, OwnerOK, Occupants
<1>4. CASE Joins(room, m)
  <2> DEFINE i == FreeSlot(room)
             p == [EmptyPlayer EXCEPT !.addr = m.addr, !.token = token,
                                      !.nonce = m.nonce, !.seen = clock, !.status = FZ_JOINED]
             h == IF room.host = NoHost THEN i ELSE room.host
             q == [room EXCEPT !.slot[i] = p, !.host = h]
             e == [room EXCEPT !.slot[i] = EmptyPlayer]
  <2>1. i \in Slots /\ i \notin Occupants(room)
    <3>1. Slots \ Occupants(room) \in SUBSET Slots /\ Slots \ Occupants(room) # {}
      BY <1>4, OccupantsFinite DEF Joins
    <3> QED  BY <3>1, LeastSlot DEF FreeSlot
  <2>2. Occupants(room) = {} => i = 0
    <3>1. Slots \ {} = Slots  OBVIOUS
    <3> QED  BY <3>1, FirstSlot DEF FreeSlot
  <2>3. \A j \in Occupants(room) : room.slot[j].addr # m.addr  BY <1>4 DEF Joins, KnownAddress
  <2>4. room.owner # 0 /\ ~occupied(room.slot[0]) => m.nonce = room.owner
    BY <1>4 DEF Joins, HelloReject
  <2>5. room' = IF token = 0 THEN e ELSE q  BY <1>2, <1>4 DEF Hello, Join
  <2>6. p.addr = m.addr /\ p.token = token /\ p.nonce = m.nonce /\ occupied(p)
    BY DEF EmptyPlayer, occupied
  <2> HIDE DEF i, p, h
  <2>7. CASE token = 0
    <3>1. /\ e.slot = [room.slot EXCEPT ![i] = EmptyPlayer]
          /\ e.owner = room.owner /\ e.closed = room.closed /\ e.host = room.host
      BY <1>1, <2>1 DEF RoomType
    <3>2. room' = e /\ issued' = issued  BY <1>2, <2>5, <2>7
    <3> HIDE DEF e
    <3>3. \A j \in Slots : e.slot[j] = IF j = i THEN EmptyPlayer ELSE room.slot[j]
      BY <1>1, <2>1, <3>1
    <3>4. Occupants(e) = Occupants(room)  BY <2>1, <3>3, EmptyPlayerType DEF Occupants
    <3>5. \A j \in Occupants(room) : e.slot[j] = room.slot[j]  BY <2>1, <3>3 DEF Occupants
    <3>6. SameCrew(room, e)  BY <3>1, <3>4, <3>5 DEF SameCrew, SameId
    <3>7. RoomInv(room')  BY <1>2, <2>7, HelloInv DEF ServerInv
    <3>8. Held(room, room)  BY <1>1 DEF Held, SameId, IdInv
    <3>9. Held(room, room')  BY <3>2, <3>6, <3>7, <3>8, CrewHeld
    <3> QED  BY <3>2, <3>9, HeldId
  <2>8. CASE token # 0
    <3>1. /\ q.slot = [room.slot EXCEPT ![i] = p] /\ q.host = h
          /\ q.owner = room.owner /\ q.closed = room.closed
      BY <1>1, <2>1 DEF RoomType
    <3>2. room' = q /\ issued' = token /\ token = issued + 1  BY <1>2, <1>4, <2>5, <2>8
    <3> HIDE DEF q
    <3>3. \A j \in Slots : q.slot[j] = IF j = i THEN p ELSE room.slot[j]  BY <1>1, <2>1, <3>1
    <3>4. Occupants(q) = Occupants(room) \cup {i}  BY <2>1, <2>6, <3>3 DEF Occupants
    <3>5. q.slot[i] = p /\ \A j \in Occupants(room) : q.slot[j] = room.slot[j]
      BY <2>1, <3>3 DEF Occupants
    <3>6. \A j \in Occupants(room) : room.slot[j].token \in 1 .. issued /\ room.slot[j].token # token
      BY <1>1, <3>2 DEF IdInv
    <3>7. \A j \in Occupants(q) : q.slot[j].token \in 1 .. token
      BY <1>1, <2>6, <3>2, <3>4, <3>5, <3>6
    <3>8. \A j, k \in Occupants(q) : j # k => /\ q.slot[j].addr # q.slot[k].addr
                                              /\ q.slot[j].token # q.slot[k].token
      BY <2>3, <2>6, <3>4, <3>5, <3>6 DEF IdInv, OneSlotPerEndpoint
    <3>9. OwnerOK(q)
      <4> SUFFICES ASSUME q.owner # 0
                   PROVE  0 \in Occupants(q) /\ q.slot[0].nonce = q.owner /\ q.host = 0
        BY DEF OwnerOK
      <4>1. CASE Occupants(room) = {}
        <5>1. i = 0 /\ room.host = NoHost  BY <1>1, <2>2, <4>1 DEF RoomInv, HostOK
        <5>2. ~occupied(room.slot[0])  BY <2>1, <5>1 DEF Occupants
        <5> QED  BY <2>4, <2>6, <3>1, <3>4, <3>5, <5>1, <5>2 DEF h
      <4>2. CASE Occupants(room) # {}
        <5>1. 0 \in Occupants(room) /\ room.slot[0].nonce = room.owner /\ room.host = 0
          BY <1>1, <3>1, <4>2 DEF IdInv, OwnerOK
        <5> QED  BY <3>1, <3>4, <3>5, <5>1 DEF h, NoHost
      <4> QED  BY <4>1, <4>2
    <3>10. OneSlotPerEndpoint'  BY <3>2, <3>8 DEF OneSlotPerEndpoint
    <3> QED  BY <3>2, <3>7, <3>9, <3>10 DEF IdInv, OwnerOK
  <2> QED  BY <2>7, <2>8
<1> QED  BY <1>3, <1>4

\* Every step preserves the invariant.
LEMMA NextId ==
  ASSUME ServerInv, ServerInv', IdInv, [Next]_serverVars
  PROVE  IdInv'
<1>1. /\ room \in RoomType /\ clock \in Times /\ RoomInv(room) /\ RoomInv(room') /\ OwnerOK(room)
      /\ Held(room, room)
  BY DEF ServerInv, RoomInv, IdInv, Held, SameId
<1>2. ASSUME NEW i \in Slots, occupied(room.slot[i]), NEW p, occupied(p), SameId(p, room.slot[i]),
             room' = [room EXCEPT !.slot[i] = p], issued' = issued
      PROVE  IdInv'
  <2>1. i \in Occupants(room)  BY <1>2 DEF Occupants
  <2>2. SameCrew(room, room')  BY <1>1, <1>2, <2>1, SlotCrew
  <2>3. Held(room, room')  BY <1>1, <2>2, CrewHeld
  <2> QED  BY <1>2, <2>3, HeldId
<1>3. ASSUME room' = room, issued' = issued PROVE IdInv'
  BY <1>1, <1>3, HeldId
<1>4. ASSUME NEW i \in Slots, ReceivePing(i) PROVE IdInv'
  <2> DEFINE p == [room.slot[i] EXCEPT !.seen = clock]
  <2>1. room' = [room EXCEPT !.slot[i] = p] /\ issued' = issued /\ occupied(room.slot[i])
    BY <1>4 DEF ReceivePing, Receive, Ping
  <2>2. occupied(p) /\ SameId(p, room.slot[i])
    BY <1>1, <2>1 DEF RoomType, PlayerType, occupied, SameId
  <2> HIDE DEF p
  <2> QED  BY <1>2, <2>1, <2>2
<1>5. ASSUME NEW i \in Slots, NEW echoes \in BOOLEAN, ReceivePong(i, echoes) PROVE IdInv'
  <2> DEFINE p == [room.slot[i] EXCEPT !.ping = FALSE, !.seen = clock]
  <2>1. room' \in {room, [room EXCEPT !.slot[i] = p]} /\ issued' = issued /\ occupied(room.slot[i])
    BY <1>5 DEF ReceivePong, Receive, Pong
  <2>2. occupied(p) /\ SameId(p, room.slot[i])
    BY <1>1, <2>1 DEF RoomType, PlayerType, occupied, SameId
  <2> HIDE DEF p
  <2> QED  BY <1>2, <1>3, <2>1, <2>2
<1>6. ASSUME NEW i \in Slots, NEW m \in States(room, i), ReceiveState(i, m) PROVE IdInv'
  <2> DEFINE p == [room.slot[i] EXCEPT !.stateSeq = m.seq, !.pos = m.pos, !.seen = clock]
  <2>1. room' \in {room, [room EXCEPT !.slot[i] = p]} /\ issued' = issued /\ occupied(room.slot[i])
    BY <1>6 DEF ReceiveState, Receive, State
  <2>2. occupied(p) /\ SameId(p, room.slot[i])
    BY <1>1, <2>1 DEF RoomType, PlayerType, occupied, SameId
  <2> HIDE DEF p
  <2> QED  BY <1>2, <1>3, <2>1, <2>2
<1>7. ASSUME NEW i \in Slots, NEW m \in CommandPackets(room, i), ReceiveCommand(i, m) PROVE IdInv'
  <2> DEFINE x == Execute(room, i, m.c, m.seq, clock)
  <2>1. room.start \in Nat  BY <1>1, BoundAssumption, TimeAssumption DEF RoomType
  <2>2. room.slot[i].cmdSeq \in WireSeq  BY <1>1 DEF RoomType, PlayerType
  <2>3. m.seq \in WireSeq /\ m.c \in Commands(room)
    BY <2>2, WireSucc DEF CommandPackets, SeqsNear, Commands
  <2>4. m.c \in CommandType  BY <2>1, <2>3 DEF Commands, CommandType
  <2>5. i \in Occupants(room) /\ issued' = issued  BY <1>7 DEF ReceiveCommand, Receive, Occupants
  <2>6. room' \in {room, advance(x, clock)}  BY <1>7 DEF ReceiveCommand, Receive, Command
  <2>7. Held(room, x)  BY <1>1, <2>3, <2>4, <2>5, ExecuteHeld
  <2> HIDE DEF x
  <2>8. Held(room, advance(x, clock))  BY <1>1, <2>7, AdvanceHeld
  <2>9. Held(room, room')  BY <1>1, <2>6, <2>8
  <2> QED  BY <2>5, <2>9, HeldId
<1>8. ASSUME NEW tick \in BOOLEAN, NEW summary \in BOOLEAN, PollTail(tick, summary) PROVE IdInv'
  <2> DEFINE t == IF tick THEN advance(room, clock) ELSE room
             s == [i \in Slots |-> IF occupied(t.slot[i])
                                   THEN [t.slot[i] EXCEPT !.ping = TRUE] ELSE t.slot[i]]
             q == [t EXCEPT !.slot = s]
  <2>1. Held(room, t)  BY <1>1, AdvanceHeld
  <2>2. room' \in {t, q} /\ issued' = issued  BY <1>8 DEF PollTail, Summary
  <2> HIDE DEF t
  <2>3. t \in RoomType /\ t.slot \in [Slots -> PlayerType]  BY <2>1 DEF Held, RoomInv, RoomType
  <2>4. q.owner = t.owner /\ q.closed = t.closed /\ q.host = t.host /\ q.slot = s  BY <2>3 DEF RoomType
  <2>5. \A i \in Slots : (occupied(s[i]) <=> occupied(t.slot[i])) /\ SameId(s[i], t.slot[i])
    BY <2>3 DEF PlayerType, SameId, occupied
  <2> HIDE DEF s, q
  <2>6. SameCrew(t, q)  BY <2>3, <2>4, <2>5, SlotsCrew
  <2>7. Held(room, room')  BY <1>1, <2>1, <2>2, <2>6, CrewHeld
  <2> QED  BY <2>2, <2>7, HeldId
<1>9. CASE Close
  <2>1. room'.slot = room.slot /\ room'.closed = TRUE /\ issued' = issued
    BY <1>1, <1>9 DEF Close, RoomType
  <2>2. Occupants(room') = Occupants(room)  BY <2>1 DEF Occupants
  <2>3. OwnerOK(room')  BY <2>1 DEF OwnerOK
  <2>4. Held(room, room')  BY <1>1, <2>1, <2>2, <2>3 DEF Held, SameId
  <2> QED  BY <2>1, <2>4, HeldId
<1>10. CASE PassTime  BY <1>3, <1>10 DEF PassTime
<1>11. CASE UNCHANGED serverVars  BY <1>3, <1>11 DEF serverVars
<1> QED  BY <1>4, <1>5, <1>6, <1>7, <1>8, <1>9, <1>10, <1>11, HelloId DEF Next

\* A new server has no players.
LEMMA InitId == ASSUME Init PROVE IdInv
<1>1. \A i \in Slots : room.slot[i] = EmptyPlayer  BY DEF Init, InitialRoom
<1>2. Occupants(room) = {}  BY <1>1, EmptyPlayerType DEF Occupants
<1> QED  BY <1>2 DEF IdInv, OneSlotPerEndpoint, OwnerOK

\* The invariant holds at all times.
THEOREM IdInvariant == Spec => []IdInv
  BY InitId, NextId, ServerInvariant, PTL DEF Spec

\* No endpoint and no token belongs to two players, however HELLOs are repeated, delayed or
\* refused: a repeated HELLO never gets a second slot.
THEOREM OnePlayerPerEndpoint == Spec => []OneSlotPerEndpoint
<1>1. IdInv => OneSlotPerEndpoint  BY DEF IdInv
<1> QED  BY <1>1, IdInvariant, PTL

\* In a hosted room P1 is the owner and the host as long as the room is open: no guest gets
\* in before the owner, takes slot 0 or outlives the owner.
THEOREM OwnerStaysHost == Spec => []OwnerIsHost
<1>1. IdInv => OwnerIsHost  BY DEF IdInv, OwnerOK, OwnerIsHost
<1> QED  BY <1>1, IdInvariant, PTL
=============================================================================
