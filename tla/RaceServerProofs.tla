-------------------------- MODULE RaceServerProofs --------------------------
(***************************************************************************)
(* Proofs about the race server.                                           *)
(*                                                                         *)
(* RoomInv is proved inductive handler by handler: each C function that    *)
(* changes the room (begin_lobby, drop, the four stages of advance, the    *)
(* packet handlers) has a lemma saying that it maps rooms that satisfy     *)
(* RoomInv to rooms that do, and NextInv puts them together. The           *)
(* invariants that TLC checks on small rooms follow for any set of         *)
(* endpoints, any sequence-number space and any timing constants. The      *)
(* action property StartIsCommitted takes a second argument, on rooms in   *)
(* which everybody has armed (Committed).                                  *)
(***************************************************************************)
EXTENDS RaceServer, FiniteSetTheorems, TLAPS

USE DEF FZ_LOBBY, FZ_LOADING, FZ_COUNTDOWN, FZ_RACING, FZ_RESULTS,
        FZ_EMPTY, FZ_JOINED, FZ_SELECTED, FZ_PLAYER_LOADED, FZ_PLAYER_RACING,
        FZ_FINISHED, FZ_DISCONNECTED

-----------------------------------------------------------------------------
(* The invariant.                                                          *)

\* HostPresent as a predicate of a room.
HostOK(r) ==
  ~r.closed => IF Occupants(r) = {} THEN r.host = NoHost /\ r.phase = FZ_LOBBY
                                    ELSE r.host \in Occupants(r)

\* What slot i contributes to PhaseMatchesPlayers and NoGhostCar. Empty slots count too:
\* their leftover armed time and position must be harmless.
SlotOK(r, i) ==
  /\ occupied(r.slot[i]) => r.slot[i].status \in PhaseStatuses[r.phase]
  /\ r.slot[i].armed <= r.start
  /\ r.slot[i].pos # 0 => r.slot[i].status \in {FZ_PLAYER_LOADED, FZ_PLAYER_RACING}

\* The inductive invariant: the five room invariants together. None is inductive alone.
\* The host is never stranded because an empty room has no race, the statuses of a phase
\* decide what advance() may do next, and an armed time is bounded by the start it was for.
RoomInv(r) ==
  /\ r \in RoomType
  /\ HostOK(r)
  /\ \A i \in Slots : SlotOK(r, i)
  /\ r.start # 0 <=> r.phase >= FZ_COUNTDOWN
  /\ count(r) <= r.expected

-----------------------------------------------------------------------------

\* The minimum of a non-empty set of slots is one of them (the loops that look for the
\* first occupied or free slot).
LEMMA LeastSlot ==
  ASSUME NEW S \in SUBSET Slots, S # {}
  PROVE  Min(S) \in S
<1>1. \E x \in S : \A y \in S : x <= y
  <2>1. CASE 0 \in S  BY <2>1 DEF Slots
  <2>2. CASE 0 \notin S /\ 1 \in S  BY <2>2 DEF Slots
  <2>3. CASE 0 \notin S /\ 1 \notin S /\ 2 \in S  BY <2>3 DEF Slots
  <2>4. CASE 0 \notin S /\ 1 \notin S /\ 2 \notin S
    <3>1. \A y \in S : y = 3  BY <2>4 DEF Slots
    <3> QED  BY <3>1
  <2> QED  BY <2>1, <2>2, <2>3, <2>4
<1> QED  BY <1>1 DEF Min

\* The constants that handlers assign have the types of the fields.
LEMMA Zeros ==
  /\ FZ_JOINED \in Statuses /\ FZ_SELECTED \in Statuses /\ FZ_PLAYER_LOADED \in Statuses
  /\ FZ_PLAYER_RACING \in Statuses /\ FZ_FINISHED \in Statuses
  /\ FZ_DISCONNECTED \in Statuses
  /\ 0 \in Positions /\ 0 \in Cars /\ 0 \in WireSeq /\ 0 \in Times
  /\ 0 \in 0 .. MaxClock + StartDelay
  BY DataAssumption, BoundAssumption, TimeAssumption, SeqModAssumption
  DEF WireSeq, Times, Statuses

\* A slot cleared by memset is a player record, and not occupied.
LEMMA EmptyPlayerType == EmptyPlayer \in PlayerType /\ ~occupied(EmptyPlayer)
  BY Zeros DEF EmptyPlayer, PlayerType, Statuses, occupied

\* begin_lobby neither frees nor fills a slot.
LEMMA LobbyPlayerType ==
  ASSUME NEW p \in PlayerType
  PROVE  LobbyPlayer(p) \in PlayerType /\ (occupied(LobbyPlayer(p)) <=> occupied(p))
<1>1. LobbyPlayer(p) \in PlayerType
  BY Zeros, EmptyPlayerType DEF LobbyPlayer, PlayerType
<1>2. occupied(LobbyPlayer(p)) <=> occupied(p)
  BY EmptyPlayerType DEF LobbyPlayer, PlayerType, occupied
<1> QED  BY <1>1, <1>2

\* The successor of a wire number is another wire number.
LEMMA WireSucc ==
  ASSUME NEW a \in WireSeq
  PROVE  fz_succ(a) \in WireSeq /\ fz_succ(a) # a
  BY SeqModAssumption DEF WireSeq, fz_succ

\* PhaseStatuses, phase by phase.
LEMMA StatusesByPhase ==
  /\ PhaseStatuses[FZ_LOBBY] = {FZ_JOINED, FZ_SELECTED}
  /\ PhaseStatuses[FZ_LOADING] = {FZ_SELECTED, FZ_PLAYER_LOADED}
  /\ PhaseStatuses[FZ_COUNTDOWN] = {FZ_PLAYER_LOADED}
  /\ PhaseStatuses[FZ_RACING] = {FZ_PLAYER_RACING, FZ_FINISHED}
  /\ PhaseStatuses[FZ_RESULTS] = {FZ_FINISHED}
  BY DEF PhaseStatuses, Phases

\* The players of a room can be counted.
LEMMA OccupantsFinite ==
  ASSUME NEW r
  PROVE  /\ Occupants(r) \subseteq Slots
         /\ IsFiniteSet(Occupants(r))
         /\ count(r) \in Nat
<1>1. IsFiniteSet(Slots)
  <2>1. 0 \in Int /\ 3 \in Int  OBVIOUS
  <2> QED  BY <2>1, FS_Interval DEF Slots
<1> QED  BY <1>1, FS_Subset, FS_CardinalityType DEF Occupants, count

\* count() is monotonic.
LEMMA FewerPlayers ==
  ASSUME NEW r, NEW q, Occupants(q) \subseteq Occupants(r)
  PROVE  count(q) <= count(r)
  BY OccupantsFinite, FS_Subset DEF count

-----------------------------------------------------------------------------

\* What begin_lobby leaves: the same players, in a new lobby of the next race.
LEMMA BeginLobbyFacts ==
  ASSUME NEW r \in RoomType
  PROVE  LET q == begin_lobby(r) IN
         /\ q \in RoomType
         /\ Occupants(q) = Occupants(r)
         /\ q.phase = FZ_LOBBY /\ q.start = 0 /\ q.race = fz_succ(r.race)
         /\ q.host = r.host /\ q.closed = r.closed /\ q.expected = r.expected
         /\ \A i \in Slots : SlotOK(q, i)
<1> DEFINE q == begin_lobby(r)
<1>1. r.race \in WireSeq /\ \A i \in Slots : r.slot[i] \in PlayerType
  BY DEF RoomType
<1>2. fz_succ(r.race) \in WireSeq /\ FZ_LOBBY \in Phases
  BY <1>1, WireSucc DEF Phases
<1>3. \A i \in Slots : /\ LobbyPlayer(r.slot[i]) \in PlayerType
                       /\ occupied(LobbyPlayer(r.slot[i])) <=> occupied(r.slot[i])
  BY <1>1, LobbyPlayerType
<1>4. /\ q.phase = FZ_LOBBY /\ q.start = 0 /\ q.race = fz_succ(r.race)
      /\ q.host = r.host /\ q.closed = r.closed /\ q.expected = r.expected
      /\ q.slot = [i \in Slots |-> LobbyPlayer(r.slot[i])]
  BY DEF begin_lobby, RoomType
<1>5. q \in RoomType
  BY <1>2, <1>3, Zeros DEF begin_lobby, RoomType
<1>6. Occupants(q) = Occupants(r)
  BY <1>3, <1>4 DEF Occupants
<1>7. ASSUME NEW i \in Slots PROVE SlotOK(q, i)
  <2>1. q.slot[i] = LobbyPlayer(r.slot[i])  BY <1>4
  <2>2. CASE occupied(r.slot[i])
    <3>1. /\ q.slot[i].status = FZ_JOINED /\ q.slot[i].pos = 0 /\ q.slot[i].armed = 0
      BY <1>1, <2>1, <2>2 DEF LobbyPlayer, PlayerType
    <3> QED  BY <3>1, <1>4, StatusesByPhase DEF SlotOK
  <2>3. CASE ~occupied(r.slot[i])
    <3>1. q.slot[i] = EmptyPlayer  BY <2>1, <2>3 DEF LobbyPlayer
    <3> QED  BY <3>1, <1>4, EmptyPlayerType DEF SlotOK, EmptyPlayer
  <2> QED  BY <2>2, <2>3
<1> QED  BY <1>4, <1>5, <1>6, <1>7

\* begin_lobby preserves the invariant.
LEMMA BeginLobbyInv ==
  ASSUME NEW r, RoomInv(r)
  PROVE  RoomInv(begin_lobby(r))
<1>1. r \in RoomType  BY DEF RoomInv
<1>2. count(begin_lobby(r)) = count(r)  BY <1>1, BeginLobbyFacts DEF count
<1> QED  BY <1>1, <1>2, BeginLobbyFacts DEF RoomInv, HostOK

\* The first half of drop(): the slot is marked, its car taken off the track, and nothing
\* else of the room changes.
LEMMA DisconnectFacts ==
  ASSUME NEW r \in RoomType, NEW i \in Slots
  PROVE  LET q == Disconnect(r, i) IN
         /\ q \in RoomType
         /\ Occupants(q) = Occupants(r) \ {i}
         /\ q.phase = r.phase /\ q.start = r.start /\ q.race = r.race
         /\ q.host = r.host /\ q.closed = r.closed /\ q.expected = r.expected
         /\ \A j \in Slots : SlotOK(r, j) => SlotOK(q, j)
         /\ \A j \in Slots : q.slot[j].armed = r.slot[j].armed
<1> DEFINE q == Disconnect(r, i)
<1> DEFINE p == [r.slot[i] EXCEPT !.status = FZ_DISCONNECTED, !.pos = 0]
<1>1. r.slot \in [Slots -> PlayerType]  BY DEF RoomType
<1>2. p \in PlayerType /\ p.status = FZ_DISCONNECTED /\ p.pos = 0 /\ p.armed = r.slot[i].armed
  <2>1. r.slot[i] \in PlayerType  BY <1>1
  <2>2. FZ_DISCONNECTED \in Statuses /\ 0 \in Positions  BY Zeros
  <2> QED  BY <2>1, <2>2 DEF PlayerType
<1>3. /\ q.phase = r.phase /\ q.start = r.start /\ q.race = r.race
      /\ q.host = r.host /\ q.closed = r.closed /\ q.expected = r.expected
      /\ q.slot = [r.slot EXCEPT ![i] = p]
  BY DEF Disconnect, RoomType
<1>4. q \in RoomType  BY <1>2 DEF Disconnect, RoomType
<1> HIDE DEF p
<1>5. ~occupied(p)  BY <1>2 DEF occupied
<1>6. Occupants(q) = Occupants(r) \ {i}  BY <1>1, <1>3, <1>5 DEF Occupants
<1>7. \A j \in Slots : SlotOK(r, j) => SlotOK(q, j)  BY <1>1, <1>2, <1>3, <1>5 DEF SlotOK
<1> QED  BY <1>1, <1>2, <1>3, <1>4, <1>6, <1>7

-----------------------------------------------------------------------------

\* After the player of slot i has gone, the next host is a player who is there, if any.
LEMMA NewHostFacts ==
  ASSUME NEW r \in RoomType, NEW i \in Slots, i \notin Occupants(r),
         r.host \in Occupants(r) \cup {i}
  PROVE  IF Occupants(r) = {} THEN NewHost(r, i) = NoHost
                              ELSE NewHost(r, i) \in Occupants(r)
<1>1. Occupants(r) \in SUBSET Slots  BY DEF Occupants
<1> QED  BY <1>1, LeastSlot DEF NewHost

\* The next host is a slot or nobody.
LEMMA NewHostType ==
  ASSUME NEW r \in RoomType, NEW i \in Slots
  PROVE  NewHost(r, i) \in Slots \cup {NoHost}
<1>1. Occupants(r) \in SUBSET Slots /\ r.host \in Slots \cup {NoHost}
  BY DEF Occupants, RoomType
<1> QED  BY <1>1, LeastSlot DEF NewHost

\* The second half of drop() restores the invariant: a new host, the slot freed in the
\* lobby, and a fresh lobby when nobody is left.
LEMMA ReleaseInv ==
  ASSUME NEW r \in RoomType, NEW i \in Slots, i \notin Occupants(r),
         ~r.closed => r.host \in Occupants(r) \cup {i},
         \A j \in Slots : SlotOK(r, j),
         r.start # 0 <=> r.phase >= FZ_COUNTDOWN,
         count(r) <= r.expected
  PROVE  RoomInv(Release(r, i))
<1> DEFINE hosted == [r EXCEPT !.host = NewHost(r, i)]
           freed  == IF r.phase = FZ_LOBBY
                     THEN [hosted EXCEPT !.slot[i] = EmptyPlayer] ELSE hosted
           last   == [begin_lobby(freed) EXCEPT !.host = NoHost]
<1>1. /\ hosted \in RoomType
      /\ hosted.host = NewHost(r, i) /\ hosted.slot = r.slot
      /\ hosted.phase = r.phase /\ hosted.start = r.start
      /\ hosted.closed = r.closed /\ hosted.expected = r.expected
  BY NewHostType DEF RoomType
<1>2. /\ freed \in RoomType
      /\ freed.host = NewHost(r, i)
      /\ freed.phase = r.phase /\ freed.start = r.start
      /\ freed.closed = r.closed /\ freed.expected = r.expected
      /\ freed.slot = IF r.phase = FZ_LOBBY THEN [r.slot EXCEPT ![i] = EmptyPlayer] ELSE r.slot
  BY <1>1, EmptyPlayerType DEF RoomType
<1> HIDE DEF hosted
<1>3. Release(r, i) = IF Occupants(freed) = {} THEN last ELSE freed
  BY DEF Release, hosted
<1> HIDE DEF freed
<1>4. r.slot \in [Slots -> PlayerType] /\ r.start \in 0 .. MaxClock + StartDelay
  BY DEF RoomType
<1>5. Occupants(freed) = Occupants(r)
  BY <1>2, <1>4, EmptyPlayerType DEF Occupants
<1>6. \A j \in Slots : SlotOK(freed, j)
  <2> SUFFICES ASSUME NEW j \in Slots PROVE SlotOK(freed, j)  OBVIOUS
  <2>1. CASE freed.slot[j] = EmptyPlayer
    BY <2>1, <1>2, <1>4, EmptyPlayerType, BoundAssumption, TimeAssumption DEF SlotOK, EmptyPlayer
  <2>2. CASE freed.slot[j] = r.slot[j]
    BY <2>2, <1>2 DEF SlotOK
  <2> QED  BY <2>1, <2>2, <1>2, <1>4
<1>7. CASE Occupants(freed) # {}
  <2>1. HostOK(freed)  BY <1>2, <1>5, <1>7, NewHostFacts DEF HostOK
  <2>2. count(freed) = count(r)  BY <1>5 DEF count
  <2> QED  BY <1>2, <1>3, <1>6, <1>7, <2>1, <2>2 DEF RoomInv
<1>8. CASE Occupants(freed) = {}
  <2> DEFINE b == begin_lobby(freed)
  <2>1. /\ b \in RoomType /\ Occupants(b) = {}
        /\ b.phase = FZ_LOBBY /\ b.start = 0 /\ b.expected = r.expected
        /\ \A j \in Slots : SlotOK(b, j)
    BY <1>2, <1>8, BeginLobbyFacts
  <2>2. /\ last \in RoomType /\ last.host = NoHost
        /\ last.phase = b.phase /\ last.start = b.start
        /\ last.expected = b.expected /\ last.slot = b.slot
    BY <2>1 DEF RoomType
  <2> HIDE DEF b, last
  <2>3. Occupants(last) = {}  BY <2>1, <2>2 DEF Occupants
  <2>4. \A j \in Slots : SlotOK(last, j)  BY <2>1, <2>2 DEF SlotOK
  <2>5. count(last) <= last.expected
    BY <2>1, <2>2, <2>3, <1>5, <1>8 DEF count
  <2>6. HostOK(last)  BY <2>1, <2>2, <2>3 DEF HostOK
  <2> QED  BY <1>3, <1>8, <2>1, <2>2, <2>4, <2>5, <2>6 DEF RoomInv
<1> QED  BY <1>7, <1>8

\* drop() preserves the invariant, for the owner of a hosted room and for anybody else.
LEMMA DropInv ==
  ASSUME NEW r, RoomInv(r), NEW i \in Occupants(r)
  PROVE  RoomInv(drop(r, i))
<1> DEFINE gone == Disconnect(r, i)
<1>1. r \in RoomType /\ i \in Slots  BY DEF RoomInv, Occupants
<1>2. /\ gone \in RoomType
      /\ Occupants(gone) = Occupants(r) \ {i}
      /\ gone.phase = r.phase /\ gone.start = r.start
      /\ gone.host = r.host /\ gone.closed = r.closed /\ gone.expected = r.expected
      /\ \A j \in Slots : SlotOK(gone, j)
  BY <1>1, DisconnectFacts DEF RoomInv
<1>3. r.expected \in Nat /\ count(gone) <= gone.expected
  <2>1. count(gone) <= count(r)  BY <1>2, FewerPlayers
  <2>2. r.expected \in Nat  BY <1>1 DEF RoomType
  <2> QED  BY <1>2, <2>1, <2>2, OccupantsFinite DEF RoomInv
<1>4. ~gone.closed => gone.host \in Occupants(gone) \cup {i}
  BY <1>2 DEF RoomInv, HostOK
<1> HIDE DEF gone
<1>5. CASE r.owner # 0 /\ i = 0
  <2> DEFINE q == [gone EXCEPT !.closed = TRUE]
  <2>1. /\ q \in RoomType /\ q.closed = TRUE /\ q.slot = gone.slot
        /\ q.phase = gone.phase /\ q.start = gone.start /\ q.expected = gone.expected
    BY <1>2 DEF RoomType
  <2>2. drop(r, i) = q  BY <1>5 DEF drop, gone
  <2> HIDE DEF q
  <2>3. Occupants(q) = Occupants(gone)  BY <2>1 DEF Occupants
  <2>4. \A j \in Slots : SlotOK(q, j)  BY <1>2, <2>1 DEF SlotOK
  <2>5. count(q) = count(gone)  BY <2>3 DEF count
  <2> QED  BY <1>2, <1>3, <2>1, <2>2, <2>4, <2>5 DEF RoomInv, HostOK
<1>6. CASE ~(r.owner # 0 /\ i = 0)
  <2>1. drop(r, i) = Release(gone, i)  BY <1>6 DEF drop, gone
  <2>2. r.start # 0 <=> r.phase >= FZ_COUNTDOWN  BY DEF RoomInv
  <2>3. i \notin Occupants(gone)  BY <1>2
  <2> QED  BY <1>1, <1>2, <1>3, <1>4, <2>1, <2>2, <2>3, ReleaseInv
<1> QED  BY <1>5, <1>6

\* The timeout loop of advance() preserves the invariant.
LEMMA DropSilentInv ==
  ASSUME NEW r, RoomInv(r), NEW now
  PROVE  RoomInv(DropSilent(r, now))
<1>1. ASSUME NEW q, RoomInv(q), NEW i \in Slots
      PROVE  RoomInv(DropIfSilent(q, i, now))
  BY <1>1, DropInv DEF DropIfSilent, Occupants
<1>2. 0 \in Slots /\ 1 \in Slots /\ 2 \in Slots /\ 3 \in Slots  BY DEF Slots
<1> QED  BY <1>1, <1>2 DEF DropSilent

-----------------------------------------------------------------------------

\* A room with the same players and host satisfies the invariant when its slots and its
\* start time do.
LEMMA NewPhase ==
  ASSUME NEW r, RoomInv(r), NEW q \in RoomType,
         Occupants(q) = Occupants(r), Occupants(r) # {},
         q.host = r.host, q.closed = r.closed, q.expected = r.expected,
         \A i \in Slots : SlotOK(q, i),
         q.start # 0 <=> q.phase >= FZ_COUNTDOWN
  PROVE  RoomInv(q)
<1>1. count(q) = count(r)  BY DEF count
<1> QED  BY <1>1 DEF RoomInv, HostOK

\* advance(), LOBBY to LOADING, preserves the invariant.
LEMMA StartLoadingInv ==
  ASSUME NEW r, RoomInv(r)
  PROVE  RoomInv(StartLoading(r))
<1>1. CASE ~(r.phase = FZ_LOBBY /\ count(r) = r.expected /\ all_at_least(r, FZ_SELECTED))
  BY <1>1 DEF StartLoading
<1>2. CASE r.phase = FZ_LOBBY /\ count(r) = r.expected /\ all_at_least(r, FZ_SELECTED)
  <2> DEFINE q == [r EXCEPT !.phase = FZ_LOADING]
  <2>1. r \in RoomType /\ StartLoading(r) = q  BY <1>2 DEF RoomInv, StartLoading
  <2>2. /\ q \in RoomType /\ q.slot = r.slot /\ q.phase = FZ_LOADING /\ q.start = r.start
        /\ q.host = r.host /\ q.closed = r.closed /\ q.expected = r.expected
    BY <2>1 DEF RoomType, Phases
  <2> HIDE DEF q
  <2>3. Occupants(q) = Occupants(r) /\ Occupants(r) # {}
    BY <1>2, <2>2 DEF Occupants, all_at_least
  <2>4. \A i \in Slots : SlotOK(q, i)
    <3> SUFFICES ASSUME NEW i \in Slots PROVE SlotOK(q, i)  OBVIOUS
    <3>1. SlotOK(r, i)  BY DEF RoomInv
    <3>2. occupied(r.slot[i]) => r.slot[i].status = FZ_SELECTED
      BY <1>2, <3>1, StatusesByPhase DEF SlotOK, all_at_least, Occupants
    <3> QED  BY <2>2, <3>1, <3>2, StatusesByPhase DEF SlotOK
  <2>5. q.start # 0 <=> q.phase >= FZ_COUNTDOWN  BY <1>2, <2>2 DEF RoomInv
  <2> QED  BY <2>1, <2>2, <2>3, <2>4, <2>5, NewPhase
<1> QED  BY <1>1, <1>2

\* A start time is positive and within its bound.
LEMMA StartTime ==
  ASSUME NEW now \in Times
  PROVE  now + StartDelay \in 0 .. MaxClock + StartDelay /\ now + StartDelay > 0
  BY BoundAssumption, TimeAssumption DEF Times

\* advance(), LOADING to COUNTDOWN, preserves the invariant.
LEMMA StartCountdownInv ==
  ASSUME NEW r, RoomInv(r), NEW now \in Times
  PROVE  RoomInv(StartCountdown(r, now))
<1>1. CASE ~(r.phase = FZ_LOADING /\ all_at_least(r, FZ_PLAYER_LOADED))
  BY <1>1 DEF StartCountdown
<1>2. CASE r.phase = FZ_LOADING /\ all_at_least(r, FZ_PLAYER_LOADED)
  <2> DEFINE s == [i \in Slots |-> [r.slot[i] EXCEPT !.armed = 0]]
             q == [r EXCEPT !.start = now + StartDelay, !.phase = FZ_COUNTDOWN, !.slot = s]
  <2>1. r \in RoomType /\ StartCountdown(r, now) = q  BY <1>2 DEF RoomInv, StartCountdown
  <2>2. \A i \in Slots : /\ s[i] \in PlayerType /\ s[i].status = r.slot[i].status
                         /\ s[i].armed = 0 /\ s[i].pos = r.slot[i].pos
    BY <2>1, Zeros DEF RoomType, PlayerType
  <2>3. s \in [Slots -> PlayerType]  BY <2>2
  <2> HIDE DEF s
  <2>4. /\ q \in RoomType /\ q.slot = s /\ q.phase = FZ_COUNTDOWN /\ q.start = now + StartDelay
        /\ q.host = r.host /\ q.closed = r.closed /\ q.expected = r.expected
    <3>1. FZ_COUNTDOWN \in Phases /\ now + StartDelay \in 0 .. MaxClock + StartDelay
      BY StartTime DEF Phases
    <3> QED  BY <2>1, <2>3, <3>1 DEF RoomType
  <2> HIDE DEF q
  <2>5. Occupants(q) = Occupants(r) /\ Occupants(r) # {}
    BY <1>2, <2>2, <2>4 DEF Occupants, all_at_least, occupied
  <2>6. \A i \in Slots : SlotOK(q, i)
    <3> SUFFICES ASSUME NEW i \in Slots PROVE SlotOK(q, i)  OBVIOUS
    <3>1. SlotOK(r, i)  BY DEF RoomInv
    <3>2. occupied(r.slot[i]) => r.slot[i].status = FZ_PLAYER_LOADED
      BY <1>2, <3>1, StatusesByPhase DEF SlotOK, all_at_least, Occupants
    <3>3. now + StartDelay >= 0 /\ now + StartDelay \in Int  BY StartTime
    <3> QED  BY <2>2, <2>4, <3>1, <3>2, <3>3, StatusesByPhase DEF SlotOK, occupied
  <2>7. q.start # 0 <=> q.phase >= FZ_COUNTDOWN  BY <2>4, StartTime
  <2> QED  BY <2>1, <2>4, <2>5, <2>6, <2>7, NewPhase
<1> QED  BY <1>1, <1>2

\* What entering RACING changes: the phase, and the status of the players.
LEMMA StartRacingFacts ==
  ASSUME NEW r \in RoomType
  PROVE  LET q == StartRacing(r) IN
         /\ q \in RoomType /\ Occupants(q) = Occupants(r)
         /\ q.phase = FZ_RACING /\ q.start = r.start /\ q.race = r.race
         /\ q.host = r.host /\ q.closed = r.closed /\ q.expected = r.expected
         /\ \A i \in Slots : /\ q.slot[i].armed = r.slot[i].armed
                             /\ q.slot[i].pos = r.slot[i].pos
                             /\ q.slot[i].status = IF occupied(r.slot[i]) THEN FZ_PLAYER_RACING
                                                   ELSE r.slot[i].status
<1> DEFINE s == [i \in Slots |-> IF occupied(r.slot[i])
                                 THEN [r.slot[i] EXCEPT !.status = FZ_PLAYER_RACING]
                                 ELSE r.slot[i]]
           q == StartRacing(r)
<1>1. \A i \in Slots : /\ s[i] \in PlayerType
                       /\ s[i].armed = r.slot[i].armed
                       /\ s[i].pos = r.slot[i].pos
                       /\ s[i].status = IF occupied(r.slot[i]) THEN FZ_PLAYER_RACING
                                        ELSE r.slot[i].status
  BY Zeros DEF RoomType, PlayerType
<1>2. s \in [Slots -> PlayerType]  BY <1>1
<1>3. q = [r EXCEPT !.phase = FZ_RACING, !.slot = s]  BY DEF StartRacing
<1> HIDE DEF s, q
<1>4. /\ q \in RoomType /\ q.slot = s /\ q.phase = FZ_RACING /\ q.start = r.start
      /\ q.race = r.race
      /\ q.host = r.host /\ q.closed = r.closed /\ q.expected = r.expected
  <2>1. FZ_RACING \in Phases  BY DEF Phases
  <2> QED  BY <1>2, <1>3, <2>1 DEF RoomType
<1>5. Occupants(q) = Occupants(r)  BY <1>1, <1>4 DEF Occupants, occupied
<1> QED  BY <1>1, <1>4, <1>5 DEF q

\* advance() during the countdown, which reschedules or starts the race, preserves the
\* invariant: a rescheduled start is later, so that no armed time exceeds it.
LEMMA CountDownInv ==
  ASSUME NEW r, RoomInv(r), ~r.closed, NEW now \in Times
  PROVE  RoomInv(CountDown(r, now))
<1>1. r \in RoomType /\ r.start \in Int /\ \A i \in Slots : r.slot[i].armed \in Int
  BY DEF RoomInv, RoomType, PlayerType
<1>2. CASE r.phase = FZ_COUNTDOWN /\ ~AllArmed(r) /\ now + ArmMargin >= r.start
  <2> DEFINE q == [r EXCEPT !.start = now + StartDelay]
  <2>1. CountDown(r, now) = q  BY <1>2 DEF CountDown
  <2>2. /\ q \in RoomType /\ q.slot = r.slot /\ q.phase = r.phase /\ q.start = now + StartDelay
        /\ q.host = r.host /\ q.closed = r.closed /\ q.expected = r.expected
    BY <1>1, StartTime DEF RoomType
  <2> HIDE DEF q
  <2>3. q.start > r.start /\ q.start \in Int
    BY <1>1, <1>2, <2>2, BoundAssumption, TimeAssumption DEF Times
  <2>4. Occupants(q) = Occupants(r) /\ Occupants(r) # {}
    BY <1>2, <2>2 DEF Occupants, RoomInv, HostOK
  <2>5. \A i \in Slots : SlotOK(q, i)
    <3> SUFFICES ASSUME NEW i \in Slots PROVE SlotOK(q, i)  OBVIOUS
    <3>1. SlotOK(r, i)  BY DEF RoomInv
    <3>2. r.slot[i].armed <= q.start  BY <1>1, <2>3, <3>1 DEF SlotOK
    <3> QED  BY <2>2, <3>1, <3>2 DEF SlotOK
  <2>6. q.start # 0 <=> q.phase >= FZ_COUNTDOWN  BY <1>2, <2>2, StartTime
  <2> QED  BY <2>1, <2>2, <2>4, <2>5, <2>6, NewPhase
<1>3. CASE r.phase = FZ_COUNTDOWN /\ AllArmed(r) /\ now >= r.start
  <2> DEFINE q == StartRacing(r)
  <2>1. CountDown(r, now) = q  BY <1>3 DEF CountDown
  <2>2. /\ q \in RoomType /\ Occupants(q) = Occupants(r)
        /\ q.phase = FZ_RACING /\ q.start = r.start
        /\ q.host = r.host /\ q.closed = r.closed /\ q.expected = r.expected
        /\ \A i \in Slots : /\ q.slot[i].armed = r.slot[i].armed
                            /\ q.slot[i].pos = r.slot[i].pos
                            /\ q.slot[i].status = IF occupied(r.slot[i]) THEN FZ_PLAYER_RACING
                                                  ELSE r.slot[i].status
    BY <1>1, StartRacingFacts
  <2> HIDE DEF q
  <2>3. Occupants(r) # {}  BY <1>3 DEF RoomInv, HostOK
  <2>4. \A i \in Slots : SlotOK(q, i)
    <3> SUFFICES ASSUME NEW i \in Slots PROVE SlotOK(q, i)  OBVIOUS
    <3>1. SlotOK(r, i)  BY DEF RoomInv
    <3> QED  BY <2>2, <3>1, StatusesByPhase DEF SlotOK, occupied
  <2>5. q.start # 0 <=> q.phase >= FZ_COUNTDOWN  BY <1>3, <2>2 DEF RoomInv
  <2> QED  BY <2>1, <2>2, <2>3, <2>4, <2>5, NewPhase
<1>4. CASE /\ ~(r.phase = FZ_COUNTDOWN /\ ~AllArmed(r) /\ now + ArmMargin >= r.start)
           /\ ~(r.phase = FZ_COUNTDOWN /\ AllArmed(r) /\ now >= r.start)
  BY <1>4 DEF CountDown
<1> QED  BY <1>2, <1>3, <1>4

\* advance(), RACING to RESULTS, preserves the invariant.
LEMMA EndRaceInv ==
  ASSUME NEW r, RoomInv(r)
  PROVE  RoomInv(EndRace(r))
<1>1. CASE ~(r.phase = FZ_RACING /\ all_at_least(r, FZ_FINISHED))
  BY <1>1 DEF EndRace
<1>2. CASE r.phase = FZ_RACING /\ all_at_least(r, FZ_FINISHED)
  <2> DEFINE q == [r EXCEPT !.phase = FZ_RESULTS]
  <2>1. r \in RoomType /\ EndRace(r) = q  BY <1>2 DEF RoomInv, EndRace
  <2>2. /\ q \in RoomType /\ q.slot = r.slot /\ q.phase = FZ_RESULTS /\ q.start = r.start
        /\ q.host = r.host /\ q.closed = r.closed /\ q.expected = r.expected
    BY <2>1 DEF RoomType, Phases
  <2> HIDE DEF q
  <2>3. Occupants(q) = Occupants(r) /\ Occupants(r) # {}
    BY <1>2, <2>2 DEF Occupants, all_at_least
  <2>4. \A i \in Slots : SlotOK(q, i)
    <3> SUFFICES ASSUME NEW i \in Slots PROVE SlotOK(q, i)  OBVIOUS
    <3>1. SlotOK(r, i)  BY DEF RoomInv
    <3>2. occupied(r.slot[i]) => r.slot[i].status = FZ_FINISHED
      BY <1>2, <3>1, StatusesByPhase DEF SlotOK, all_at_least, Occupants
    <3> QED  BY <2>2, <3>1, <3>2, StatusesByPhase DEF SlotOK
  <2>5. q.start # 0 <=> q.phase >= FZ_COUNTDOWN  BY <1>2, <2>2 DEF RoomInv
  <2> QED  BY <2>1, <2>2, <2>3, <2>4, <2>5, NewPhase
<1> QED  BY <1>1, <1>2

\* advance() as a whole preserves the invariant.
LEMMA AdvanceInv ==
  ASSUME NEW r, RoomInv(r), NEW now \in Times
  PROVE  RoomInv(advance(r, now))
<1> DEFINE kept == DropSilent(r, now)
           cd   == StartCountdown(StartLoading(kept), now)
<1>1. RoomInv(kept)  BY DropSilentInv
<1>2. kept \in RoomType /\ StartLoading(kept) \in RoomType
  BY <1>1, StartLoadingInv DEF RoomInv
<1>3. RoomInv(cd)  BY <1>1, StartLoadingInv, StartCountdownInv
<1>4. cd.closed = kept.closed
  <2>1. StartLoading(kept).closed = kept.closed  BY <1>2 DEF StartLoading, RoomType
  <2> QED  BY <1>2, <2>1 DEF StartCountdown, RoomType
<1>5. ~kept.closed => RoomInv(EndRace(CountDown(cd, now)))
  BY <1>3, <1>4, CountDownInv, EndRaceInv
<1> QED  BY <1>1, <1>5 DEF advance

-----------------------------------------------------------------------------

\* The condition of SlotOK on a player record p that is put into a slot of r.
PlayerOK(r, p) ==
  /\ occupied(p) => p.status \in PhaseStatuses[r.phase]
  /\ p.armed <= r.start
  /\ p.pos # 0 => p.status \in {FZ_PLAYER_LOADED, FZ_PLAYER_RACING}

\* A handler that replaces one player's record by one that is in order preserves the
\* invariant.
LEMMA UpdateSlot ==
  ASSUME NEW r, RoomInv(r), NEW i \in Slots, NEW p \in PlayerType,
         occupied(p) <=> occupied(r.slot[i]), PlayerOK(r, p)
  PROVE  RoomInv([r EXCEPT !.slot[i] = p])
<1> DEFINE q == [r EXCEPT !.slot[i] = p]
<1>1. r \in RoomType  BY DEF RoomInv
<1>2. /\ q \in RoomType /\ q.slot = [r.slot EXCEPT ![i] = p]
      /\ q.phase = r.phase /\ q.start = r.start
      /\ q.host = r.host /\ q.closed = r.closed /\ q.expected = r.expected
      /\ r.slot \in [Slots -> PlayerType]
  BY <1>1 DEF RoomType
<1> HIDE DEF q
<1>3. Occupants(q) = Occupants(r)  BY <1>2 DEF Occupants
<1>4. \A j \in Slots : SlotOK(q, j)
  BY <1>2 DEF SlotOK, PlayerOK, RoomInv
<1>5. count(q) = count(r)  BY <1>3 DEF count
<1>6. RoomInv(q)  BY <1>2, <1>3, <1>4, <1>5 DEF RoomInv, HostOK
<1> QED  BY <1>6 DEF q

\* PING preserves the invariant.
LEMMA PingInv ==
  ASSUME NEW r, RoomInv(r), NEW i \in Slots, NEW now \in Times
  PROVE  RoomInv(Ping(r, i, now))
<1> DEFINE p == [r.slot[i] EXCEPT !.seen = now]
<1>1. r.slot[i] \in PlayerType /\ SlotOK(r, i)  BY DEF RoomInv, RoomType
<1>2. p \in PlayerType /\ p.status = r.slot[i].status /\ p.armed = r.slot[i].armed /\ p.pos = r.slot[i].pos
  BY <1>1 DEF PlayerType
<1>3. Ping(r, i, now) = [r EXCEPT !.slot[i] = p]  BY DEF Ping, RoomInv, RoomType
<1> HIDE DEF p
<1>4. PlayerOK(r, p) /\ (occupied(p) <=> occupied(r.slot[i]))
  BY <1>1, <1>2 DEF PlayerOK, SlotOK, occupied
<1> QED  BY <1>2, <1>3, <1>4, UpdateSlot

\* PONG preserves the invariant.
LEMMA PongInv ==
  ASSUME NEW r, RoomInv(r), NEW i \in Slots, NEW echoes, NEW now \in Times
  PROVE  RoomInv(Pong(r, i, echoes, now))
<1> DEFINE p == [r.slot[i] EXCEPT !.ping = FALSE, !.seen = now]
<1>1. r.slot[i] \in PlayerType /\ SlotOK(r, i)  BY DEF RoomInv, RoomType
<1>2. p \in PlayerType /\ p.status = r.slot[i].status /\ p.armed = r.slot[i].armed /\ p.pos = r.slot[i].pos
  BY <1>1 DEF PlayerType
<1>3. Pong(r, i, echoes, now) \in {r, [r EXCEPT !.slot[i] = p]}
  BY DEF Pong, RoomInv, RoomType
<1> HIDE DEF p
<1>4. PlayerOK(r, p) /\ (occupied(p) <=> occupied(r.slot[i]))
  BY <1>1, <1>2 DEF PlayerOK, SlotOK, occupied
<1> QED  BY <1>2, <1>3, <1>4, UpdateSlot

\* STATE preserves the invariant: it moves a car only while its player races.
LEMMA StateInv ==
  ASSUME NEW r, RoomInv(r), NEW i \in Slots, NEW m, m.seq \in WireSeq, m.pos \in Positions,
         NEW now \in Times
  PROVE  RoomInv(State(r, i, m, now))
<1> DEFINE p == [r.slot[i] EXCEPT !.stateSeq = m.seq, !.pos = m.pos, !.seen = now]
<1>1. r.slot[i] \in PlayerType /\ SlotOK(r, i)  BY DEF RoomInv, RoomType
<1>2. p \in PlayerType /\ p.status = r.slot[i].status /\ p.armed = r.slot[i].armed
  BY <1>1 DEF PlayerType
<1>3. \/ State(r, i, m, now) = r
      \/ r.slot[i].status = FZ_PLAYER_RACING /\ State(r, i, m, now) = [r EXCEPT !.slot[i] = p]
  BY DEF State, RoomInv, RoomType
<1> HIDE DEF p
<1>4. r.slot[i].status = FZ_PLAYER_RACING =>
        PlayerOK(r, p) /\ (occupied(p) <=> occupied(r.slot[i]))
  BY <1>1, <1>2 DEF PlayerOK, SlotOK, occupied
<1> QED  BY <1>2, <1>3, <1>4, UpdateSlot

\* The periodic PINGs of poll() preserve the invariant.
LEMMA SummaryInv ==
  ASSUME NEW r, RoomInv(r)
  PROVE  RoomInv(Summary(r))
<1> DEFINE s == [i \in Slots |-> IF occupied(r.slot[i])
                                 THEN [r.slot[i] EXCEPT !.ping = TRUE] ELSE r.slot[i]]
           q == Summary(r)
<1>1. r \in RoomType  BY DEF RoomInv
<1>2. \A i \in Slots : /\ s[i] \in PlayerType
                       /\ s[i].armed = r.slot[i].armed /\ s[i].pos = r.slot[i].pos
                       /\ s[i].status = r.slot[i].status
  <2> SUFFICES ASSUME NEW i \in Slots
               PROVE  /\ s[i] \in PlayerType
                      /\ s[i].armed = r.slot[i].armed /\ s[i].pos = r.slot[i].pos
                      /\ s[i].status = r.slot[i].status
    OBVIOUS
  <2>1. r.slot[i] \in PlayerType  BY <1>1 DEF RoomType
  <2>2. s[i] \in {r.slot[i], [r.slot[i] EXCEPT !.ping = TRUE]}  OBVIOUS
  <2> HIDE DEF s
  <2> QED  BY <2>1, <2>2 DEF PlayerType
<1>3. s \in [Slots -> PlayerType]  BY <1>2
<1>4. q = [r EXCEPT !.slot = s]  BY DEF Summary
<1> HIDE DEF s, q
<1>5. /\ q \in RoomType /\ q.slot = s /\ q.phase = r.phase /\ q.start = r.start
      /\ q.host = r.host /\ q.closed = r.closed /\ q.expected = r.expected
  BY <1>1, <1>3, <1>4 DEF RoomType
<1>6. Occupants(q) = Occupants(r)  BY <1>2, <1>5 DEF Occupants, occupied
<1>7. \A i \in Slots : SlotOK(q, i)  BY <1>2, <1>5 DEF SlotOK, RoomInv, occupied
<1>8. count(q) = count(r)  BY <1>6 DEF count
<1> QED  BY <1>5, <1>6, <1>7, <1>8 DEF RoomInv, HostOK, q

-----------------------------------------------------------------------------

\* The commands with arguments of their type.
CommandType ==
  [cmd : {"SELECT"}, arg : Cars] \cup [cmd : {"LOADED"}, arg : Positions]
    \cup [cmd : {"ARM"}, arg : Nat]
    \cup [cmd : {"CONFIG"}, arg : (1 .. 5) \X Courses]
    \cup [cmd : {"FINISH", "NEXT", "LEAVE"}, arg : {0}]

\* The assignments of a valid command preserve the invariant, and the player stays.
LEMMA AssignInv ==
  ASSUME NEW r, RoomInv(r), NEW i \in Occupants(r), NEW c \in CommandType, Valid(r, i, c)
  PROVE  RoomInv(Assign(r, i, c)) /\ i \in Occupants(Assign(r, i, c))
<1> DEFINE b == r.slot[i]
<1>1. /\ i \in Slots /\ r \in RoomType /\ b \in PlayerType /\ SlotOK(r, i) /\ occupied(b)
      /\ r.start \in 0 .. MaxClock + StartDelay
  BY DEF RoomInv, RoomType, Occupants
<1>2. ASSUME NEW p \in PlayerType, occupied(p), PlayerOK(r, p)
      PROVE  RoomInv([r EXCEPT !.slot[i] = p]) /\ i \in Occupants([r EXCEPT !.slot[i] = p])
  <2>1. RoomInv([r EXCEPT !.slot[i] = p])  BY <1>1, <1>2, UpdateSlot
  <2>2. [r EXCEPT !.slot[i] = p].slot[i] = p  BY <1>1 DEF RoomType
  <2> QED  BY <1>1, <1>2, <2>1, <2>2 DEF Occupants
<1>3. CASE c.cmd = "SELECT"
  <2> DEFINE p == [b EXCEPT !.car = c.arg, !.status = FZ_SELECTED]
  <2>1. Assign(r, i, c) = [r EXCEPT !.slot[i] = p]  BY <1>1, <1>3 DEF Assign
  <2>2. c.arg \in Cars  BY <1>3 DEF CommandType
  <2>3. p \in PlayerType /\ p.status = FZ_SELECTED /\ p.armed = b.armed /\ p.pos = b.pos
    BY <1>1, <2>2, Zeros DEF PlayerType
  <2>4. r.phase = FZ_LOBBY  BY <1>3 DEF Valid
  <2> HIDE DEF p
  <2>5. PlayerOK(r, p) /\ occupied(p)
    BY <1>1, <2>3, <2>4, StatusesByPhase DEF PlayerOK, SlotOK, occupied
  <2> QED  BY <1>2, <2>1, <2>3, <2>5
<1>4. CASE c.cmd = "LOADED"
  <2> DEFINE p == [b EXCEPT !.pos = c.arg, !.status = FZ_PLAYER_LOADED]
  <2>1. Assign(r, i, c) = [r EXCEPT !.slot[i] = p]  BY <1>1, <1>4 DEF Assign
  <2>2. c.arg \in Positions  BY <1>4 DEF CommandType
  <2>3. p \in PlayerType /\ p.status = FZ_PLAYER_LOADED /\ p.armed = b.armed
    BY <1>1, <2>2, Zeros DEF PlayerType
  <2>4. r.phase = FZ_LOADING  BY <1>4 DEF Valid
  <2> HIDE DEF p
  <2>5. PlayerOK(r, p) /\ occupied(p)
    BY <1>1, <2>3, <2>4, StatusesByPhase DEF PlayerOK, SlotOK, occupied
  <2> QED  BY <1>2, <2>1, <2>3, <2>5
<1>5. CASE c.cmd = "ARM"
  <2> DEFINE p == [b EXCEPT !.armed = r.start]
  <2>1. Assign(r, i, c) = [r EXCEPT !.slot[i] = p]  BY <1>1, <1>5 DEF Assign
  <2>2. p \in PlayerType /\ p.status = b.status /\ p.armed = r.start /\ p.pos = b.pos
    BY <1>1 DEF PlayerType
  <2> HIDE DEF p
  <2>3. PlayerOK(r, p) /\ occupied(p)
    BY <1>1, <2>2 DEF PlayerOK, SlotOK, occupied
  <2> QED  BY <1>2, <2>1, <2>2, <2>3
<1>6. CASE c.cmd = "FINISH"
  <2> DEFINE p == [b EXCEPT !.pos = 0, !.status = FZ_FINISHED]
  <2>1. Assign(r, i, c) = [r EXCEPT !.slot[i] = p]  BY <1>1, <1>6 DEF Assign
  <2>2. p \in PlayerType /\ p.status = FZ_FINISHED /\ p.armed = b.armed /\ p.pos = 0
    BY <1>1, Zeros DEF PlayerType
  <2>3. r.phase = FZ_RACING  BY <1>6 DEF Valid
  <2> HIDE DEF p
  <2>4. PlayerOK(r, p) /\ occupied(p)
    BY <1>1, <2>2, <2>3, StatusesByPhase DEF PlayerOK, SlotOK, occupied
  <2> QED  BY <1>2, <2>1, <2>2, <2>4
<1>7. CASE c.cmd = "CONFIG"
  <2> DEFINE q == [r EXCEPT !.expected = c.arg[1], !.course = c.arg[2]]
  <2>1. Assign(r, i, c) = q  BY <1>7 DEF Assign
  <2>2. c.arg[1] \in 2 .. 4 /\ c.arg[1] >= count(r)  BY <1>7 DEF Valid, ValidConfig
  <2>3. c.arg[2] \in Courses  BY <1>7 DEF CommandType
  <2>4. /\ q \in RoomType /\ q.slot = r.slot /\ q.phase = r.phase /\ q.start = r.start
        /\ q.host = r.host /\ q.closed = r.closed /\ q.expected = c.arg[1]
    BY <1>1, <2>2, <2>3 DEF RoomType
  <2> HIDE DEF q
  <2>5. Occupants(q) = Occupants(r)  BY <2>4 DEF Occupants
  <2>6. \A j \in Slots : SlotOK(q, j)  BY <2>4 DEF SlotOK, RoomInv
  <2>7. count(q) <= q.expected  BY <2>2, <2>4, <2>5, OccupantsFinite DEF count
  <2> QED  BY <2>1, <2>4, <2>5, <2>6, <2>7 DEF RoomInv, HostOK
<1>8. CASE c.cmd \in {"NEXT", "LEAVE"}  BY <1>8 DEF Assign
<1> QED  BY <1>3, <1>4, <1>5, <1>6, <1>7, <1>8 DEF CommandType

\* Acknowledging a command preserves the invariant.
LEMMA AcknowledgeInv ==
  ASSUME NEW r, RoomInv(r), NEW i \in Occupants(r), NEW seq \in WireSeq, NEW now \in Times
  PROVE  RoomInv(Acknowledge(r, i, seq, now)) /\ i \in Occupants(Acknowledge(r, i, seq, now))
<1> DEFINE p == [r.slot[i] EXCEPT !.cmdSeq = seq, !.seen = now]
<1>1. i \in Slots /\ r \in RoomType /\ r.slot[i] \in PlayerType /\ SlotOK(r, i) /\ occupied(r.slot[i])
  BY DEF RoomInv, RoomType, Occupants
<1>2. p \in PlayerType /\ p.status = r.slot[i].status /\ p.armed = r.slot[i].armed /\ p.pos = r.slot[i].pos
  BY <1>1 DEF PlayerType
<1>3. Acknowledge(r, i, seq, now) = [r EXCEPT !.slot[i] = p]  BY <1>1 DEF Acknowledge
<1>4. Acknowledge(r, i, seq, now).slot[i] = p  BY <1>1, <1>3 DEF RoomType
<1> HIDE DEF p
<1>5. PlayerOK(r, p) /\ occupied(p)
  BY <1>1, <1>2 DEF PlayerOK, SlotOK, occupied
<1> QED  BY <1>1, <1>2, <1>3, <1>4, <1>5, UpdateSlot DEF Occupants

\* A COMMAND preserves the invariant, with the begin_lobby or drop() it may cause.
LEMMA CommandInv ==
  ASSUME NEW r, RoomInv(r), NEW i \in Occupants(r), NEW m, m.seq \in WireSeq, m.c \in CommandType,
         NEW now \in Times
  PROVE  RoomInv(Command(r, i, m, now))
<1>1. ASSUME NEW q, RoomInv(q), i \in Occupants(q)
      PROVE  RoomInv(Conclude(q, i, m.c))
  BY <1>1, BeginLobbyInv, DropInv DEF Conclude
<1>2. RoomInv(Execute(r, i, m.c, m.seq, now))
  BY <1>1, AssignInv, AcknowledgeInv DEF Execute
<1> QED  BY <1>2, AdvanceInv DEF Command

\* A new player preserves the invariant: into a free slot of a lobby that is not full.
LEMMA JoinInv ==
  ASSUME NEW r, RoomInv(r), NEW m, m.addr \in Addrs, m.nonce \in Nonces,
         NEW token \in Tokens \cup {0}, NEW now \in Times,
         r.phase = FZ_LOBBY, count(r) < r.expected, Occupants(r) # Slots
  PROVE  RoomInv(Join(r, m, token, now))
<1> DEFINE i == FreeSlot(r)
           p == [EmptyPlayer EXCEPT !.addr = m.addr, !.token = token,
                                    !.nonce = m.nonce, !.seen = now, !.status = FZ_JOINED]
           h == IF r.host = NoHost THEN i ELSE r.host
           q == [r EXCEPT !.slot[i] = p, !.host = h]
<1>1. /\ r \in RoomType /\ r.slot \in [Slots -> PlayerType]
      /\ r.start \in 0 .. MaxClock + StartDelay /\ r.expected \in Nat
      /\ r.host \in Slots \cup {NoHost} /\ \A j \in Slots : SlotOK(r, j)
  BY DEF RoomInv, RoomType
<1>2. i \in Slots /\ i \notin Occupants(r)
  <2>1. Slots \ Occupants(r) \in SUBSET Slots /\ Slots \ Occupants(r) # {}
    BY OccupantsFinite
  <2> QED  BY <2>1, LeastSlot DEF FreeSlot
<1> HIDE DEF i
<1>3. CASE token = 0
  <2>1. Join(r, m, token, now) = [r EXCEPT !.slot[i] = EmptyPlayer]  BY <1>3 DEF Join, i
  <2>2. PlayerOK(r, EmptyPlayer)
    BY <1>1, EmptyPlayerType, BoundAssumption, TimeAssumption DEF PlayerOK, EmptyPlayer
  <2> QED  BY <1>2, <2>1, <2>2, EmptyPlayerType, UpdateSlot DEF Occupants
<1>4. CASE token # 0
  <2>1. Join(r, m, token, now) = q  BY <1>4 DEF Join, i, h
  <2>2. /\ p \in PlayerType /\ p.status = FZ_JOINED /\ p.armed = 0 /\ p.pos = 0
    <3>1. p \in PlayerType  BY Zeros, EmptyPlayerType DEF PlayerType
    <3> QED  BY <3>1 DEF EmptyPlayer
  <2> HIDE DEF p
  <2>3. h \in Slots \cup {NoHost}  BY <1>1, <1>2
  <2>4. /\ q \in RoomType /\ q.slot = [r.slot EXCEPT ![i] = p]
        /\ q.phase = r.phase /\ q.start = r.start
        /\ q.host = h /\ q.closed = r.closed /\ q.expected = r.expected
    <3> HIDE DEF h
    <3> QED  BY <1>1, <1>2, <2>2, <2>3 DEF RoomType
  <2> HIDE DEF q
  <2>5. occupied(p)  BY <2>2 DEF occupied
  <2>6. Occupants(q) = Occupants(r) \cup {i}  BY <1>1, <1>2, <2>4, <2>5 DEF Occupants
  <2>7. count(q) <= q.expected
    <3>1. count(q) = count(r) + 1
      <4>1. IsFiniteSet(Occupants(r))  BY OccupantsFinite
      <4>2. Cardinality(Occupants(r) \cup {i}) = Cardinality(Occupants(r)) + 1
        BY ONLY <1>2, <4>1, FS_AddElement, Zenon
      <4> QED  BY <2>6, <4>2 DEF count
    <3>2. count(r) \in Nat  BY OccupantsFinite
    <3> QED  BY <1>1, <2>4, <3>1, <3>2
  <2>8. \A j \in Slots : SlotOK(q, j)
    <3> SUFFICES ASSUME NEW j \in Slots PROVE SlotOK(q, j)  OBVIOUS
    <3>1. CASE j = i
      BY <1>1, <2>2, <2>4, <2>5, <3>1, StatusesByPhase, BoundAssumption, TimeAssumption DEF SlotOK
    <3>2. CASE j # i  BY <1>1, <2>4, <3>2 DEF SlotOK
    <3> QED  BY <3>1, <3>2
  <2>9. HostOK(q)
    <3>1. NoHost \notin Slots  BY DEF NoHost, Slots
    <3>2. ~r.closed => r.host \in Occupants(r) \cup {NoHost}  BY DEF RoomInv, HostOK
    <3> QED  BY <2>4, <2>6, <3>1, <3>2 DEF HostOK
  <2>10. q.start # 0 <=> q.phase >= FZ_COUNTDOWN  BY <2>4 DEF RoomInv
  <2> QED  BY <2>1, <2>4, <2>7, <2>8, <2>9, <2>10 DEF RoomInv
<1> QED  BY <1>3, <1>4

\* HELLO preserves the invariant, whether it is accepted, rejected or repeated.
LEMMA HelloInv ==
  ASSUME NEW r, RoomInv(r), NEW m \in Hellos, NEW token \in Tokens \cup {0}, NEW now \in Times
  PROVE  RoomInv(Hello(r, m, token, now))
<1>1. m.addr \in Addrs /\ m.nonce \in Nonces  BY DEF Hellos
<1>2. CASE Joins(r, m)
  <2>1. HelloReject(r, m) = "NONE" /\ ~KnownAddress(r, m) /\ Occupants(r) # Slots
    BY <1>2 DEF Joins
  <2>2. r.phase = FZ_LOBBY /\ ~(count(r) >= r.expected)  BY <2>1 DEF HelloReject
  <2>3. count(r) < r.expected
    BY <2>2, OccupantsFinite DEF RoomInv, RoomType
  <2> QED  BY <1>1, <1>2, <2>1, <2>2, <2>3, JoinInv DEF Hello
<1>3. CASE ~Joins(r, m)  BY <1>3 DEF Hello
<1> QED  BY <1>2, <1>3

-----------------------------------------------------------------------------

\* The invariant of the server: of the room, and the types of the rest.
ServerInv ==
  /\ RoomInv(room)
  /\ issued \in 0 .. MaxTokens
  /\ pollRest \in BOOLEAN
  /\ clock \in Times

\* fz_server_create establishes the invariant.
LEMMA InitInv == ASSUME Init PROVE ServerInv
<1>1. PICK players \in 2 .. 4, course \in Courses, owner \in Owners :
          room = InitialRoom(players, course, owner)
  BY DEF Init
<1>2. /\ room \in RoomType
      /\ room.phase = FZ_LOBBY /\ room.host = NoHost /\ room.start = 0 /\ room.closed = FALSE
      /\ room.expected = players /\ \A i \in Slots : room.slot[i] = EmptyPlayer
  <2>1. 1 \in WireSeq /\ FZ_LOBBY \in Phases  BY SeqModAssumption DEF WireSeq, Phases
  <2> QED  BY <1>1, <2>1, Zeros, EmptyPlayerType DEF InitialRoom, RoomType
<1>3. Occupants(room) = {}  BY <1>2, EmptyPlayerType DEF Occupants
<1>4. count(room) <= room.expected  BY <1>2, <1>3, FS_EmptySet DEF count
<1>5. \A i \in Slots : SlotOK(room, i)  BY <1>2, EmptyPlayerType DEF SlotOK, EmptyPlayer
<1>6. RoomInv(room)  BY <1>2, <1>3, <1>4, <1>5 DEF RoomInv, HostOK
<1>7. clock \in Times /\ issued \in 0 .. MaxTokens  BY BoundAssumption DEF Init, Times
<1> QED  BY <1>6, <1>7 DEF Init, ServerInv

\* Every step preserves the invariant.
LEMMA NextInv == ASSUME ServerInv, [Next]_serverVars PROVE ServerInv'
<1> USE DEF ServerInv
<1>1. ASSUME NEW m \in Hellos, ReceiveHello(m) PROVE ServerInv'
  <2>1. PICK token \in {0} \cup (IF issued < MaxTokens THEN {issued + 1} ELSE {}) :
          /\ room' = Hello(room, m, token, clock)
          /\ issued' = IF Joins(room, m) /\ token # 0 THEN token ELSE issued
    BY <1>1 DEF ReceiveHello
  <2>2. token \in Tokens \cup {0} /\ issued' \in 0 .. MaxTokens
    BY <2>1, BoundAssumption DEF Tokens
  <2> QED  BY <1>1, <2>1, <2>2, HelloInv DEF ReceiveHello
<1>2. ASSUME NEW i \in Slots, NEW after, Receive(i, after), RoomInv(after) PROVE ServerInv'
  BY <1>2 DEF Receive, RoomInv, RoomType
<1>3. ASSUME NEW i \in Slots, ReceivePing(i) PROVE ServerInv'
  BY <1>2, <1>3, PingInv DEF ReceivePing
<1>4. ASSUME NEW i \in Slots, NEW echoes \in BOOLEAN, ReceivePong(i, echoes) PROVE ServerInv'
  BY <1>2, <1>4, PongInv DEF ReceivePong
<1>5. ASSUME NEW i \in Slots PROVE room.slot[i].stateSeq \in WireSeq /\ room.slot[i].cmdSeq \in WireSeq
  BY <1>5 DEF RoomInv, RoomType, PlayerType
<1>6. ASSUME NEW i \in Slots, NEW m \in States(room, i), ReceiveState(i, m) PROVE ServerInv'
  <2>1. m.seq \in WireSeq /\ m.pos \in Positions
    BY <1>5, WireSucc DEF States, SeqsNear
  <2> QED  BY <1>2, <1>6, <2>1, StateInv DEF ReceiveState
<1>7. ASSUME NEW i \in Slots, NEW m \in CommandPackets(room, i), ReceiveCommand(i, m) PROVE ServerInv'
  <2>1. room.start \in Nat  BY BoundAssumption, TimeAssumption DEF RoomInv, RoomType
  <2>2. m.seq \in WireSeq /\ m.c \in Commands(room)
    BY <1>5, WireSucc DEF CommandPackets, SeqsNear, Commands
  <2>3. m.c \in CommandType  BY <2>1, <2>2 DEF Commands, CommandType
  <2>4. i \in Occupants(room)  BY <1>7 DEF ReceiveCommand, Receive, Occupants
  <2> QED  BY <1>2, <1>7, <2>2, <2>3, <2>4, CommandInv DEF ReceiveCommand
<1>8. ASSUME NEW tick \in BOOLEAN, NEW summary \in BOOLEAN, PollTail(tick, summary) PROVE ServerInv'
  BY <1>8, AdvanceInv, SummaryInv DEF PollTail
<1>9. CASE Close
  <2> DEFINE q == [room EXCEPT !.open = FALSE, !.closed = TRUE]
  <2>1. room \in RoomType  BY DEF RoomInv
  <2>2. /\ q \in RoomType /\ q.slot = room.slot /\ q.closed = TRUE
        /\ q.phase = room.phase /\ q.start = room.start /\ q.expected = room.expected
    BY <2>1 DEF RoomType
  <2> HIDE DEF q
  <2>3. Occupants(q) = Occupants(room)  BY <2>2 DEF Occupants
  <2>4. \A i \in Slots : SlotOK(q, i)  BY <2>2 DEF SlotOK, RoomInv
  <2>5. count(q) = count(room)  BY <2>3 DEF count
  <2>6. RoomInv(q)  BY <2>2, <2>3, <2>4, <2>5 DEF RoomInv, HostOK
  <2> QED  BY <1>9, <2>6 DEF Close, q
<1>10. CASE PassTime  BY <1>10, BoundAssumption DEF PassTime, Times
<1>11. CASE UNCHANGED serverVars  BY <1>11 DEF serverVars
<1> QED  BY <1>1, <1>3, <1>4, <1>6, <1>7, <1>8, <1>9, <1>10, <1>11 DEF Next

-----------------------------------------------------------------------------

\* The inductive invariant holds at all times, whatever packets arrive.
THEOREM ServerInvariant == Spec => []ServerInv
  BY InitInv, NextInv, PTL DEF Spec

\* Every field of struct fz_server stays within its type, for any number of endpoints and
\* any timing constants.
THEOREM TypeCorrect == Spec => []TypeOK
<1>1. ServerInv => TypeOK  BY DEF ServerInv, RoomInv, TypeOK
<1> QED  BY <1>1, ServerInvariant, PTL

\* An open room's host is a player who is there, and a room that everybody left is back in
\* the lobby: drop() strands no race.
THEOREM HostAlwaysPresent == Spec => []HostPresent
<1>1. ServerInv => HostPresent  BY DEF ServerInv, RoomInv, HostOK, HostPresent
<1> QED  BY <1>1, ServerInvariant, PTL

\* The players' statuses, the start time and the armed times agree with the room's phase,
\* in whatever order commands, departures and timeouts are handled.
THEOREM PhasesMatchPlayers == Spec => []PhaseMatchesPlayers
<1>1. ServerInv => PhaseMatchesPlayers
  BY DEF ServerInv, RoomInv, SlotOK, PhaseMatchesPlayers, Occupants
<1> QED  BY <1>1, ServerInvariant, PTL

\* HELLO and CONFIG never lead to more players than the room is configured for.
THEOREM CapacityRespected == Spec => []WithinCapacity
<1>1. ServerInv => WithinCapacity  BY DEF ServerInv, RoomInv, WithinCapacity
<1> QED  BY <1>1, ServerInvariant, PTL

\* Only a loaded or racing player has a car on the track: no late STATE brings one back.
THEOREM NoGhostCars == Spec => []NoGhostCar
<1>1. ServerInv => NoGhostCar  BY DEF ServerInv, RoomInv, SlotOK, NoGhostCar
<1> QED  BY <1>1, ServerInvariant, PTL

-----------------------------------------------------------------------------

\* How a step may leave a room r in which everybody has armed: with its start time, or
\* empty and in the lobby of the next race.
Committed(r, q) ==
  /\ q \in RoomType
  /\ \/ /\ q.race = r.race /\ q.start = r.start /\ q.phase = FZ_COUNTDOWN /\ AllArmed(q)
     \/ q.race = fz_succ(r.race) /\ Occupants(q) = {}

\* A departure does not undo the commitment: those who stay have all armed.
LEMMA CommittedDrop ==
  ASSUME NEW r \in RoomType, NEW x, Committed(r, x), NEW i \in Occupants(x)
  PROVE  Committed(r, drop(x, i))
<1> DEFINE gone == Disconnect(x, i)
<1>1. /\ x \in RoomType /\ i \in Slots
      /\ x.race = r.race /\ x.start = r.start /\ x.phase = FZ_COUNTDOWN /\ AllArmed(x)
  BY DEF Committed, Occupants
<1>2. /\ gone \in RoomType /\ Occupants(gone) = Occupants(x) \ {i}
      /\ gone.phase = FZ_COUNTDOWN /\ gone.start = r.start /\ gone.race = r.race
      /\ \A j \in Slots : gone.slot[j].armed = x.slot[j].armed
  BY <1>1, DisconnectFacts
<1>3. AllArmed(gone)
  BY <1>1, <1>2 DEF AllArmed, Armed, Occupants
<1> HIDE DEF gone
<1>4. CASE x.owner # 0 /\ i = 0
  <2> DEFINE q == [gone EXCEPT !.closed = TRUE]
  <2>1. drop(x, i) = q  BY <1>4 DEF drop, gone
  <2>2. /\ q \in RoomType /\ q.slot = gone.slot /\ q.phase = gone.phase
        /\ q.start = gone.start /\ q.race = gone.race
    BY <1>2 DEF RoomType
  <2> HIDE DEF q
  <2>3. AllArmed(q)  BY <1>3, <2>2 DEF AllArmed, Armed, Occupants
  <2> QED  BY <1>2, <2>1, <2>2, <2>3 DEF Committed
<1>5. CASE ~(x.owner # 0 /\ i = 0)
  <2> DEFINE f == [gone EXCEPT !.host = NewHost(gone, i)]
             l == [begin_lobby(f) EXCEPT !.host = NoHost]
  <2>1. drop(x, i) = IF Occupants(f) = {} THEN l ELSE f
    BY <1>2, <1>5 DEF drop, Release, gone
  <2>2. /\ f \in RoomType /\ f.slot = gone.slot /\ f.phase = gone.phase
        /\ f.start = gone.start /\ f.race = gone.race
    BY <1>1, <1>2, NewHostType DEF RoomType
  <2> HIDE DEF f
  <2>3. CASE Occupants(f) # {}
    <3>1. AllArmed(f)  BY <1>3, <2>2 DEF AllArmed, Armed, Occupants
    <3> QED  BY <1>2, <2>1, <2>2, <2>3, <3>1 DEF Committed
  <2>4. CASE Occupants(f) = {}
    <3> DEFINE b == begin_lobby(f)
    <3>1. b \in RoomType /\ Occupants(b) = {} /\ b.race = fz_succ(r.race)
      BY <1>2, <2>2, <2>4, BeginLobbyFacts
    <3>2. l \in RoomType /\ l.slot = b.slot /\ l.race = b.race  BY <3>1 DEF RoomType
    <3> HIDE DEF b, l
    <3>3. Occupants(l) = {}  BY <3>1, <3>2 DEF Occupants
    <3> QED  BY <2>1, <2>4, <3>1, <3>2, <3>3 DEF Committed
  <2> QED  BY <2>3, <2>4
<1> QED  BY <1>4, <1>5

\* advance() does not reschedule a committed start.
LEMMA CommittedAdvance ==
  ASSUME NEW r \in RoomType, NEW x, Committed(r, x), NEW now
  PROVE  advance(x, now).race = r.race => advance(x, now).start = r.start
<1> DEFINE kept == DropSilent(x, now)
<1>1. Committed(r, kept)
  <2>1. ASSUME NEW y, Committed(r, y), NEW i \in Slots PROVE Committed(r, DropIfSilent(y, i, now))
    BY <2>1, CommittedDrop DEF DropIfSilent, Occupants
  <2>2. 0 \in Slots /\ 1 \in Slots /\ 2 \in Slots /\ 3 \in Slots  BY DEF Slots
  <2> QED  BY <2>1, <2>2 DEF DropSilent
<1> HIDE DEF kept
<1>2. advance(x, now) = IF kept.closed THEN kept
                        ELSE EndRace(CountDown(StartCountdown(StartLoading(kept), now), now))
  BY DEF advance, kept
<1>3. kept \in RoomType  BY <1>1 DEF Committed
<1>4. fz_succ(r.race) # r.race  BY WireSucc DEF RoomType
<1>5. CASE kept.race = r.race /\ kept.start = r.start /\ kept.phase = FZ_COUNTDOWN /\ AllArmed(kept)
  <2>1. StartCountdown(StartLoading(kept), now) = kept  BY <1>5 DEF StartLoading, StartCountdown
  <2>2. CountDown(kept, now) \in {kept, StartRacing(kept)}  BY <1>5 DEF CountDown
  <2>3. /\ CountDown(kept, now) \in RoomType
        /\ CountDown(kept, now).start = kept.start
    BY <1>3, <2>2, StartRacingFacts
  <2>4. EndRace(CountDown(kept, now)).start = kept.start
    BY <2>3 DEF EndRace, RoomType
  <2> QED  BY <1>2, <1>5, <2>1, <2>4
<1>6. CASE kept.race = fz_succ(r.race) /\ Occupants(kept) = {}
  <2>1. StartCountdown(StartLoading(kept), now) = kept
    BY <1>6 DEF StartLoading, StartCountdown, all_at_least
  <2>2. /\ CountDown(kept, now) \in RoomType \/ CountDown(kept, now) = [kept EXCEPT !.start = now + StartDelay]
        /\ CountDown(kept, now).race = kept.race
    <3>1. CountDown(kept, now) \in {kept, StartRacing(kept), [kept EXCEPT !.start = now + StartDelay]}
      BY DEF CountDown
    <3>2. [kept EXCEPT !.start = now + StartDelay].race = kept.race  BY <1>3 DEF RoomType
    <3> QED  BY <1>3, <3>1, <3>2, StartRacingFacts
  <2>3. EndRace(CountDown(kept, now)).race = kept.race
    BY <1>3, <2>2 DEF EndRace, RoomType
  <2> QED  BY <1>2, <1>4, <1>6, <2>1, <2>3
<1> QED  BY <1>1, <1>5, <1>6 DEF Committed

\* No command undoes the commitment.
LEMMA CommittedExecute ==
  ASSUME NEW r \in RoomType, r.phase = FZ_COUNTDOWN, AllArmed(r), NEW i \in Occupants(r),
         NEW c \in CommandType, NEW seq \in WireSeq, NEW now \in Times
  PROVE  Committed(r, Execute(r, i, c, seq, now))
<1>1. i \in Slots /\ r.slot[i] \in PlayerType  BY DEF Occupants, RoomType
<1>2. Committed(r, r)  BY DEF Committed
<1>3. ASSUME NEW x, Committed(r, x), i \in Occupants(x)
      PROVE  Committed(r, Acknowledge(x, i, seq, now)) /\ i \in Occupants(Acknowledge(x, i, seq, now))
  <2> DEFINE p == [x.slot[i] EXCEPT !.cmdSeq = seq, !.seen = now]
             q == [x EXCEPT !.slot[i] = p]
  <2>1. x \in RoomType /\ x.race = r.race /\ x.start = r.start /\ x.phase = FZ_COUNTDOWN /\ AllArmed(x)
    BY <1>3 DEF Committed
  <2>2. x.slot \in [Slots -> PlayerType]  BY <2>1 DEF RoomType
  <2>3. p \in PlayerType /\ p.status = x.slot[i].status /\ p.armed = x.slot[i].armed
    BY <1>1, <2>2 DEF PlayerType
  <2>4. Acknowledge(x, i, seq, now) = q  BY DEF Acknowledge
  <2> HIDE DEF p
  <2>5. /\ q \in RoomType /\ q.slot = [x.slot EXCEPT ![i] = p] /\ q.phase = x.phase
        /\ q.start = x.start /\ q.race = x.race
    BY <1>1, <2>1, <2>3 DEF RoomType
  <2> HIDE DEF q
  <2>6. Occupants(q) = Occupants(x)  BY <2>2, <2>3, <2>5 DEF Occupants, occupied
  <2>7. \A j \in Slots : q.slot[j].armed = x.slot[j].armed  BY <1>1, <2>2, <2>3, <2>5
  <2>8. AllArmed(q)  BY <2>1, <2>5, <2>6, <2>7 DEF AllArmed, Armed, Occupants
  <2> QED  BY <1>3, <2>1, <2>4, <2>5, <2>6, <2>8 DEF Committed
<1>4. CASE ~Valid(r, i, c)  BY <1>2, <1>3, <1>4 DEF Execute
<1>5. CASE Valid(r, i, c)
  <2>1. c.cmd \in {"ARM", "LEAVE"}
    <3>1. c.cmd \in {"SELECT", "LOADED", "ARM", "CONFIG", "FINISH", "NEXT", "LEAVE"}
      BY DEF CommandType
    <3>2. c.cmd = "SELECT" => r.phase = FZ_LOBBY  BY <1>5 DEF Valid
    <3>3. c.cmd = "LOADED" => r.phase = FZ_LOADING  BY <1>5 DEF Valid
    <3>4. c.cmd = "CONFIG" => r.phase = FZ_LOBBY  BY <1>5 DEF Valid, ValidConfig
    <3>5. c.cmd = "FINISH" => r.phase = FZ_RACING  BY <1>5 DEF Valid
    <3>6. c.cmd = "NEXT" => r.phase \in {FZ_RESULTS, FZ_LOBBY}  BY <1>5 DEF Valid
    <3> QED  BY <3>1, <3>2, <3>3, <3>4, <3>5, <3>6
  <2>2. CASE c.cmd = "LEAVE"
    <3>1. Assign(r, i, c) = r  BY <2>2 DEF Assign
    <3>2. Execute(r, i, c, seq, now) = drop(Acknowledge(r, i, seq, now), i)
      BY <1>5, <2>2, <3>1 DEF Execute, Conclude
    <3> QED  BY <1>2, <1>3, <3>2, CommittedDrop
  <2>3. CASE c.cmd = "ARM"
    <3> DEFINE p == [r.slot[i] EXCEPT !.armed = r.start]
    <3>1. p = r.slot[i]
      BY <1>1 DEF AllArmed, Armed, Occupants, PlayerType
    <3>2. Assign(r, i, c) = r  BY <2>3, <3>1, <1>1 DEF Assign, RoomType
    <3>3. Execute(r, i, c, seq, now) = Acknowledge(r, i, seq, now)
      BY <1>5, <2>3, <3>2 DEF Execute, Conclude
    <3> QED  BY <1>2, <1>3, <3>3
  <2> QED  BY <2>1, <2>2, <2>3
<1> QED  BY <1>4, <1>5

\* A step that stays in the race leaves a committed start time alone.
LEMMA CommitStep ==
  ASSUME ServerInv, [Next]_serverVars, room.phase = FZ_COUNTDOWN, AllArmed(room),
         room'.race = room.race
  PROVE  room'.start = room.start
<1>1. room \in RoomType /\ clock \in Times /\ RoomInv(room)  BY DEF ServerInv, RoomInv
<1>2. Committed(room, room)  BY <1>1 DEF Committed
<1>3. ASSUME NEW m \in Hellos, ReceiveHello(m) PROVE room'.start = room.start
  <2>1. ~Joins(room, m)
    <3>1. HelloReject(room, m) = "NONE" => KnownAddress(room, m)  BY DEF HelloReject
    <3> QED  BY <3>1 DEF Joins
  <2> QED  BY <1>3, <2>1 DEF ReceiveHello, Hello
<1>4. ASSUME NEW i \in Slots, ReceivePing(i) PROVE room'.start = room.start
  BY <1>1, <1>4 DEF ReceivePing, Receive, Ping, RoomType
<1>5. ASSUME NEW i \in Slots, NEW echoes \in BOOLEAN, ReceivePong(i, echoes)
      PROVE  room'.start = room.start
  BY <1>1, <1>5 DEF ReceivePong, Receive, Pong, RoomType
<1>6. ASSUME NEW i \in Slots, NEW m \in States(room, i), ReceiveState(i, m)
      PROVE  room'.start = room.start
  BY <1>1, <1>6 DEF ReceiveState, Receive, State, RoomType
<1>7. ASSUME NEW i \in Slots, NEW m \in CommandPackets(room, i), ReceiveCommand(i, m)
      PROVE  room'.start = room.start
  <2>1. room.start \in Nat  BY <1>1, BoundAssumption, TimeAssumption DEF RoomType
  <2>2. room.slot[i].cmdSeq \in WireSeq  BY <1>1 DEF RoomType, PlayerType
  <2>3. m.seq \in WireSeq /\ m.c \in Commands(room)
    BY <2>2, WireSucc DEF CommandPackets, SeqsNear, Commands
  <2>4. m.c \in CommandType  BY <2>1, <2>3 DEF Commands, CommandType
  <2>5. i \in Occupants(room)  BY <1>7 DEF ReceiveCommand, Receive, Occupants
  <2>6. Committed(room, Execute(room, i, m.c, m.seq, clock))
    BY <1>1, <2>3, <2>4, <2>5, CommittedExecute
  <2>7. Command(room, i, m, clock) \in {room, advance(Execute(room, i, m.c, m.seq, clock), clock)}
    BY DEF Command
  <2> QED  BY <1>1, <1>7, <2>6, <2>7, CommittedAdvance DEF ReceiveCommand, Receive
<1>8. ASSUME NEW tick \in BOOLEAN, NEW summary \in BOOLEAN, PollTail(tick, summary)
      PROVE  room'.start = room.start
  <2> DEFINE t == IF tick THEN advance(room, clock) ELSE room
  <2>1. t.race = room.race => t.start = room.start  BY <1>1, <1>2, CommittedAdvance
  <2>2. t \in RoomType  BY <1>1, AdvanceInv DEF RoomInv
  <2>3. room' = IF summary THEN Summary(t) ELSE t  BY <1>8 DEF PollTail
  <2> HIDE DEF t
  <2>4. Summary(t).race = t.race /\ Summary(t).start = t.start  BY <2>2 DEF Summary, RoomType
  <2> QED  BY <2>1, <2>3, <2>4
<1>9. CASE Close  BY <1>1, <1>9 DEF Close, RoomType
<1>10. CASE PassTime  BY <1>10 DEF PassTime
<1>11. CASE UNCHANGED serverVars  BY <1>11 DEF serverVars
<1> QED  BY <1>3, <1>4, <1>5, <1>6, <1>7, <1>8, <1>9, <1>10, <1>11 DEF Next

\* Once everybody has armed, the start time stands for the rest of the race, so that each
\* client may start on its own clock. It follows from the invariant, which bounds every
\* armed time by the start, and from what each handler does to a committed room.
THEOREM StartStaysCommitted == Spec => StartIsCommitted
<1>1. ServerInv /\ [Next]_serverVars =>
        [room.phase = FZ_COUNTDOWN /\ AllArmed(room) /\ room'.race = room.race
           => room'.start = room.start]_serverVars
  BY CommitStep
<1> QED  BY <1>1, ServerInvariant, PTL DEF Spec, StartIsCommitted
=============================================================================
