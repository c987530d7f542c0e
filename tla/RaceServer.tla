----------------------------- MODULE RaceServer -----------------------------
(***************************************************************************)
(* The authoritative race server, src/server/src/server.c.                 *)
(*                                                                         *)
(* The server is single threaded: every handler runs to completion on one  *)
(* Server structure. The structure is the record `room'; the C functions   *)
(* that update it in place are operators from a room to a room, composed   *)
(* in the order the code calls them, so that each action below is a whole  *)
(* handler: the command, the advance() and the drop()s that it triggers.   *)
(*                                                                         *)
(* The environment is unconstrained: any HELLO from any address, and any   *)
(* packet with the session and token of an occupied slot, may arrive at    *)
(* any time. That covers loss, duplication and reordering. Packets that    *)
(* fail decoding, authentication or a length check only count a statistic  *)
(* and are stutters here. Statistics, logging and RTT are left out.        *)
(***************************************************************************)
EXTENDS FzvsProtocol, FiniteSetsExt

CONSTANTS
  Addrs,          \* UDP endpoints that may talk to the server
  NoAddr,         \* the address of an empty slot
  Nonces,         \* values of the random HELLO nonce
  Owners,         \* values of owner_nonce: that of a hosted room, 0 for a dedicated one
  Cars,           \* machine IDs; 0 is a machine and the initial value
  Positions,      \* x,y of a car; 0 stands for x = y = 0, "not on the track"
  Courses,        \* track and league of the room
  MaxTokens,      \* bound: successful joins in a behaviour
  MaxClock,       \* bound: length of a behaviour in clock units
  Timeout,        \* heartbeat timeout                     (5 s in the code)
  StartDelay,     \* from scheduling a start to the start  (2 s)
  ArmMargin       \* a start is rescheduled this early   (0.5 s)

ASSUME AddrAssumption == NoAddr \notin Addrs
ASSUME NonceAssumption == Nonces \subseteq Nat \ {0} /\ Owners \subseteq Nonces \cup {0} /\ Owners # {}
ASSUME DataAssumption == 0 \in Cars /\ 0 \in Positions /\ Courses # {}
ASSUME BoundAssumption == MaxTokens \in Nat /\ MaxClock \in Nat \ {0}
ASSUME TimeAssumption == /\ Timeout \in Nat \ {0}
                         /\ StartDelay \in Nat
                         /\ ArmMargin \in Nat
                         /\ ArmMargin < StartDelay

VARIABLES
  room,       \* struct fz_server
  issued,     \* tokens random_id() has returned so far; the last one is `issued'
  pollRest,   \* a packet closed the room and the rest of that poll has yet to run
  clock       \* now_us(), the monotonic clock, in units of StartDelay/ArmMargin

serverVars == <<room, issued, pollRest, clock>>

NoHost == 255

Tokens == 1 .. MaxTokens
Times  == 0 .. MaxClock

PlayerType ==
  [ status : Statuses, addr : Addrs \cup {NoAddr}, nonce : Nonces \cup {0},
    token : Tokens \cup {0}, cmdSeq : WireSeq, stateSeq : WireSeq,
    car : Cars, pos : Positions, seen : Times,
    armed : 0 .. MaxClock + StartDelay, ping : BOOLEAN ]

RoomType ==
  [ phase : Phases, expected : 2 .. 4, host : Slots \cup {NoHost},
    course : Courses, race : WireSeq, start : 0 .. MaxClock + StartDelay,
    closed : BOOLEAN, open : BOOLEAN, owner : Owners,
    slot : [Slots -> PlayerType] ]

\* memset(p,0,sizeof(*p))
EmptyPlayer ==
  [ status |-> FZ_EMPTY, addr |-> NoAddr, nonce |-> 0, token |-> 0,
    cmdSeq |-> 0, stateSeq |-> 0, car |-> 0, pos |-> 0, seen |-> 0,
    armed |-> 0, ping |-> FALSE ]

\* fz_server_create: a valid configuration, before the first poll. Time starts
\* at 1 because a clock value of 0 means "never" in start and armed.
InitialRoom(players, course, owner) ==
  [ phase |-> FZ_LOBBY, expected |-> players, host |-> NoHost,
    course |-> course, race |-> 1, start |-> 0,
    closed |-> FALSE, open |-> TRUE, owner |-> owner,
    slot |-> [i \in Slots |-> EmptyPlayer] ]

-----------------------------------------------------------------------------
(* Queries on a room.                                                      *)

occupied(p) == p.status # FZ_EMPTY /\ p.status # FZ_DISCONNECTED

Occupants(r) == {i \in Slots : occupied(r.slot[i])}

count(r) == Cardinality(Occupants(r))

all_at_least(r, st) ==
  /\ Occupants(r) # {}
  /\ \A i \in Occupants(r) : r.slot[i].status >= st

\* The armed bits of a snapshot, and the test of advance() in COUNTDOWN.
Armed(r)    == {i \in Occupants(r) : r.slot[i].armed = r.start}
AllArmed(r) == Armed(r) = Occupants(r)

-----------------------------------------------------------------------------
(* The functions that update a room.                                       *)

\* Mutant: a new lobby keeps the armed time of the last race.
LobbyPlayer_StaysArmed(p) ==
  IF occupied(p)
  THEN [p EXCEPT !.status = FZ_JOINED, !.pos = 0, !.stateSeq = 0]
  ELSE EmptyPlayer

LobbyPlayer(p) ==
  IF occupied(p)
  THEN [p EXCEPT !.status = FZ_JOINED, !.pos = 0, !.armed = 0, !.stateSeq = 0]
  ELSE EmptyPlayer

begin_lobby(r) ==
  [r EXCEPT !.race = fz_succ(@), !.start = 0, !.phase = FZ_LOBBY,
            !.slot = [i \in Slots |-> LobbyPlayer(r.slot[i])]]

\* Mutant: nobody takes over from a host that leaves.
NewHost_None(r, i) == IF r.host # i THEN r.host ELSE NoHost

\* The next host is the occupied slot with the lowest index.
NewHost(r, i) ==
  IF r.host # i THEN r.host
  ELSE IF Occupants(r) = {} THEN NoHost
  ELSE Min(Occupants(r))

Disconnect(r, i) ==
  [r EXCEPT !.slot[i] = [@ EXCEPT !.status = FZ_DISCONNECTED, !.pos = 0]]

\* The part of drop() that a dedicated room, or a guest's slot, goes through.
Release(r, i) ==
  LET hosted == [r EXCEPT !.host = NewHost(r, i)]
      freed  == IF r.phase = FZ_LOBBY
                THEN [hosted EXCEPT !.slot[i] = EmptyPlayer] ELSE hosted
  IN  IF Occupants(freed) = {}
      THEN [begin_lobby(freed) EXCEPT !.host = NoHost] ELSE freed

drop(r, i) ==
  LET gone == Disconnect(r, i)
  IN  IF r.owner # 0 /\ i = 0
      THEN [gone EXCEPT !.closed = TRUE]
      ELSE Release(gone, i)

DropIfSilent(r, i, now) ==
  IF occupied(r.slot[i]) /\ now - r.slot[i].seen >= Timeout THEN drop(r, i) ELSE r

\* The loop of advance() over the four slots, lowest first.
DropSilent(r, now) ==
  DropIfSilent(DropIfSilent(DropIfSilent(DropIfSilent(r, 0, now), 1, now), 2, now), 3, now)

StartLoading(r) ==
  IF r.phase = FZ_LOBBY /\ count(r) = r.expected /\ all_at_least(r, FZ_SELECTED)
  THEN [r EXCEPT !.phase = FZ_LOADING] ELSE r

StartCountdown(r, now) ==
  IF r.phase = FZ_LOADING /\ all_at_least(r, FZ_PLAYER_LOADED)
  THEN [r EXCEPT !.start = now + StartDelay, !.phase = FZ_COUNTDOWN,
                 !.slot = [i \in Slots |-> [r.slot[i] EXCEPT !.armed = 0]]]
  ELSE r

StartRacing(r) ==
  [r EXCEPT !.phase = FZ_RACING,
            !.slot = [i \in Slots |-> IF occupied(r.slot[i])
                                      THEN [r.slot[i] EXCEPT !.status = FZ_PLAYER_RACING]
                                      ELSE r.slot[i]]]

\* Mutant: the start is rescheduled although everybody has armed.
CountDown_Reschedules(r, now) ==
  CASE r.phase = FZ_COUNTDOWN /\ now + ArmMargin >= r.start /\ now < r.start
         -> [r EXCEPT !.start = now + StartDelay]
    [] r.phase = FZ_COUNTDOWN /\ AllArmed(r) /\ now >= r.start
         -> StartRacing(r)
    [] OTHER -> r

\* Mutant: the race starts on time for those who have armed.
CountDown_NoBarrier(r, now) ==
  CASE r.phase = FZ_COUNTDOWN /\ Armed(r) = {} /\ now + ArmMargin >= r.start
         -> [r EXCEPT !.start = now + StartDelay]
    [] r.phase = FZ_COUNTDOWN /\ Armed(r) # {} /\ now >= r.start
         -> StartRacing(r)
    [] OTHER -> r

CountDown(r, now) ==
  CASE r.phase = FZ_COUNTDOWN /\ ~AllArmed(r) /\ now + ArmMargin >= r.start
         -> [r EXCEPT !.start = now + StartDelay]
    [] r.phase = FZ_COUNTDOWN /\ AllArmed(r) /\ now >= r.start
         -> StartRacing(r)
    [] OTHER -> r

EndRace(r) ==
  IF r.phase = FZ_RACING /\ all_at_least(r, FZ_FINISHED)
  THEN [r EXCEPT !.phase = FZ_RESULTS] ELSE r

advance(r, now) ==
  LET kept == DropSilent(r, now)
  IN  IF kept.closed THEN kept
      ELSE EndRace(CountDown(StartCountdown(StartLoading(kept), now), now))

-----------------------------------------------------------------------------
(* receive_packet: HELLO.                                                  *)

KnownAddress(r, p) == \E i \in Occupants(r) : r.slot[i].addr = p.addr

\* Mutant: a guest may join before the owner.
HelloReject_NoOwnerFirst(r, p) ==
  CASE ~p.key -> "PASSWORD"
    [] KnownAddress(r, p) -> "NONE"
    [] r.phase # FZ_LOBBY -> "RACING"
    [] count(r) >= r.expected -> "FULL"
    [] OTHER -> "NONE"

\* The reason for which join_error answers a HELLO, in the order of the checks;
\* "NONE" when the HELLO is not refused.
HelloReject(r, p) ==
  CASE ~p.key -> "PASSWORD"
    [] r.owner # 0 /\ ~occupied(r.slot[0]) /\ p.nonce # r.owner -> "STARTING"
    [] KnownAddress(r, p) -> "NONE"
    [] r.phase # FZ_LOBBY -> "RACING"
    [] count(r) >= r.expected -> "FULL"
    [] OTHER -> "NONE"

FreeSlot(r) == Min(Slots \ Occupants(r))

\* A HELLO that gets a slot. Token 0 is a failed read of the random source.
Join(r, p, token, now) ==
  LET i == FreeSlot(r)
  IN  IF token = 0 THEN [r EXCEPT !.slot[i] = EmptyPlayer]
      ELSE [r EXCEPT !.slot[i] = [EmptyPlayer EXCEPT !.addr = p.addr, !.token = token,
                                     !.nonce = p.nonce, !.seen = now, !.status = FZ_JOINED],
                     !.host = IF @ = NoHost THEN i ELSE @]

\* Mutant: a repeated HELLO gets another slot.
Joins_Repeated(r, p) == /\ HelloReject(r, p) = "NONE"
                        /\ count(r) < r.expected
                        /\ r.phase = FZ_LOBBY

\* A HELLO from a known address changes nothing: it is answered by WELCOME when
\* the nonce is the slot's, and ignored otherwise.
Joins(r, p) == /\ HelloReject(r, p) = "NONE"
               /\ ~KnownAddress(r, p)
               /\ Occupants(r) # Slots

Hello(r, p, token, now) == IF Joins(r, p) THEN Join(r, p, token, now) ELSE r

-----------------------------------------------------------------------------
(* receive_packet: packets of a joined player.                             *)

\* The slot whose endpoint, session and token a packet carries.
Sender(r, p) == {i \in Occupants(r) : r.slot[i].token = p.token /\ r.slot[i].addr = p.addr}

\* A PONG counts when it echoes the outstanding PING; its time is abstracted.
Pong(r, i, echoes, now) ==
  IF r.slot[i].ping /\ echoes
  THEN [r EXCEPT !.slot[i] = [@ EXCEPT !.ping = FALSE, !.seen = now]] ELSE r

Ping(r, i, now) == [r EXCEPT !.slot[i] = [@ EXCEPT !.seen = now]]

\* Mutant: the status of the player is not tested.
State_AnyStatus(r, i, p, now) ==
  IF p.race = r.race /\ r.phase = FZ_RACING /\ fz_newer(p.seq, r.slot[i].stateSeq)
  THEN [r EXCEPT !.slot[i] = [@ EXCEPT !.stateSeq = p.seq, !.pos = p.pos, !.seen = now]]
  ELSE r

State(r, i, p, now) ==
  IF /\ p.race = r.race
     /\ r.phase = FZ_RACING
     /\ r.slot[i].status = FZ_PLAYER_RACING
     /\ fz_newer(p.seq, r.slot[i].stateSeq)
  THEN [r EXCEPT !.slot[i] = [@ EXCEPT !.stateSeq = p.seq, !.pos = p.pos, !.seen = now]]
  ELSE r

\* Mutant: CONFIG is possible after the lobby.
ValidConfig_AnyPhase(r, i, players) == i = r.host /\ players \in 2 .. 4 /\ players >= count(r)

ValidConfig(r, i, players) ==
  i = r.host /\ r.phase = FZ_LOBBY /\ players \in 2 .. 4 /\ players >= count(r)

\* Whether a well-sequenced command is valid in the room's present phase.
Valid(r, i, c) ==
  CASE c.cmd = "SELECT" -> r.phase = FZ_LOBBY
    [] c.cmd = "LOADED" -> r.phase = FZ_LOADING
    [] c.cmd = "ARM"    -> r.phase = FZ_COUNTDOWN /\ c.arg = r.start
    [] c.cmd = "FINISH" -> r.phase = FZ_RACING /\ r.slot[i].status = FZ_PLAYER_RACING
    [] c.cmd = "NEXT"   -> i = r.host /\ r.phase \in {FZ_RESULTS, FZ_LOBBY}
    [] c.cmd = "CONFIG" -> ValidConfig(r, i, c.arg[1])
    [] c.cmd = "LEAVE"  -> TRUE

\* What the switch assigns for a valid command.
Assign(r, i, c) ==
  CASE c.cmd = "SELECT" -> [r EXCEPT !.slot[i] = [@ EXCEPT !.car = c.arg, !.status = FZ_SELECTED]]
    [] c.cmd = "LOADED" -> [r EXCEPT !.slot[i] = [@ EXCEPT !.pos = c.arg, !.status = FZ_PLAYER_LOADED]]
    [] c.cmd = "ARM"    -> [r EXCEPT !.slot[i] = [@ EXCEPT !.armed = r.start]]
    [] c.cmd = "FINISH" -> [r EXCEPT !.slot[i] = [@ EXCEPT !.pos = 0, !.status = FZ_FINISHED]]
    [] c.cmd = "CONFIG" -> [r EXCEPT !.expected = c.arg[1], !.course = c.arg[2]]
    [] OTHER            -> r

\* Every well-sequenced command is acknowledged, valid or not.
Acknowledge(r, i, seq, now) ==
  [r EXCEPT !.slot[i] = [@ EXCEPT !.cmdSeq = seq, !.seen = now]]

\* What the handler calls for a valid command after acknowledging it.
Conclude(r, i, c) ==
  CASE c.cmd = "NEXT"  -> begin_lobby(r)
    [] c.cmd = "LEAVE" -> drop(r, i)
    [] OTHER           -> r

Execute(r, i, c, seq, now) ==
  IF Valid(r, i, c)
  THEN Conclude(Acknowledge(Assign(r, i, c), i, seq, now), i, c)
  ELSE Acknowledge(r, i, seq, now)

Command(r, i, p, now) ==
  IF /\ p.race = r.race
     /\ fz_newer(p.seq, r.slot[i].cmdSeq)
     /\ p.seq = fz_succ(r.slot[i].cmdSeq)
  THEN advance(Execute(r, i, p.c, p.seq, now), now) ELSE r

-----------------------------------------------------------------------------
(* The tail of fz_server_poll.                                             *)

\* The periodic summary sends a PING to every player.
Summary(r) ==
  [r EXCEPT !.slot = [i \in Slots |-> IF occupied(r.slot[i])
                                      THEN [r.slot[i] EXCEPT !.ping = TRUE]
                                      ELSE r.slot[i]]]

-----------------------------------------------------------------------------
(* Actions.                                                                *)

(* Inputs. A counter in a packet is the expected one, a duplicate or beyond *)
(* a gap, and a race or an ARM time is the room's own or another: any other *)
(* value takes the same path as one of these. A command of another race or  *)
(* out of sequence is dropped unread; LEAVE stands for all of them.         *)
SeqsNear(n)  == {n, fz_succ(n), fz_succ(fz_succ(n))}
RacesNear(r) == {r.race, fz_succ(r.race)}

Hellos == [addr : Addrs, nonce : Nonces, key : BOOLEAN]

States(r, i) ==
  [race : RacesNear(r), seq : SeqsNear(r.slot[i].stateSeq), pos : Positions]

Commands(r) ==
  [cmd : {"SELECT"}, arg : Cars] \cup [cmd : {"LOADED"}, arg : Positions]
    \cup [cmd : {"ARM"}, arg : {0, r.start}]
    \cup [cmd : {"CONFIG"}, arg : (1 .. 5) \X Courses]
    \cup [cmd : {"FINISH", "NEXT", "LEAVE"}, arg : {0}]

CommandPackets(r, i) ==
  [race : {r.race}, seq : {fz_succ(r.slot[i].cmdSeq)}, c : Commands(r)]
    \cup [race : RacesNear(r), seq : SeqsNear(r.slot[i].cmdSeq),
          c : [cmd : {"LEAVE"}, arg : {0}]]

ReceiveHello(p) ==
  /\ room.open /\ ~room.closed
  /\ \E token \in {0} \cup (IF issued < MaxTokens THEN {issued + 1} ELSE {}) :
       /\ room' = Hello(room, p, token, clock)
       /\ issued' = IF Joins(room, p) /\ token # 0 THEN token ELSE issued
  /\ UNCHANGED <<pollRest, clock>>

\* A packet of slot i, handled by one of the operators above.
Receive(i, after) ==
  /\ room.open /\ ~room.closed
  /\ occupied(room.slot[i])
  /\ room' = after
  /\ pollRest' = after.closed
  /\ UNCHANGED <<issued, clock>>

ReceivePing(i)       == Receive(i, Ping(room, i, clock))
ReceivePong(i, echoes) == Receive(i, Pong(room, i, echoes, clock))
ReceiveState(i, p)   == Receive(i, State(room, i, p, clock))
ReceiveCommand(i, p) == Receive(i, Command(room, i, p, clock))

\* What fz_server_poll does after its packets. The tick (every 16.7 ms) and the
\* summary (every 5 s) are each due or not. A poll that finds the room closed
\* returns at once, but the poll in which a packet closed it still gets here.
PollTail(tick, summary) ==
  /\ room.open
  /\ ~room.closed \/ pollRest
  /\ LET ticked == IF tick THEN advance(room, clock) ELSE room
     IN  room' = IF summary THEN Summary(ticked) ELSE ticked
  /\ pollRest' = FALSE
  /\ UNCHANGED <<issued, clock>>

\* fz_server_close, called by the owner of the server between two polls.
Close ==
  /\ room.open /\ ~pollRest
  /\ room' = [room EXCEPT !.open = FALSE, !.closed = TRUE]
  /\ UNCHANGED <<issued, pollRest, clock>>

PassTime ==
  /\ clock < MaxClock
  /\ clock' = clock + 1
  /\ UNCHANGED <<room, issued, pollRest>>

Init ==
  /\ \E players \in 2 .. 4, course \in Courses, owner \in Owners :
       room = InitialRoom(players, course, owner)
  /\ issued = 0
  /\ pollRest = FALSE
  /\ clock = 1

Next ==
  \/ PassTime
  \/ Close
  \/ \E tick, summary \in BOOLEAN : PollTail(tick, summary)
  \/ \E p \in Hellos : ReceiveHello(p)
  \/ \E i \in Slots : ReceivePing(i)
  \/ \E i \in Slots, echoes \in BOOLEAN : ReceivePong(i, echoes)
  \/ \E i \in Slots : \E p \in States(room, i) : ReceiveState(i, p)
  \/ \E i \in Slots : \E p \in CommandPackets(room, i) : ReceiveCommand(i, p)

Spec == Init /\ [][Next]_serverVars

-----------------------------------------------------------------------------
(* Properties.                                                             *)

\* Every field of struct fz_server stays within the values the code gives it.
TypeOK ==
  /\ room \in RoomType
  /\ issued \in 0 .. MaxTokens
  /\ pollRest \in BOOLEAN
  /\ clock \in Times

\* While the room is open its host is a player who is there, and a room that
\* everybody left is back in the lobby without a host: drop() never strands a
\* race that nobody is in, which would refuse every later HELLO.
HostPresent ==
  ~room.closed =>
    IF Occupants(room) = {} THEN room.host = NoHost /\ room.phase = FZ_LOBBY
                            ELSE room.host \in Occupants(room)

\* The statuses that players of a room in a given phase may have.
PhaseStatuses ==
  [ph \in Phases |-> CASE ph = FZ_LOBBY     -> {FZ_JOINED, FZ_SELECTED}
                       [] ph = FZ_LOADING   -> {FZ_SELECTED, FZ_PLAYER_LOADED}
                       [] ph = FZ_COUNTDOWN -> {FZ_PLAYER_LOADED}
                       [] ph = FZ_RACING    -> {FZ_PLAYER_RACING, FZ_FINISHED}
                       [] ph = FZ_RESULTS   -> {FZ_FINISHED}]

\* Players and phase agree whatever the order of commands, leaves and timeouts:
\* nobody is in a race without having selected, loaded and been started, and a
\* start time is set exactly from the countdown on, never older than an armed time.
PhaseMatchesPlayers ==
  /\ \A i \in Occupants(room) : room.slot[i].status \in PhaseStatuses[room.phase]
  /\ room.start # 0 <=> room.phase >= FZ_COUNTDOWN
  /\ \A i \in Slots : room.slot[i].armed <= room.start

\* A room never holds more players than it is configured for, although the host
\* may lower the number (CONFIG) while others join.
WithinCapacity == count(room) <= room.expected

\* In a hosted room P1 is the owner and the host as long as the room is open:
\* no guest gets in before the owner, takes slot 0, or outlives the owner.
OwnerIsHost ==
  room.owner # 0 /\ ~room.closed /\ Occupants(room) # {} =>
    0 \in Occupants(room) /\ room.slot[0].nonce = room.owner /\ room.host = 0

\* No endpoint and no token belongs to two players: a repeated or late HELLO never
\* gets a second slot.
OneSlotPerEndpoint ==
  \A i, j \in Occupants(room) :
    i # j => /\ room.slot[i].addr # room.slot[j].addr
             /\ room.slot[i].token # room.slot[j].token

\* A car has a position only while its player is loaded or racing: a STATE that
\* arrives after FINISH, after a drop or after the next lobby began never puts a
\* car back on the others' track.
NoGhostCar ==
  \A i \in Slots : room.slot[i].pos # 0 =>
    room.slot[i].status \in {FZ_PLAYER_LOADED, FZ_PLAYER_RACING}

\* Once every player has armed for a start time that time stands for the rest of
\* the race, whoever leaves or times out meanwhile: a client that saw all the armed
\* bits may start on its own clock.
StartIsCommitted ==
  [][room.phase = FZ_COUNTDOWN /\ AllArmed(room) /\ room'.race = room.race
       => room'.start = room.start]_serverVars

\* The promise about the start of a race, as StartBarrier states it: nobody joins after the
\* lobby, the start is put off only while somebody has not armed, and the race starts for
\* everyone who is still there at the time all of them have armed for, or for nobody. One
\* handler moves a race by at most one phase, although advance() tests all the transitions
\* in sequence.
Barrier == INSTANCE StartBarrier
             WITH now <- clock, race <- room.race, phase <- room.phase, field <- Occupants(room),
                  start <- room.start, armed <- IF room.start = 0 THEN {} ELSE Armed(room)

StartsTogether == Barrier!Spec
=============================================================================
