------------------------------ MODULE RaceRoom ------------------------------
(***************************************************************************)
(* A race server and its clients over UDP: RaceServer and RaceClient       *)
(* composed by a network that loses, duplicates, delays and reorders.      *)
(*                                                                         *)
(* A client is identified with the socket it opened in attach(), hence     *)
(* with its endpoint; a player who reconnects is another client.           *)
(***************************************************************************)
EXTENDS RaceServer, RaceClient

CONSTANTS
  Gathered,       \* the sequence of clients that are in the room from the start
  Before,         \* what each client still knows of a room it was in before
  UpCap,          \* bound: packets in flight from a client
  DownCap,        \* bound: packets in flight to each client
  MaxAsks,        \* bound: buttons pressed, departures and closings in a behaviour
  Sizes,          \* bound: sizes of a room that are tried
  MaxRace,        \* bound: the last race of a behaviour
  ClockError      \* how far a client's estimate of server time may be off

ASSUME RoomAssumption == /\ 0 \in Owners
                         /\ Gathered \in Seq(Addrs) /\ Len(Gathered) <= 2
                         /\ UpCap \in Nat \ {0} /\ DownCap \in [Addrs -> Nat \ {0}]
                         /\ Before \in [Addrs -> ViewType(Courses, {0})]
                         /\ MaxAsks \in Nat /\ MaxRace \in Nat /\ ClockError \in Nat

VARIABLES
  client,         \* the Client object behind each endpoint
  up,             \* packets in flight to the server, by the endpoint they came from
  down,           \* packets in flight to each endpoint
  snapshotSeq,    \* snapshot_seq of the server
  asks            \* buttons pressed, departures and closings so far

roomVars == <<room, issued, pollRest, clock, client, up, down, snapshotSeq, asks>>

clientVars == <<client, asks>>

\* A button, a departure or a closing: the steps that a behaviour has only a few of.
Ask == asks < MaxAsks /\ asks' = asks + 1

-----------------------------------------------------------------------------
(* The network.                                                            *)

\* The packets that may be in flight after sending m: when there is no room for
\* it, it or another one is lost. Any of them may arrive next, or none ever.
Sends(net, cap, m) ==
  LET all == net \cup {m}
  IN  IF Cardinality(all) <= cap THEN {all} ELSE {all \ {x} : x \in all}

\* What may be in flight after sending packet[a] to each a of its domain.
Multicast(nets, packet) ==
  LET after(a) == IF a \in DOMAIN packet THEN Sends(nets[a], DownCap[a], packet[a]) ELSE {nets[a]}
  IN  UNION {{n \in [Addrs -> UNION {f[a] : a \in Addrs}] : \A a \in Addrs : n[a] \in f[a]}
              : f \in {[a \in Addrs |-> after(a)]}}

-----------------------------------------------------------------------------
(* Packets of the server.                                                  *)

SlotOf(r, a) == CHOOSE i \in Occupants(r) : r.slot[i].addr = a
Players(r)   == {r.slot[i].addr : i \in Occupants(r)}

RoomView(r) ==
  [ phase |-> r.phase, expected |-> r.expected, host |-> r.host, course |-> r.course,
    start |-> r.start,
    armed |-> IF r.start = 0 THEN {} ELSE Armed(r), present |-> Occupants(r) ]

snapshot(r, a, seq) ==
  LET p == r.slot[SlotOf(r, a)]
  IN  [ type |-> "SNAPSHOT", seq |-> seq, token |-> p.token, race |-> r.race,
        ack |-> p.cmdSeq, view |-> RoomView(r) ]

welcome(r, a) ==
  LET p == r.slot[SlotOf(r, a)]
  IN  [ type |-> "WELCOME", id |-> SlotOf(r, a), token |-> p.token, race |-> r.race,
        ack |-> p.cmdSeq ]

\* snapshot(): one packet to every player of r, with the next sequence number.
Broadcast(r, nets) ==
  /\ snapshotSeq' = fz_succ(snapshotSeq)
  /\ down' \in Multicast(nets, [a \in Players(r) |-> snapshot(r, a, snapshotSeq')])

-----------------------------------------------------------------------------
(* Steps of the server.                                                    *)

HelloOf(a) == [addr |-> a, nonce |-> CHOOSE n \in Nonces : TRUE, key |-> TRUE]

\* receive_packet: a HELLO, answered by WELCOME and a snapshot for a new player, by
\* WELCOME for a known one, or by JOIN_REJECT.
ServeHello(a) ==
  \E m \in up[a] :
    /\ m.type = "HELLO"
    /\ ReceiveHello(HelloOf(a))
    /\ issued' = IF Joins(room, HelloOf(a)) THEN issued + 1 ELSE issued
    /\ up' = [up EXCEPT ![a] = @ \ {m}]
    /\ IF Joins(room, HelloOf(a))
       THEN \E n \in Sends(down[a], DownCap[a], welcome(room', a)) :
              Broadcast(room', [down EXCEPT ![a] = n])
       ELSE /\ down' \in {[down EXCEPT ![a] = n] :
                           n \in Sends(down[a], DownCap[a], IF KnownAddress(room, HelloOf(a))
                                                THEN welcome(room, a)
                                                ELSE [type |-> "REJECT"])}
            /\ UNCHANGED snapshotSeq
    /\ UNCHANGED clientVars

\* receive_packet: a COMMAND, whose execution ends with a snapshot.
ServeCommand(a) ==
  \E m \in up[a] :
    /\ m.type = "COMMAND"
    /\ room.open /\ ~room.closed
    /\ up' = [up EXCEPT ![a] = @ \ {m}]
    /\ LET from == Sender(room, [addr |-> a, token |-> m.token])
           i == CHOOSE j \in from : TRUE
       IN  IF from = {} \/ m.race # room.race \/ m.seq # fz_succ(room.slot[i].cmdSeq)
           THEN UNCHANGED <<room, issued, pollRest, clock, down, snapshotSeq>>
           ELSE /\ m.c.cmd = "NEXT" => room.race < MaxRace
                /\ ReceiveCommand(i, m)
                /\ Broadcast(room', down)
    /\ UNCHANGED clientVars

\* A PING of the client in slot i, possibly one sent long ago.
ServePing(i) ==
  /\ ReceivePing(i)
  /\ UNCHANGED <<client, up, down, snapshotSeq, asks>>

\* The tick of fz_server_poll: advance(), then a snapshot unless the room closed.
Tick ==
  /\ PollTail(TRUE, FALSE)
  /\ IF room'.closed THEN UNCHANGED <<down, snapshotSeq>> ELSE Broadcast(room', down)
  /\ UNCHANGED <<client, up, asks>>

\* fz_server_close tells every player.
CloseRoom ==
  /\ Ask
  /\ Close
  /\ down' \in Multicast(down, [a \in Players(room) |->
                                  [type |-> "CLOSED", token |-> room.slot[SlotOf(room, a)].token]])
  /\ UNCHANGED <<client, up, snapshotSeq>>

-----------------------------------------------------------------------------
(* Steps of a client.                                                      *)

\* A step of client a that sends nothing.
Becomes(a, c) ==
  /\ client[a].open
  /\ client' = [client EXCEPT ![a] = c]
  /\ UNCHANGED <<room, issued, pollRest, clock, up, snapshotSeq>>

\* tick(): a packet is received.
Hear(a) ==
  \E m \in down[a] :
    /\ Becomes(a, CASE m.type = "WELCOME"  -> Welcomed(client[a], m)
                    [] m.type = "SNAPSHOT" -> Snapshot(client[a], m)
                    [] m.type = "REJECT"   -> Rejected(client[a])
                    [] m.type = "CLOSED"   -> Closed(client[a], m))
    /\ down' = [down EXCEPT ![a] = @ \ {m}]
    /\ UNCHANGED asks

\* The rest of tick(), which may be due to publish: HELLO until joined, then the requests
\* of the window are queued and the oldest command without an acknowledgement goes out.
\* send() stamps token and race when the packet leaves. (RoomNext publishes only while a
\* button may still be pressed: nobody looks at what is shown after that.)
Say(a, publishes) ==
  LET c == TakeRequests(client[a])
  IN  /\ c.open
      /\ client' = [client EXCEPT ![a] = IF publishes THEN publish(c) ELSE c]
      /\ up' \in IF Joined(c) /\ c.pending = <<>> THEN {up}
                 ELSE {[up EXCEPT ![a] = n] :
                    n \in Sends(up[a], UpCap, IF ~Joined(c) THEN [type |-> "HELLO"]
                                       ELSE [ type |-> "COMMAND", token |-> c.token,
                                              race |-> c.race, seq |-> Head(c.pending).seq,
                                              c |-> Head(c.pending).c ])}
      /\ UNCHANGED <<room, issued, pollRest, clock, down, snapshotSeq, asks>>

\* tick(): silence for longer than the timeout.
GiveUp(a) ==
  /\ Ask
  /\ Becomes(a, failure(client[a]))
  /\ UNCHANGED down

\* detach(): LEAVE goes out once, and only when no command is waiting.
Detach(a) ==
  LET c == client[a]
      leave == [ type |-> "COMMAND", token |-> c.token, race |-> c.race,
                 seq |-> fz_succ(c.cmdSeq), c |-> [cmd |-> "LEAVE", arg |-> 0] ]
  IN  /\ c.open /\ Ask
      /\ client' = [client EXCEPT ![a] = detach(c)]
      /\ up' \in IF Joined(c) /\ c.pending = <<>>
                 THEN {[up EXCEPT ![a] = n] : n \in Sends(up[a], UpCap, leave)} ELSE {up}
      /\ UNCHANGED <<room, issued, pollRest, clock, down, snapshotSeq>>

\* frame(), by the state of the game.
Frame(a) ==
  LET c == client[a]
  IN  /\ \/ c.game = "Init"      /\ Becomes(a, FrameInit(c))
         \/ c.game = "CarSelect" /\ Becomes(a, FrameCarSelect(c))
         \/ c.game = "Waiting"   /\ Becomes(a, FrameWaiting(c))
         \/ c.game = "Prepare"   /\ Becomes(a, FramePrepare(c))
         \/ c.game = "Location"  /\ Becomes(a, FrameLocation(c, clock + ClockError >= c.view.start))
         \/ c.game = "Race"      /\ Becomes(a, FrameRace(c))
         \/ c.game = "Finished"  /\ Becomes(a, FrameFinished(c))
         \/ c.game = "Results"   /\ Becomes(a, FrameResults(c))
      /\ UNCHANGED <<down, asks>>

\* A button of the window, enabled by what was shown last.
Press(a, allowed, cmd, arg) ==
  /\ Ask
  /\ allowed
  /\ Becomes(a, request(client[a], cmd, arg))
  /\ UNCHANGED down

Apply(a, players, course) ==
  Press(a, validRoomChange(client[a].shown, players, course), "CONFIG", <<players, course>>)

NextRace(a) == Press(a, canNext(client[a].shown), "NEXT", 0)

-----------------------------------------------------------------------------

\* A behaviour begins when the players of Gathered have joined, in this order, with
\* their HELLOs answered: nobody when it is empty. The server is a dedicated one.
GatheredRoom ==
  SeqExt!FoldLeft(LAMBDA r, a : Join(r, HelloOf(a), count(r) + 1, 1),
           InitialRoom(2, CHOOSE k \in Courses : TRUE, 0), Gathered)

RoomInit ==
  /\ room = GatheredRoom
  /\ issued = Len(Gathered) /\ pollRest = FALSE /\ clock = 1
  /\ client = [a \in Addrs |-> IF a \in Players(room) THEN Welcomed(Attached(Before[a]), welcome(room, a))
                                ELSE Attached(Before[a])]
  /\ up = [a \in Addrs |-> {}]
  /\ down = [a \in Addrs |-> {}]
  /\ snapshotSeq = 0 /\ asks = 0

\* (A PING in the same turn as the player's last packet changes nothing.)
RoomNext ==
  \/ \E a \in Addrs : \/ ServeHello(a) \/ ServeCommand(a) \/ Hear(a)
                      \/ GiveUp(a) \/ Detach(a) \/ Frame(a) \/ NextRace(a)
                      \/ \E publishes \in {FALSE, asks < MaxAsks} : Say(a, publishes)
                      \/ \E players \in Sizes, course \in Courses : Apply(a, players, course)
  \/ \E i \in Slots : room.slot[i].seen # clock /\ ServePing(i)
  \/ Tick
  \/ CloseRoom
  \/ /\ room.phase = FZ_COUNTDOWN \/ Timeout <= MaxClock
     /\ PassTime /\ UNCHANGED <<client, up, down, snapshotSeq, asks>>

RoomSpec == RoomInit /\ [][RoomNext]_roomVars

-----------------------------------------------------------------------------
(* Properties.                                                             *)

\* The composed state stays within its types, and no client has more than PendingMax
\* commands waiting.
RoomTypeOK ==
  /\ TypeOK
  /\ \A a \in Addrs : /\ IsClient(client[a], Courses, 0 .. MaxClock + StartDelay, Tokens)
                      /\ Cardinality(up[a]) <= UpCap /\ Cardinality(down[a]) <= DownCap[a]
  /\ snapshotSeq \in WireSeq /\ asks \in 0 .. MaxAsks

Racing(c) == c.open /\ c.game \in {"Race", "Finished", "Results"}

\* A player's game runs only in a race that everyone started together: whoever has
\* been let go, on its own clock and on a snapshot that may be old, was let go for
\* the start time that every player of this race has armed for.
StartAgreement ==
  \A a \in Addrs :
    Racing(client[a]) /\ client[a].race = room.race =>
      /\ room.phase >= FZ_COUNTDOWN
      /\ room.phase = FZ_COUNTDOWN => AllArmed(room)
      /\ client[a].released = room.start

\* The reliable command stream: as long as a client and its slot are in the same
\* race, the server has executed exactly the commands that the client has numbered,
\* but for the last few that are still waiting: none was lost, repeated or skipped.
StreamInStep ==
  \A a \in Addrs :
    LET c == client[a]
        p == room.slot[c.id]
        n == (c.cmdSeq - p.cmdSeq) % SeqMod
    IN  c.open /\ Joined(c) /\ c.race = room.race /\ occupied(p) /\ p.token = c.token =>
          /\ n <= Len(c.pending)
          /\ \A k \in 1 .. Len(c.pending) :
               (c.cmdSeq - c.pending[k].seq) % SeqMod = Len(c.pending) - k

\* Everybody races on the same track, although the host may have changed it at the
\* last moment and snapshots arrive late.
SameTrack ==
  \A a \in Addrs :
    client[a].open /\ client[a].race = room.race
      /\ client[a].game \in {"Location", "Race", "Finished", "Results"}
        => client[a].track = room.course
=============================================================================
