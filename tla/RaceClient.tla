----------------------------- MODULE RaceClient -----------------------------
(***************************************************************************)
(* The emulator side of a race, src/client/fzvs_client.cpp.                *)
(*                                                                         *)
(* A Client object is a record; the methods that change it are operators   *)
(* from a client to a client. tick() (network) and frame() (game) run in   *)
(* turn on the emulation thread, so each of them is atomic. What a method  *)
(* sends is a separate operator, for the module that owns the network.     *)
(*                                                                         *)
(* Game memory is external: the conditions that frame() reads from WRAM    *)
(* are parameters. ROM patches, overlay, statistics, positions and STATE   *)
(* packets are left out; RaceServer has the STATE packets, RaceView the    *)
(* clock and the cars.                                                     *)
(***************************************************************************)
EXTENDS FzvsProtocol, Sequences, FiniteSets

SeqExt == INSTANCE SequencesExt

CONSTANTS
  PendingMax,      \* commands that may wait for an acknowledgement (8)
  RequestMax       \* requests of the window that may wait for tick() (8)

ASSUME PendingAssumption == PendingMax \in Nat \ {0} /\ RequestMax \in Nat \ {0}

NoId == 4          \* id = -1

(* enum Game, in the order of a race.                                      *)
Game == {"Init", "CarSelect", "Waiting", "Prepare", "Location", "Race",
         "Finished", "Results", "Disconnected"}

\* What a snapshot says of the room, as far as a client acts on it: `present'
\* are the slots that are neither EMPTY nor DISCONNECTED.
NoView == [phase |-> FZ_LOBBY, expected |-> 2, host |-> 255, course |-> 0, start |-> 0,
           armed |-> {}, present |-> {}]

ViewType(courses, times) ==
  [ phase : Phases, expected : 2 .. 4, host : Slots \cup {255}, course : courses,
    start : times, armed : SUBSET Slots, present : SUBSET Slots ]

\* What publish() shows to the window.
Shown(c) ==
  [ connected |-> c.id # NoId /\ c.game # "Disconnected", player |-> c.id,
    host |-> c.view.host, expected |-> c.view.expected, phase |-> c.view.phase,
    course |-> c.view.course, present |-> c.view.present ]

publish(c) == [c EXCEPT !.shown = Shown(c)]

NothingShown ==
  [ connected |-> FALSE, player |-> NoId, host |-> NoId, expected |-> 2, phase |-> FZ_LOBBY,
    course |-> NoView.course, present |-> {} ]

IsClient(c, courses, times, tokens) ==
  /\ [c EXCEPT !.pending = <<>>, !.requests = <<>>, !.shown = NothingShown] \in
       [ open : BOOLEAN, id : Slots \cup {NoId}, token : tokens \cup {0}, race : WireSeq,
         cmdSeq : WireSeq, snapSeq : WireSeq, pending : {<<>>}, requests : {<<>>},
         shown : {NothingShown}, resultsTime : BOOLEAN,
         view : ViewType(courses, times), armedTime : times,
         selectedSent : BOOLEAN, loadedSent : BOOLEAN, finishedSent : BOOLEAN,
         game : Game, track : courses, released : times ]
  /\ Len(c.pending) <= PendingMax /\ Len(c.requests) <= RequestMax
  /\ \A k \in DOMAIN c.pending : /\ c.pending[k].seq \in WireSeq
                                /\ c.pending[k].c.cmd \in FZ_COMMANDS

\* attach(): a new socket, a HELLO to send, the game reset. Host, size, track and armed
\* bits stay as an earlier session left them, until the first snapshot.
Attached(old) == publish(
  [ open |-> TRUE, id |-> NoId, token |-> 0, race |-> 0, cmdSeq |-> 0, snapSeq |-> 0,
    pending |-> <<>>, requests |-> <<>>, shown |-> NothingShown, resultsTime |-> FALSE,
    view |-> [old EXCEPT !.phase = FZ_LOBBY, !.start = 0, !.present = {}], armedTime |-> 0,
    selectedSent |-> FALSE, loadedSent |-> FALSE, finishedSent |-> FALSE,
    game |-> "Init", track |-> old.course, released |-> 0 ])

Joined(c) == c.id # NoId

failure(c) == publish([c EXCEPT !.open = FALSE, !.game = "Disconnected"])

detach(c) ==
  [c EXCEPT !.open = FALSE, !.game = "Init", !.id = NoId, !.pending = <<>>,
            !.requests = <<>>, !.shown = NothingShown]

resetGame(c) ==
  [c EXCEPT !.game = "Init", !.selectedSent = FALSE, !.loadedSent = FALSE,
            !.finishedSent = FALSE, !.armedTime = 0, !.view.start = 0, !.released = 0]

\* A command that does not fit is dropped without notice.
queue(c, cmd, arg) ==
  IF ~Joined(c) \/ Len(c.pending) >= PendingMax THEN c
  ELSE [c EXCEPT !.cmdSeq = fz_succ(@),
                 !.pending = Append(@, [seq |-> fz_succ(c.cmdSeq),
                                        c |-> [cmd |-> cmd, arg |-> arg]])]

-----------------------------------------------------------------------------
(* The window of the room works on the view that was published last, and  *)
(* leaves requests for tick().                                             *)

\* presentRoom() counts the players in the first slots, as many as the room is for.
Roster(v) == v.present \cap 0 .. v.expected - 1

canConfigure(v) == v.connected /\ v.player = v.host /\ v.phase = FZ_LOBBY
canNext(v)      == v.connected /\ v.player = v.host /\ v.phase = FZ_RESULTS

validRoomChange(v, players, course) ==
  /\ canConfigure(v)
  /\ players \in 2 .. 4 /\ players >= Cardinality(Roster(v))
  /\ <<players, course>> # <<v.expected, v.course>>

request(c, cmd, arg) ==
  IF Len(c.requests) < RequestMax
  THEN [c EXCEPT !.requests = Append(@, [cmd |-> cmd, arg |-> arg])] ELSE c

\* tick() moves the requests to the queue once it has joined.
TakeRequests(c) ==
  LET free == PendingMax - Len(c.pending)
      n == IF Len(c.requests) <= free THEN Len(c.requests) ELSE free
  IN  IF ~Joined(c) THEN c
      ELSE [c EXCEPT !.requests = <<>>, !.cmdSeq = (@ + n) % SeqMod,
                     !.pending = @ \o [k \in 1 .. n |-> [seq |-> (c.cmdSeq + k) % SeqMod,
                                                         c |-> c.requests[k]]]]

-----------------------------------------------------------------------------
(* receive()                                                               *)

Welcomed(c, p) ==
  IF Joined(c) THEN c
  ELSE [c EXCEPT !.id = p.id, !.token = p.token, !.race = p.race, !.cmdSeq = p.ack]

\* A packet of the room is for this client when it carries its token.
ForMe(c, p) == Joined(c) /\ p.token = c.token

\* A snapshot that was overtaken by a newer one, or is of an earlier race.
Stale(c, p) ==
  \/ ~fz_newer(p.seq, c.snapSeq)
  \/ p.race # c.race /\ ~fz_newer(p.race, c.race)

\* Mutant: the arguments of the comparison are swapped.
Unacked_Swapped(ack, e) == ~(ack = e.seq \/ fz_newer(e.seq, ack))

Unacked(ack, e) == ~(ack = e.seq \/ fz_newer(ack, e.seq))

\* Acknowledged commands leave the front of the queue, up to the first that is not.
PopAcked(pending, ack) ==
  LET n == CHOOSE k \in 0 .. Len(pending) :
             /\ \A j \in 1 .. k : ~Unacked(ack, pending[j])
             /\ k < Len(pending) => Unacked(ack, pending[k + 1])
  IN  SubSeq(pending, n + 1, Len(pending))

NewRace(c, p) ==
  IF p.race = c.race THEN c
  ELSE resetGame([c EXCEPT !.race = p.race, !.cmdSeq = p.ack, !.pending = <<>>])

ArmFor(c) ==
  IF c.view.phase = FZ_COUNTDOWN /\ c.view.start # c.armedTime
  THEN [queue(c, "ARM", c.view.start) EXCEPT !.armedTime = c.view.start] ELSE c

Snapshot(c, p) ==
  IF ~ForMe(c, p) \/ Stale(c, p) THEN c
  ELSE LET acked == [c EXCEPT !.snapSeq = p.seq, !.pending = PopAcked(@, p.ack)]
       IN  ArmFor([NewRace(acked, p) EXCEPT !.view = p.view])

Rejected(c)  == IF Joined(c) THEN c ELSE failure(c)
Closed(c, p) == IF ForMe(c, p) THEN failure(c) ELSE c

-----------------------------------------------------------------------------
(* frame(): one case of the switch. `memory' is the condition on WRAM that  *)
(* the case tests, `due' a condition on time.                               *)

FrameInit(c) == [c EXCEPT !.game = "CarSelect"]

FrameCarSelect(c) == [c EXCEPT !.game = "Waiting"]

FrameWaiting(c) ==
  LET sent == IF Joined(c) /\ ~c.selectedSent /\ c.view.phase = FZ_LOBBY
              THEN [queue(c, "SELECT", 0) EXCEPT !.selectedSent = TRUE] ELSE c
  IN  IF Joined(c) /\ c.view.phase = FZ_LOADING THEN [sent EXCEPT !.game = "Prepare"] ELSE sent

FramePrepare(c) == [c EXCEPT !.track = c.view.course, !.game = "Location"]

\* Mutant: the armed bits of the others are not looked at.
Released_OwnClock(c, due) ==
  c.view.phase = FZ_RACING \/ (c.view.phase = FZ_COUNTDOWN /\ due)

\* The start gate. `due' is bestRtt < 1e12 && now + offset >= startTime: a PONG has
\* arrived and the estimate of server time has reached the start.
Released(c, due) ==
  \/ c.view.phase = FZ_RACING
  \/ /\ c.view.phase = FZ_COUNTDOWN
     /\ c.view.present # {}
     /\ c.view.present \subseteq c.view.armed
     /\ due

FrameLocation(c, due) ==
  LET sent == IF ~c.loadedSent /\ c.view.phase = FZ_LOADING
              THEN [queue(c, "LOADED", 0) EXCEPT !.loadedSent = TRUE] ELSE c
  IN  IF Released(c, due) THEN [sent EXCEPT !.game = "Race", !.released = c.view.start] ELSE sent

FrameRace(c) ==
  [(IF c.finishedSent THEN c ELSE [queue(c, "FINISH", 0) EXCEPT !.finishedSent = TRUE])
     EXCEPT !.game = "Finished"]

FrameFinished(c) ==
  IF c.view.phase = FZ_RESULTS THEN [c EXCEPT !.game = "Results", !.resultsTime = TRUE] ELSE c

\* With auto-next, the host asks for the next race after 3 s, once.
FrameResults(c) ==
  IF c.id = c.view.host /\ c.resultsTime
  THEN [queue(c, "NEXT", 0) EXCEPT !.resultsTime = FALSE] ELSE c
=============================================================================
