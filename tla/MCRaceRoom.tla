----------------------------- MODULE MCRaceRoom -----------------------------
(***************************************************************************)
(* RaceRoom for TLC, with two endpoints.                                   *)
(*                                                                         *)
(* The view identifies states that no property here can tell apart. It     *)
(* leaves out packets that will be ignored whenever they arrive: commands  *)
(* whose token, race or number has passed, or to a server that has closed, *)
(* snapshots that a joined client has overtaken, welcomes to a client that *)
(* has joined. Such a packet only takes up room, and Sends lets a new      *)
(* packet take the room of any other, so a state without it has the same   *)
(* futures. Snapshot numbers matter only by their order: those in flight   *)
(* are replaced by their ranks, and the last one heard, which is below     *)
(* them, is left out (SeqMod is beyond the numbers reached, there is no    *)
(* wrap here). The state of a client that has closed, the time a player    *)
(* was last heard when no timeout can happen, and resultsTime outside      *)
(* Results, are never read again. What is shown matters by the buttons it  *)
(* enables.                                                                *)
(***************************************************************************)
EXTENDS RaceRoom, TLC

CONSTANTS a1, a2

\* The player who is in the room when a behaviour begins, having been the host of another
\* one before.
First == <<a1>>
HostBefore == (a1 :> [NoView EXCEPT !.host = 0] @@ a2 :> NoView)

\* How many packets may be in flight to each client; two can overtake each other.
Reordering == (a1 :> 1 @@ a2 :> 2)

\* A command of a that the server will ignore whenever it arrives.
Dead(a, m) ==
  /\ m.type = "COMMAND"
  /\ LET from == Sender(room, [addr |-> a, token |-> m.token])
         i == CHOOSE j \in from : TRUE
     IN  from = {} \/ m.race # room.race \/ m.seq # fz_succ(room.slot[i].cmdSeq)

\* A packet to a that a may still act on.
Live(a, m) ==
  CASE m.type = "SNAPSHOT" -> ~Joined(client[a]) \/ ~Stale(client[a], m)
    [] m.type \in {"WELCOME", "REJECT"} -> ~Joined(client[a])
    [] OTHER -> TRUE

\* A packet with the number of a snapshot replaced by its position among those of S.
Ranked(S, m) ==
  IF m.type # "SNAPSHOT" THEN m
  ELSE [m EXCEPT !.seq = Cardinality({k \in S : k.type = "SNAPSHOT" /\ k.seq < m.seq})]

\* The buttons that are enabled in the window.
Buttons(v) ==
  IF asks = MaxAsks THEN {}
  ELSE {<<p, k>> \in Sizes \X Courses : validRoomChange(v, p, k)} \cup {p \in {<<>>} : canNext(v)}

ClientView(a) ==
  LET c == client[a]
      heard == {m \in down[a] : Live(a, m)}
  IN  << {m \in up[a] : room.open /\ ~Dead(a, m)},
         IF c.open THEN << [c EXCEPT !.snapSeq = 0, !.shown = Buttons(@),
                                     !.resultsTime = @ /\ c.game = "Results"],
                           {Ranked(heard, m) : m \in heard} >>
         ELSE <<>> >>

\* Two endpoints only ever take the first two slots.
RoomState ==
  IF Timeout <= MaxClock THEN room
  ELSE [room EXCEPT !.slot[0].seen = 0, !.slot[1].seen = 0]

\* (The comparison makes TLC evaluate room, which it may have to write to disk.)
View == <<room = room, RoomState, issued, pollRest, clock, asks, ClientView(a1), ClientView(a2)>>
=============================================================================
