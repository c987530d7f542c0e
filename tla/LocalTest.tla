----------------------------- MODULE LocalTest -----------------------------
(***************************************************************************)
(* The local test setup: the supervisor of src/scripts/local_test.py with  *)
(* the dedicated server program, src/server/src/main.c, and its clients.   *)
(*                                                                         *)
(* Process 0 is the server (--server-mode standalone); its steps are those *)
(* of main(), a turn of its loop being the RaceServer that RaceServer.tla  *)
(* models. The clients are external: they run, and may end at any time or  *)
(* ignore SIGTERM.                                                         *)
(*                                                                         *)
(* Python delivers a signal between any two steps of the supervisor, as a  *)
(* KeyboardInterrupt. Time is abstracted: a deadline may pass at any       *)
(* moment, and passes at last.                                             *)
(***************************************************************************)
EXTENDS Naturals, FiniteSets

CONSTANTS
  Players,       \* how many clients are launched (2..4)
  MaxSignals     \* bound: signals to the supervisor

VARIABLES
  sup,           \* where the supervisor is
  next,          \* the process it starts next
  children,      \* the processes it has recorded
  signals,       \* signals it has received
  cut,           \* a signal fell where the cleanup misses a process
  proc,          \* processes: none, running or ended
  main,          \* where the server program is
  stopping,      \* its flag
  socket,        \* its socket: unbound, bound or closed
  ready          \* the readiness file exists

supVars    == <<sup, next, children, signals, cut>>
serverVars == <<main, stopping, socket, ready>>
vars       == <<supVars, proc, serverVars>>

Clients == 1 .. Players
Procs   == 0 .. Players

-----------------------------------------------------------------------------
(* The server program.                                                     *)

\* The server goes on at m.
Goes(m) == main' = m /\ proc' = proc

\* It returns from main(), or is ended by a signal; the system closes the socket.
Returns ==
  /\ main' = "returned" /\ proc' = [proc EXCEPT ![0] = "ended"]
  /\ socket' = IF socket = "bound" THEN "closed" ELSE socket

\* Options, the JSON log and fz_server_create(): any of them may end the program.
Create ==
  /\ main = "create"
  /\ \/ Goes("install") /\ socket' = "bound"
     \/ Returns
  /\ UNCHANGED <<supVars, stopping, ready>>

Install ==
  /\ main = "install"
  /\ Goes("announce")
  /\ UNCHANGED <<supVars, stopping, socket, ready>>

\* The readiness file is opened and written. When that fails the server is destroyed, and the
\* file stays.
Announce ==
  /\ main = "announce"
  /\ \/ Goes("write") /\ ready' = TRUE /\ UNCHANGED socket
     \/ Returns /\ UNCHANGED ready
  /\ UNCHANGED <<supVars, stopping>>

Write ==
  /\ main = "write"
  /\ \/ Goes("loop") /\ UNCHANGED socket
     \/ Returns
  /\ UNCHANGED <<supVars, stopping, ready>>

\* The loop ends when a signal has set the flag, or when a poll fails.
LoopEnds(failed) ==
  /\ main = "loop"
  /\ stopping \/ failed
  /\ Goes("close")
  /\ UNCHANGED <<supVars, stopping, socket, ready>>

Close ==
  /\ main = "close"
  /\ Goes("unlink") /\ socket' = "closed"
  /\ UNCHANGED <<supVars, stopping, ready>>

Unlink ==
  /\ main = "unlink"
  /\ Returns /\ ready' = FALSE
  /\ UNCHANGED <<supVars, stopping>>

\* A client ends: its window was closed, it failed, or it followed a SIGTERM.
ClientEnds(p) ==
  /\ proc[p] = "running"
  /\ proc' = [proc EXCEPT ![p] = "ended"]
  /\ UNCHANGED <<supVars, serverVars>>

-----------------------------------------------------------------------------
(* The supervisor.                                                         *)

\* start(), first half: Popen succeeds, or raises OSError.
Popen ==
  /\ sup = "start"
  /\ \/ /\ sup' = "record" /\ proc' = [proc EXCEPT ![next] = "running"]
        /\ main' = IF next = 0 THEN "create" ELSE main
     \/ sup' = "finally" /\ UNCHANGED <<proc, main>>
  /\ UNCHANGED <<next, children, signals, cut, stopping, socket, ready>>

\* start(), second half.
Record ==
  /\ sup = "record"
  /\ children' = children \cup {next} /\ next' = next + 1
  /\ sup' = IF next = 0 THEN "await" ELSE IF next < Players THEN "start" ELSE "watch"
  /\ UNCHANGED <<signals, cut, proc, serverVars>>

\* Mutant: the readiness file is not waited for.
Awaited_Running == IF proc[0] = "ended" THEN "finally" ELSE "start"

\* What the wait for the server comes to: it has ended, it is ready, or the time is up.
Awaited == IF proc[0] = "ended" THEN "finally" ELSE IF ready THEN "start" ELSE "finally"

Await ==
  /\ sup = "await"
  /\ sup' = Awaited
  /\ UNCHANGED <<next, children, signals, cut, proc, serverVars>>

\* One of the processes has ended, or the duration is over.
Watch(elapsed) ==
  /\ sup = "watch"
  /\ elapsed \/ \E p \in children : proc[p] = "ended"
  /\ sup' = "finally"
  /\ UNCHANGED <<next, children, signals, cut, proc, serverVars>>

\* except KeyboardInterrupt
Caught ==
  /\ sup = "caught" /\ sup' = "finally"
  /\ UNCHANGED <<next, children, signals, cut, proc, serverVars>>

\* finally: further signals are ignored from here on.
Ignore ==
  /\ sup = "finally" /\ sup' = "terminate"
  /\ UNCHANGED <<next, children, signals, cut, proc, serverVars>>

\* stop(), first part: SIGTERM to all. The server has a handler for it or ends at once.
Terminate ==
  /\ sup = "terminate" /\ sup' = "grace"
  /\ IF 0 \in children /\ main \in {"create", "install"}
     THEN Returns /\ UNCHANGED stopping
     ELSE UNCHANGED <<main, proc, socket>> /\ stopping' = (0 \in children)
  /\ UNCHANGED <<next, children, signals, cut, ready>>

\* The three seconds are over, or everybody has ended before.
Grace ==
  /\ sup = "grace" /\ sup' = "kill"
  /\ UNCHANGED <<next, children, signals, cut, proc, serverVars>>

\* Mutant: the last part only waits.
Killed_Waits(p) == proc[p]

Killed(p) == IF p \in children THEN "ended" ELSE proc[p]

\* stop(), last part: SIGKILL to all, and wait.
Kill ==
  /\ sup = "kill"
  /\ proc' = [p \in Procs |-> Killed(p)]
  /\ \A p \in children : proc'[p] = "ended"
  /\ sup' = "returned"
  /\ IF 0 \in children /\ socket = "bound" THEN socket' = "closed" ELSE UNCHANGED socket
  /\ main' = IF 0 \in children THEN "returned" ELSE main
  /\ UNCHANGED <<next, children, signals, cut, stopping, ready>>

\* Ctrl+C or SIGTERM to the supervisor. Between Popen and the append in start() the new
\* process is not yet known; and at the beginning of finally the interrupt skips stop().
Signal ==
  /\ signals < MaxSignals /\ signals' = signals + 1
  /\ \/ sup \in {"start", "record", "await", "watch"} /\ sup' = "caught"
     \/ sup = "finally" /\ sup' = "returned"
  /\ cut' = (cut \/ sup \in {"record", "finally"})
  /\ UNCHANGED <<next, children, proc, serverVars>>

-----------------------------------------------------------------------------

Init ==
  /\ sup = "start" /\ next = 0 /\ children = {} /\ signals = 0 /\ cut = FALSE
  /\ proc = [p \in Procs |-> "none"]
  /\ main = "none" /\ stopping = FALSE /\ socket = "unbound" /\ ready = FALSE

Server == Create \/ Install \/ Announce \/ Write \/ LoopEnds(FALSE) \/ Close \/ Unlink

Supervisor ==
  \/ Popen \/ Record \/ Await \/ Watch(FALSE) \/ Caught \/ Ignore
  \/ Terminate \/ Grace \/ Kill

Next ==
  \/ Server \/ LoopEnds(TRUE)
  \/ Supervisor \/ Watch(TRUE) \/ Signal
  \/ \E p \in Clients : ClientEnds(p)

Spec == Init /\ [][Next]_vars

\* Both programs go on as long as they can. Clients need not, and the duration is optional.
FairSpec == Spec /\ WF_vars(Server) /\ WF_vars(Supervisor)

-----------------------------------------------------------------------------
(* Properties.                                                             *)

\* No client is launched before the server has bound its socket: the readiness file, which
\* main() writes after fz_server_create(), is what the supervisor waits for, whatever fails
\* in between and whenever the server ends.
ClientsAfterServer ==
  \A p \in Clients : proc[p] # "none" => socket # "unbound"

\* When one process ends or a signal comes, the supervisor stops the others, also those that
\* ignore SIGTERM, and returns. Left out are the two moments at which a signal makes the
\* cleanup miss a process (Signal).
SetupStops ==
  (sup = "caught" \/ \E p \in Procs : proc[p] = "ended") ~>
    (sup = "returned" /\ (cut \/ \A p \in Procs : proc[p] # "running"))
=============================================================================
