---------------------------- MODULE DebugBridge ----------------------------
(***************************************************************************)
(* The debug bridge of the patched emulator (patches/ares/0008): the       *)
(* socket thread (serverLoop, clientLoop), the emulator worker that runs   *)
(* the commands at instruction boundaries (emulatorRunLoop,                *)
(* processBoundary) and the main thread, which owns the window and in the  *)
(* end stops the other two (quit, stop).                                   *)
(*                                                                         *)
(* One step is one access to shared state: an atomic, a critical section   *)
(* of _queueMutex or of a request's mutex, or a system call. A sequential  *)
(* number stands for a request and for a connection. What the commands     *)
(* read and write is RomPatches; here they pause, resume or reset.         *)
(***************************************************************************)
EXTENDS Naturals, Sequences, Functions

CONSTANTS
  MaxRequests,    \* bound: requests of a behaviour
  MaxConnections  \* bound: clients that connect, one after the other

ASSUME BoundsAssumption == MaxRequests \in Nat /\ MaxConnections \in Nat

VARIABLES
  active,         \* _active
  listenSocket,   \* _listenSocket: Listener, or 0 for -1
  clientSocket,   \* _clientSocket: a connection, or 0 for -1
  closes,         \* how often each descriptor was closed
  queue,          \* _queue
  pending,        \* _pending
  outcome,        \* of each request: response and completed
  executed,       \* requests that dispatch has run
  server,         \* [pc, last, request, answer] of the socket thread
  worker,         \* [pc, request, after] of the emulator worker
  stopper,        \* where quit() is, on the main thread
  took,           \* what stop() exchanged for -1
  machine         \* [loaded, paused, advance, defocused, halted, cpu, ready]

vars == <<active, listenSocket, clientSocket, closes, queue, pending, outcome, executed,
          server, worker, stopper, took, machine>>

Requests == 1 .. MaxRequests
Connections == 1 .. MaxConnections
Listener == MaxConnections + 1
Sockets == Connections \cup {Listener}

requestVars == <<queue, pending, outcome, executed>>
socketVars == <<active, listenSocket, clientSocket, closes>>
mainVars == <<stopper, took>>

Enqueued == {r \in Requests : outcome[r] # "none"}
Accepted == {s \in Connections : s <= server.last}
Open(s) == closes[s] = 0

Close(s) == closes' = [closes EXCEPT ![s] = @ + 1]

-----------------------------------------------------------------------------
(* The socket thread.                                                      *)

ServerAt(pc) == server.pc = pc
ServerGoes(pc) == server' = [server EXCEPT !.pc = pc]

\* The head of serverLoop: the listener is loaded here and used in the next step.
ServeNext ==
  /\ ServerAt("serve")
  /\ ServerGoes(IF active /\ listenSocket # 0 THEN "accept" ELSE "close")
  /\ UNCHANGED <<socketVars, requestVars, worker, mainVars, machine>>

\* accept() returns a client.
Accept ==
  /\ ServerAt("accept") /\ Open(Listener) /\ server.last < MaxConnections
  /\ server' = [server EXCEPT !.pc = "accepted", !.last = @ + 1]
  /\ UNCHANGED <<socketVars, requestVars, worker, mainVars, machine>>

\* accept() fails because the listener was shut down or closed.
AcceptFails ==
  /\ ServerAt("accept") /\ ~Open(Listener)
  /\ ServerGoes("close")
  /\ UNCHANGED <<socketVars, requestVars, worker, mainVars, machine>>

\* accept() fails for another reason, such as no descriptor being left: serverLoop ends
\* although the bridge is active.
AcceptError ==
  /\ ServerAt("accept") /\ Open(Listener)
  /\ ServerGoes("close")
  /\ UNCHANGED <<socketVars, requestVars, worker, mainVars, machine>>

Connected ==
  /\ ServerAt("accepted")
  /\ clientSocket' = server.last
  /\ ServerGoes("client")
  /\ UNCHANGED <<active, listenSocket, closes, requestVars, worker, mainVars, machine>>

\* The head of clientLoop.
ClientNext ==
  /\ ServerAt("client")
  /\ ServerGoes(IF active THEN "recv" ELSE "leave")
  /\ UNCHANGED <<socketVars, requestVars, worker, mainVars, machine>>

\* recv() returns bytes that complete a line.
Line ==
  /\ ServerAt("recv") /\ Open(server.last) /\ Enqueued # Requests
  /\ ServerGoes("enqueue")
  /\ UNCHANGED <<socketVars, requestVars, worker, mainVars, machine>>

\* The peer hangs up, or its line is too long and the loop answers and returns.
HangUp ==
  /\ ServerAt("recv") /\ Open(server.last)
  /\ ServerGoes("leave")
  /\ UNCHANGED <<socketVars, requestVars, worker, mainVars, machine>>

\* recv() fails because stop() shut the socket down.
RecvFails ==
  /\ ServerAt("recv") /\ ~Open(server.last)
  /\ ServerGoes("leave")
  /\ UNCHANGED <<socketVars, requestVars, worker, mainVars, machine>>

\* enqueue()
Enqueue ==
  /\ ServerAt("enqueue")
  /\ \E r \in Requests \ Enqueued :
       /\ \A q \in Requests \ Enqueued : r <= q
       /\ queue' = Append(queue, r) /\ pending' = pending + 1
       /\ outcome' = [outcome EXCEPT ![r] = "waiting"]
       /\ server' = [server EXCEPT !.pc = "wait", !.request = r]
  /\ UNCHANGED <<executed, socketVars, worker, mainVars, machine>>

\* The predicate of the wait, evaluated under the request's mutex: the response is taken,
\* or the thread goes to sleep.
Wait ==
  /\ ServerAt("wait")
  /\ LET done == outcome[server.request] # "waiting" IN
       server' = [server EXCEPT
         !.pc = IF done \/ ~active THEN "send" ELSE "asleep",
         !.answer = IF done THEN outcome[server.request] ELSE "stopping"]
  /\ UNCHANGED <<socketVars, requestVars, worker, mainVars, machine>>

\* A condition variable may wake up without a reason.
WakeUp ==
  /\ ServerAt("asleep")
  /\ ServerGoes("wait")
  /\ UNCHANGED <<socketVars, requestVars, worker, mainVars, machine>>

\* sendAll(). What was sent together with this line is handled before recv().
Send ==
  /\ ServerAt("send")
  /\ \/ Open(server.last) /\ Enqueued # Requests /\ ServerGoes("enqueue")
     \/ Open(server.last) /\ ServerGoes("client")
     \/ ServerGoes("leave")
  /\ UNCHANGED <<socketVars, requestVars, worker, mainVars, machine>>

\* Mutant: a plain close.
closeOwned_Always(owner, s) == Close(s) /\ owner' = 0

\* closeOwned: whoever takes the descriptor out of the atomic closes it.
closeOwned(owner, s) ==
  IF owner = s THEN Close(s) /\ owner' = 0 ELSE UNCHANGED <<closes, owner>>

\* clientLoop has returned.
Leave ==
  /\ ServerAt("leave")
  /\ closeOwned(clientSocket, server.last)
  /\ ServerGoes("serve")
  /\ UNCHANGED <<active, listenSocket, requestVars, worker, mainVars, machine>>

\* serverLoop has ended: load, then closeOwned.
CloseListener ==
  /\ ServerAt("close")
  /\ closeOwned(listenSocket, Listener)
  /\ ServerGoes("done")
  /\ UNCHANGED <<active, clientSocket, requestVars, worker, mainVars, machine>>

Server ==
  \/ ServeNext \/ AcceptFails \/ Connected \/ ClientNext \/ RecvFails \/ Enqueue
  \/ Wait \/ Send \/ Leave \/ CloseListener

-----------------------------------------------------------------------------
(* The emulator worker.                                                    *)

WorkerAt(pc) == worker.pc = pc
WorkerGoes(pc) == worker' = [worker EXCEPT !.pc = pc]
Drains(after) == worker' = [worker EXCEPT !.pc = "drain", !.after = after]

\* The response is set under the request's mutex, and whoever sleeps on it is notified.
Complete(rs, o) ==
  /\ outcome' = [r \in Requests |-> IF r \in rs THEN o ELSE outcome[r]]
  /\ server' = IF ServerAt("asleep") /\ server.request \in rs THEN [server EXCEPT !.pc = "wait"]
               ELSE server

\* Mutant: the worker drains a paused machine wherever its CPU is.
LoopTop_AnyPause ==
  /\ WorkerAt("loop")
  /\ IF stopper # "running" THEN WorkerGoes("exited")
     ELSE IF pending # 0 /\ (~machine.loaded \/ machine.paused) THEN Drains("middle")
     ELSE WorkerGoes("middle")
  /\ UNCHANGED <<socketVars, requestVars, server, mainVars, machine>>

\* The top of emulatorRunLoop.
LoopTop ==
  /\ WorkerAt("loop")
  /\ IF stopper # "running" THEN WorkerGoes("exited")
     ELSE IF pending # 0 /\ (~machine.loaded \/ (machine.paused /\ machine.ready)) THEN Drains("middle")
     ELSE WorkerGoes("middle")
  /\ UNCHANGED <<socketVars, requestVars, server, mainVars, machine>>

Sleeps == (machine.paused /\ ~machine.advance) \/ machine.defocused

\* Mutant: a machine that is paused or out of focus sleeps whatever is pending.
LoopMiddle_Sleeps ==
  /\ WorkerAt("middle")
  /\ IF ~machine.loaded \/ machine.halted \/ Sleeps THEN WorkerGoes("loop") /\ UNCHANGED machine
     ELSE WorkerGoes("run") /\ machine' = [machine EXCEPT !.advance = FALSE, !.ready = FALSE]
  /\ UNCHANGED <<socketVars, requestVars, server, mainVars>>

\* The middle of emulatorRunLoop, which reads _pending again.
LoopMiddle ==
  /\ WorkerAt("middle")
  /\ IF ~machine.loaded THEN WorkerGoes("loop") /\ UNCHANGED machine
     ELSE IF machine.halted
          THEN (IF pending # 0 THEN Drains("loop") ELSE WorkerGoes("loop")) /\ UNCHANGED machine
     ELSE IF Sleeps /\ pending = 0 THEN WorkerGoes("loop") /\ UNCHANGED machine
     ELSE WorkerGoes("run") /\ machine' = [machine EXCEPT !.advance = FALSE, !.ready = FALSE]
  /\ UNCHANGED <<socketVars, requestVars, server, mainVars>>

\* run() leaves at a frame, perhaps in the middle of an instruction.
RunFrame ==
  /\ WorkerAt("run")
  /\ WorkerGoes("loop")
  /\ \E at \in {"boundary", "inside"} : machine' = [machine EXCEPT !.cpu = at]
  /\ UNCHANGED <<socketVars, requestVars, server, mainVars>>

\* run() halts for GDB before an instruction.
RunHalts ==
  /\ WorkerAt("run")
  /\ WorkerGoes("loop")
  /\ machine' = [machine EXCEPT !.cpu = "boundary", !.halted = TRUE]
  /\ UNCHANGED <<socketVars, requestVars, server, mainVars>>

\* CPU::main finds a request pending and leaves with Event::Debugger.
RunToBoundary ==
  /\ WorkerAt("run") /\ pending # 0
  /\ Drains("loop")
  /\ machine' = [machine EXCEPT !.cpu = "boundary", !.ready = TRUE]
  /\ UNCHANGED <<socketVars, requestVars, server, mainVars>>

\* Mutant: the request stays in the queue while it is run.
Take_Peeks ==
  /\ WorkerAt("drain")
  /\ IF queue = <<>> THEN WorkerGoes(worker.after)
     ELSE worker' = [worker EXCEPT !.pc = "dispatch", !.request = Head(queue)]
  /\ UNCHANGED <<requestVars, socketVars, server, mainVars, machine>>

\* processBoundary takes the next request, or returns.
Take ==
  /\ WorkerAt("drain")
  /\ IF queue = <<>> THEN WorkerGoes(worker.after) /\ UNCHANGED <<queue, pending>>
     ELSE /\ worker' = [worker EXCEPT !.pc = "dispatch", !.request = Head(queue)]
          /\ queue' = Tail(queue) /\ pending' = pending - 1
  /\ UNCHANGED <<outcome, executed, socketVars, server, mainVars, machine>>

\* dispatch: pause, resume, reset and the commands that leave the machine where it is.
Execute ==
  /\ WorkerAt("dispatch")
  /\ \/ UNCHANGED machine
     \/ machine.loaded /\ \E p \in BOOLEAN : machine' = [machine EXCEPT !.paused = p]
     \/ machine.loaded /\ machine' = [machine EXCEPT !.cpu = "boundary"]
  /\ executed' = executed \cup {worker.request}
  /\ WorkerGoes("complete")
  /\ UNCHANGED <<queue, pending, outcome, socketVars, server, mainVars>>

Respond ==
  /\ WorkerAt("complete")
  /\ Complete({worker.request}, "done")
  /\ WorkerGoes("drain")
  /\ UNCHANGED <<queue, pending, executed, socketVars, mainVars, machine>>

Worker == LoopTop \/ LoopMiddle \/ RunFrame \/ RunToBoundary \/ Take \/ Execute \/ Respond

-----------------------------------------------------------------------------
(* The main thread.                                                        *)

\* What the window does to the machine under Program::Guard, with the worker held at
\* the top of its loop; the focus and GDB change whenever they like.
Window ==
  /\ stopper = "running"
  /\ \/ /\ WorkerAt("loop") /\ machine.loaded
        /\ \/ machine' = [machine EXCEPT !.paused = ~@]
           \/ machine.paused /\ machine' = [machine EXCEPT !.advance = TRUE]
           \/ machine' = [machine EXCEPT !.cpu = "boundary"]
           \/ machine' = [machine EXCEPT !.loaded = FALSE, !.halted = FALSE]
     \/ /\ WorkerAt("loop") /\ ~machine.loaded
        /\ \E p \in BOOLEAN : machine' = [machine EXCEPT !.loaded = TRUE, !.paused = p, !.cpu = "boundary"]
     \/ machine' = [machine EXCEPT !.defocused = ~@]
     \/ machine.halted /\ WorkerAt("loop") /\ machine' = [machine EXCEPT !.halted = FALSE]
  /\ UNCHANGED <<socketVars, requestVars, server, worker, mainVars>>

StopperGoes(from, to) == stopper = from /\ stopper' = to

\* quit() tells the worker to end.
Quit ==
  /\ StopperGoes("running", "quitting")
  /\ UNCHANGED <<took, socketVars, requestVars, server, worker, machine>>

\* stop(), one step per exchange or close.
Deactivate ==
  /\ StopperGoes("quitting", "takeClient")
  /\ active' = FALSE
  /\ UNCHANGED <<took, listenSocket, clientSocket, closes, requestVars, server, worker, machine>>

TakeClient ==
  /\ StopperGoes("takeClient", "closeClient")
  /\ took' = clientSocket /\ clientSocket' = 0
  /\ UNCHANGED <<active, listenSocket, closes, requestVars, server, worker, machine>>

CloseClient ==
  /\ StopperGoes("closeClient", "takeListener")
  /\ IF took # 0 THEN Close(took) ELSE UNCHANGED closes
  /\ UNCHANGED <<took, active, listenSocket, clientSocket, requestVars, server, worker, machine>>

TakeListener ==
  /\ StopperGoes("takeListener", "closeListener")
  /\ took' = listenSocket /\ listenSocket' = 0
  /\ UNCHANGED <<active, clientSocket, closes, requestVars, server, worker, machine>>

StopListening ==
  /\ StopperGoes("closeListener", "failPending")
  /\ IF took # 0 THEN Close(took) ELSE UNCHANGED closes
  /\ UNCHANGED <<took, active, listenSocket, clientSocket, requestVars, server, worker, machine>>

\* Mutant: the requests are dropped and nobody is notified.
failPending_Drops ==
  /\ StopperGoes("failPending", "join")
  /\ queue' = <<>> /\ pending' = 0
  /\ UNCHANGED <<outcome, executed, took, socketVars, server, worker, machine>>

\* failPending()
failPending ==
  /\ StopperGoes("failPending", "join")
  /\ queue' = <<>> /\ pending' = 0 /\ Complete(Range(queue), "stopping")
  /\ UNCHANGED <<executed, took, socketVars, worker, machine>>

JoinServer ==
  /\ StopperGoes("join", "joinWorker") /\ ServerAt("done")
  /\ UNCHANGED <<took, socketVars, requestVars, server, worker, machine>>

JoinWorker ==
  /\ StopperGoes("joinWorker", "stopped") /\ WorkerAt("exited")
  /\ UNCHANGED <<took, socketVars, requestVars, server, worker, machine>>

Stop == Deactivate \/ TakeClient \/ CloseClient \/ TakeListener \/ StopListening \/ failPending
        \/ JoinServer \/ JoinWorker

-----------------------------------------------------------------------------

Init ==
  /\ active = TRUE /\ listenSocket = Listener /\ clientSocket = 0
  /\ closes = [s \in Sockets |-> 0]
  /\ queue = <<>> /\ pending = 0 /\ outcome = [r \in Requests |-> "none"] /\ executed = {}
  /\ server = [pc |-> "serve", last |-> 0, request |-> 0, answer |-> "none"]
  /\ worker = [pc |-> "loop", request |-> 0, after |-> "loop"]
  /\ stopper = "running" /\ took = 0
  /\ machine = [loaded |-> FALSE, paused |-> FALSE, advance |-> FALSE, defocused |-> FALSE,
                halted |-> FALSE, cpu |-> "boundary", ready |-> FALSE]

Next ==
  \/ Server \/ Accept \/ AcceptError \/ Line \/ HangUp \/ WakeUp
  \/ Worker \/ RunHalts
  \/ Window \/ Quit \/ Stop

Spec == Init /\ [][Next]_vars

\* Each thread runs on. The core finishes an instruction within a frame, so that it cannot
\* leave at frames for ever with a request pending.
FairSpec ==
  /\ Spec
  /\ WF_vars(Server) /\ WF_vars(Worker) /\ SF_vars(RunToBoundary) /\ WF_vars(Stop)

-----------------------------------------------------------------------------
(* Properties.                                                             *)

ServerPlaces == {"serve", "accept", "accepted", "client", "recv", "enqueue", "wait", "asleep",
                 "send", "leave", "close", "done"}
WorkerPlaces == {"loop", "middle", "run", "drain", "dispatch", "complete", "exited"}
StopPlaces == {"running", "quitting", "takeClient", "closeClient", "takeListener",
               "closeListener", "failPending", "join", "joinWorker", "stopped"}
Outcomes == {"none", "waiting", "done", "stopping"}

\* Every variable stays within its type, and _pending is the length of _queue whenever
\* nobody holds _queueMutex.
TypeOK ==
  /\ active \in BOOLEAN
  /\ listenSocket \in {0, Listener} /\ clientSocket \in Connections \cup {0}
  /\ closes \in [Sockets -> Nat]
  /\ queue \in Seq(Requests) /\ pending = Len(queue)
  /\ outcome \in [Requests -> Outcomes] /\ executed \subseteq Requests
  /\ server \in [pc : ServerPlaces, last : 0 .. MaxConnections, request : 0 .. MaxRequests, answer : Outcomes]
  /\ worker \in [pc : WorkerPlaces, request : 0 .. MaxRequests, after : {"loop", "middle"}]
  /\ stopper \in StopPlaces /\ took \in Sockets \cup {0}
  /\ machine \in [loaded : BOOLEAN, paused : BOOLEAN, advance : BOOLEAN, defocused : BOOLEAN,
                  halted : BOOLEAN, cpu : {"boundary", "inside"}, ready : BOOLEAN]

\* "No emulator state is accessed by the IPC thread", and the worker runs a command only
\* while the CPU of the loaded game stands between two instructions: debugBoundaryReady
\* is never left over from a time when it did.
AtBoundary ==
  WorkerAt("dispatch") /\ machine.loaded => machine.cpu = "boundary"

\* A descriptor is closed by the socket thread or by stop(), never by both, which might
\* close one that another thread has just been given; and when the bridge has stopped,
\* all of them have been closed, one accepted during stop() included.
ClosedOnce ==
  /\ \A s \in Sockets : closes[s] <= 1
  /\ stopper \in {"joinWorker", "stopped"} => \A s \in Accepted \cup {Listener} : ~Open(s)

\* A response that says a command was done answers one that was run, and a request that
\* failPending() refused is never run, before or after.
AnswersAreTrue ==
  /\ ServerAt("send") /\ server.answer = "done" => server.request \in executed
  /\ \A r \in Requests : outcome[r] = "stopping" => r \notin executed

\* The socket thread does not wait for ever, whatever stop() and the window do meanwhile:
\* a notification is never lost.
EveryRequestAnswered == ServerAt("wait") ~> ServerAt("send")

\* quit() returns: neither thread is left waiting for the other.
QuitReturns == stopper = "quitting" ~> stopper = "stopped"
=============================================================================
