---------------------------- MODULE BridgeProofs ----------------------------
(***************************************************************************)
(* Proofs about the debug bridge, for any number of requests and           *)
(* connections. The three threads share the machine, the descriptors and   *)
(* the requests, and each of them has an invariant of its own: Standing,   *)
(* Owned and Accounted. A step is looked at only for what it touches.      *)
(***************************************************************************)
EXTENDS DebugBridge, TLAPS

USE DEF ServerAt, ServerGoes, WorkerAt, WorkerGoes, Drains, StopperGoes,
        socketVars, requestVars, mainVars

-----------------------------------------------------------------------------
(* The machine.                                                            *)

Machines ==
  [loaded : BOOLEAN, paused : BOOLEAN, advance : BOOLEAN, defocused : BOOLEAN,
   halted : BOOLEAN, cpu : {"boundary", "inside"}, ready : BOOLEAN]

Workers == [pc : WorkerPlaces, request : 0 .. MaxRequests, after : {"loop", "middle"}]

\* A machine that is ready or halted stands between two instructions: only run() moves it,
\* and run() is entered with neither. The worker drains a machine that stands.
Standing ==
  /\ machine \in Machines
  /\ worker \in Workers
  /\ machine.ready \/ machine.halted => machine.cpu = "boundary"
  /\ worker.pc = "run" => ~machine.ready /\ ~machine.halted
  /\ worker.pc \in {"drain", "dispatch", "complete"} => ~machine.loaded \/ machine.cpu = "boundary"

\* A step that leaves the machine and the worker alone.
LEMMA StandingKept ==
  Standing /\ UNCHANGED <<machine, worker>> => Standing'
  BY DEF Standing

\* The head of the queue, which the worker takes, is a request.
LEMMA HeadIsRequest ==
  ASSUME NEW q \in Seq(Requests), q # <<>>
  PROVE  /\ Head(q) \in Requests /\ Tail(q) \in Seq(Requests)
         /\ Len(q) \in Nat \ {0} /\ Len(Tail(q)) = Len(q) - 1
  OBVIOUS

\* The worker's own steps: it enters run() with a machine that is neither ready nor
\* halted, and drain with one that stands.
LEMMA WorkerStanding ==
  ASSUME Standing, queue \in Seq(Requests), Worker \/ RunHalts
  PROVE  Standing'
<1>0. worker \in Workers /\ machine \in Machines
  BY DEF Standing
<1>1. CASE LoopTop
  <2>1. \/ worker' = [worker EXCEPT !.pc = "exited"]
        \/ worker' = [worker EXCEPT !.pc = "middle"]
        \/ /\ worker' = [worker EXCEPT !.pc = "drain", !.after = "middle"]
           /\ ~machine.loaded \/ machine.ready
    BY <1>1 DEF LoopTop
  <2>2. /\ worker' \in Workers
        /\ \/ worker'.pc \in {"exited", "middle"}
           \/ worker'.pc = "drain" /\ (~machine.loaded \/ machine.ready)
    BY <1>0, <2>1 DEF Workers, WorkerPlaces
  <2>3. machine' = machine
    BY <1>1 DEF LoopTop
  <2> QED BY <2>2, <2>3 DEF Standing
<1>2. CASE LoopMiddle
  <2>1. CASE machine' = machine
    <3>1. \/ worker' = [worker EXCEPT !.pc = "loop"]
          \/ worker' = [worker EXCEPT !.pc = "drain", !.after = "loop"] /\ machine.halted
          \/ worker' = [worker EXCEPT !.pc = "run"] /\ ~machine.halted /\ ~machine'.ready
      BY <1>0, <1>2 DEF LoopMiddle, Machines
    <3>2. /\ worker' \in Workers
          /\ \/ worker'.pc = "loop" \/ (worker'.pc = "drain" /\ machine.halted)
             \/ worker'.pc = "run" /\ ~machine.halted /\ ~machine'.ready
      BY <1>0, <2>1, <3>1 DEF Workers, WorkerPlaces
    <3> QED BY <2>1, <3>2 DEF Standing
  <2>2. CASE /\ worker' = [worker EXCEPT !.pc = "run"] /\ ~machine.halted
             /\ machine' = [machine EXCEPT !.advance = FALSE, !.ready = FALSE]
    <3>1. worker' \in Workers /\ worker'.pc = "run"
      BY <1>0, <2>2 DEF Workers, WorkerPlaces
    <3>2. /\ machine' \in Machines /\ ~machine'.ready /\ ~machine'.halted
      BY <1>0, <2>2 DEF Machines
    <3> QED BY <3>1, <3>2 DEF Standing
  <2> QED BY <1>2, <2>1, <2>2 DEF LoopMiddle
<1> USE DEF Standing, Machines, Workers, WorkerPlaces
<1>3. CASE RunFrame
  BY <1>3 DEF RunFrame
<1>4. CASE RunHalts
  BY <1>4 DEF RunHalts
<1>5. CASE RunToBoundary
  BY <1>5 DEF RunToBoundary
<1>6. CASE Take
  <2>1. CASE queue = <<>>
    BY <1>6, <2>1 DEF Take
  <2>2. CASE queue # <<>>
    <3>1. Head(queue) \in 0 .. MaxRequests
      BY <2>2, HeadIsRequest, BoundsAssumption DEF Requests
    <3> QED BY <1>6, <2>2, <3>1 DEF Take
  <2> QED BY <2>1, <2>2
<1>7. CASE Execute
  BY <1>7 DEF Execute
<1>8. CASE Respond
  BY <1>8 DEF Respond
<1> QED BY <1>1, <1>2, <1>3, <1>4, <1>5, <1>6, <1>7, <1>8 DEF Worker

\* The window changes the machine only while the worker is at the top of its loop.
LEMMA WindowStanding ==
  ASSUME Standing, Window
  PROVE  Standing'
<1> USE DEF Standing, Machines
<1>1. worker' = worker /\ worker' \in Workers
  BY DEF Window
<1>2. CASE worker.pc = "loop" /\ machine' = [machine EXCEPT !.paused = ~@]
  BY <1>1, <1>2
<1>3. CASE worker.pc = "loop" /\ machine' = [machine EXCEPT !.advance = TRUE]
  BY <1>1, <1>3
<1>4. CASE worker.pc = "loop" /\ machine' = [machine EXCEPT !.cpu = "boundary"]
  BY <1>1, <1>4
<1>5. CASE worker.pc = "loop" /\ machine' = [machine EXCEPT !.loaded = FALSE, !.halted = FALSE]
  BY <1>1, <1>5
<1>6. ASSUME NEW p \in BOOLEAN, worker.pc = "loop",
             machine' = [machine EXCEPT !.loaded = TRUE, !.paused = p, !.cpu = "boundary"]
      PROVE  Standing'
  BY <1>1, <1>6
<1>7. CASE machine' = [machine EXCEPT !.defocused = ~@]
  BY <1>1, <1>7
<1>8. CASE worker.pc = "loop" /\ machine' = [machine EXCEPT !.halted = FALSE]
  BY <1>1, <1>8
<1> HIDE DEF Standing
<1> QED BY <1>2, <1>3, <1>4, <1>5, <1>6, <1>7, <1>8 DEF Window

-----------------------------------------------------------------------------
(* The descriptors.                                                        *)

Servers == [pc : ServerPlaces, last : 0 .. MaxConnections, request : 0 .. MaxRequests, answer : Outcomes]

\* Who is going to close a connection: whoever takes it out of _clientSocket, stop()
\* once it has taken it, or the socket thread that has just been given it.
InAtomic(s) == clientSocket = s
InStop(s) == stopper = "closeClient" /\ took = s
InHand(s) == server.pc = "accepted" /\ server.last = s

\* The places at which the socket thread has a client.
Serving == {"client", "recv", "enqueue", "wait", "asleep", "send", "leave"}

\* An accepted connection has one owner until it is closed, and none after.
OneOwner(s) ==
  /\ ~(InAtomic(s) /\ InStop(s)) /\ ~(InAtomic(s) /\ InHand(s)) /\ ~(InStop(s) /\ InHand(s))
  /\ closes[s] = IF s <= server.last /\ ~InAtomic(s) /\ ~InStop(s) /\ ~InHand(s) THEN 1 ELSE 0
  /\ InAtomic(s) \/ InStop(s) => s <= server.last

\* The listener is in _listenSocket, in the hands of stop(), or closed.
ListenerOwner ==
  /\ listenSocket \in {0, Listener}
  /\ ~(listenSocket = Listener /\ stopper = "closeListener" /\ took = Listener)
  /\ closes[Listener] =
       IF listenSocket = Listener \/ (stopper = "closeListener" /\ took = Listener) THEN 0 ELSE 1

Owned ==
  /\ server \in Servers /\ closes \in [Sockets -> Nat]
  /\ clientSocket \in Connections \cup {0}
  /\ stopper \in StopPlaces /\ took \in Sockets \cup {0}
  /\ stopper = "closeClient" => took \in Connections \cup {0}
  /\ stopper = "closeListener" => took \in {0, Listener}
  /\ clientSocket # 0 => server.pc \in Serving /\ clientSocket = server.last
  /\ server.pc \in Serving \cup {"accepted"} => server.last \in Connections
  /\ server.pc = "done" => listenSocket = 0
  /\ stopper \in {"joinWorker", "stopped"} => server.pc = "done"
  /\ \A s \in Connections : OneOwner(s)
  /\ ListenerOwner

\* The connections and the listener are different descriptors.
LEMMA Descriptors ==
  /\ Listener \in Sockets /\ Listener \notin Connections /\ Connections \subseteq Sockets
  /\ 0 \notin Sockets /\ Connections \subseteq Nat /\ Listener # 0
  BY BoundsAssumption DEF Listener, Sockets, Connections

\* A step that leaves the descriptors alone.
LEMMA OwnedKept ==
  Owned /\ UNCHANGED <<server, clientSocket, listenSocket, closes, stopper, took>> => Owned'
  BY DEF Owned, OneOwner, ListenerOwner, InAtomic, InStop, InHand

\* A step of the socket thread from one place with a client to another, or to or from a
\* place without one when it has none to close.
LEMMA ServerMoves ==
  ASSUME Owned, UNCHANGED <<clientSocket, listenSocket, closes, stopper, took>>,
         server' \in Servers, server'.last = server.last,
         \/ server.pc \in Serving /\ server'.pc \in Serving
         \/ server.pc \in {"serve", "accept"} /\ server'.pc \in {"accept", "close"}
  PROVE  Owned'
<1>1. \A s \in Connections : OneOwner(s)'
  BY DEF Owned, OneOwner, InAtomic, InStop, InHand, Serving
<1>2. ListenerOwner'
  BY DEF Owned, ListenerOwner
<1> QED BY <1>1, <1>2 DEF Owned, Serving

\* accept() returns a connection that nobody has closed.
LEMMA AcceptOwned ==
  ASSUME Owned, Accept
  PROVE  Owned'
<1> USE Descriptors, BoundsAssumption
<1>a. server.last \in 0 .. MaxConnections /\ server.last < MaxConnections
  BY DEF Owned, Accept, Servers
<1>b. server.last + 1 \in 0 .. MaxConnections /\ server.last + 1 \in Connections /\ server.last \in Nat
  BY <1>a DEF Connections
<1>1. /\ server' \in Servers /\ server'.pc = "accepted" /\ server'.last = server.last + 1
      /\ server'.last \in Connections /\ server.last \in Nat /\ server.pc = "accept"
      /\ UNCHANGED <<clientSocket, listenSocket, closes, stopper, took>>
  BY <1>b DEF Owned, Accept, Servers, ServerPlaces
<1>2. clientSocket = 0
  BY <1>1 DEF Owned, Serving
<1>3. ASSUME NEW s \in Connections
      PROVE  OneOwner(s)'
  <2>1. OneOwner(s) /\ s \in Nat /\ s # 0
    BY DEF Owned
  <2>2. InAtomic(s)' = FALSE /\ InAtomic(s) = FALSE
    BY <1>1, <1>2, <2>1 DEF InAtomic
  <2>3. InStop(s)' <=> InStop(s)
    BY <1>1 DEF InStop
  <2>4. InHand(s) = FALSE /\ (InHand(s)' <=> s = server.last + 1)
    BY <1>1 DEF InHand
  <2> QED BY <1>1, <2>1, <2>2, <2>3, <2>4 DEF OneOwner
<1>4. ListenerOwner'
  BY <1>1 DEF Owned, ListenerOwner
<1> QED BY <1>1, <1>2, <1>3, <1>4 DEF Owned, Serving

\* The connection goes from the hands of the socket thread into _clientSocket.
LEMMA ConnectedOwned ==
  ASSUME Owned, Connected
  PROVE  Owned'
<1> USE Descriptors
<1>1. /\ server' \in Servers /\ server'.pc = "client" /\ server'.last = server.last
      /\ server.last \in Connections /\ server.pc = "accepted" /\ clientSocket' = server.last
      /\ UNCHANGED <<listenSocket, closes, stopper, took>>
  BY DEF Owned, Connected, Servers, ServerPlaces, Serving
<1>2. clientSocket = 0
  BY <1>1 DEF Owned, Serving
<1>3. ASSUME NEW s \in Connections
      PROVE  OneOwner(s)'
  BY <1>1, <1>2 DEF Owned, OneOwner, InAtomic, InStop, InHand
<1>4. ListenerOwner'
  BY <1>1 DEF Owned, ListenerOwner
<1> QED BY <1>1, <1>3, <1>4 DEF Owned, Serving

\* clientLoop has returned: the connection is closed here, or stop() has taken it.
LEMMA LeaveOwned ==
  ASSUME Owned, Leave
  PROVE  Owned'
<1> USE Descriptors
<1>1. /\ server' \in Servers /\ server'.pc = "serve" /\ server'.last = server.last
      /\ server.last \in Connections /\ server.pc = "leave"
      /\ UNCHANGED <<listenSocket, stopper, took>>
  BY DEF Owned, Leave, Servers, ServerPlaces, Serving
<1>2. CASE clientSocket = server.last
  <2>1. /\ clientSocket' = 0 /\ closes' \in [Sockets -> Nat]
        /\ closes' = [closes EXCEPT ![server.last] = @ + 1]
    BY <1>1, <1>2 DEF Leave, closeOwned, Close, Owned
  <2>2. ASSUME NEW s \in Connections
        PROVE  OneOwner(s)'
    BY <1>1, <1>2, <2>1 DEF Owned, OneOwner, InAtomic, InStop, InHand
  <2>3. ListenerOwner'
    BY <1>1, <2>1 DEF Owned, ListenerOwner
  <2> QED BY <1>1, <2>1, <2>2, <2>3 DEF Owned, Serving
<1>3. CASE clientSocket # server.last
  <2>1. clientSocket = 0 /\ UNCHANGED <<clientSocket, closes>>
    BY <1>1, <1>3 DEF Leave, closeOwned, Owned
  <2>2. ASSUME NEW s \in Connections
        PROVE  OneOwner(s)'
    BY <1>1, <2>1 DEF Owned, OneOwner, InAtomic, InStop, InHand
  <2>3. ListenerOwner'
    BY <1>1, <2>1 DEF Owned, ListenerOwner
  <2> QED BY <1>1, <2>1, <2>2, <2>3 DEF Owned, Serving
<1> QED BY <1>2, <1>3

\* serverLoop has ended: the listener is closed here, or stop() has taken it.
LEMMA CloseListenerOwned ==
  ASSUME Owned, CloseListener
  PROVE  Owned'
<1> USE Descriptors
<1>1. /\ server' \in Servers /\ server'.pc = "done" /\ server'.last = server.last
      /\ server.pc = "close" /\ UNCHANGED <<clientSocket, stopper, took>>
  BY DEF Owned, CloseListener, Servers, ServerPlaces
<1>2. CASE listenSocket = Listener
  <2>1. /\ listenSocket' = 0 /\ closes' \in [Sockets -> Nat]
        /\ closes' = [closes EXCEPT ![Listener] = @ + 1]
    BY <1>2 DEF CloseListener, closeOwned, Close, Owned
  <2>2. ASSUME NEW s \in Connections
        PROVE  OneOwner(s)'
    BY <1>1, <2>1 DEF Owned, OneOwner, InAtomic, InStop, InHand
  <2>3. ListenerOwner'
    BY <1>1, <1>2, <2>1 DEF Owned, ListenerOwner
  <2> QED BY <1>1, <2>1, <2>2, <2>3 DEF Owned, Serving
<1>3. CASE listenSocket # Listener
  <2>1. listenSocket = 0 /\ UNCHANGED <<listenSocket, closes>>
    BY <1>3 DEF CloseListener, closeOwned, Owned, ListenerOwner
  <2>2. ASSUME NEW s \in Connections
        PROVE  OneOwner(s)'
    BY <1>1, <2>1 DEF Owned, OneOwner, InAtomic, InStop, InHand
  <2>3. ListenerOwner'
    BY <1>1, <2>1 DEF Owned, ListenerOwner
  <2> QED BY <1>1, <2>1, <2>2, <2>3 DEF Owned, Serving
<1> QED BY <1>2, <1>3

\* stop() takes the connection out of _clientSocket, closes it, and does the same with
\* the listener; the other steps of the main thread touch no descriptor.
LEMMA StopOwned ==
  ASSUME Owned, Deactivate \/ TakeClient \/ CloseClient \/ TakeListener \/ StopListening
                \/ JoinServer \/ JoinWorker \/ Quit
  PROVE  Owned'
<1> USE Descriptors
<1>1. CASE Deactivate \/ Quit \/ JoinServer \/ JoinWorker
  <2>1. /\ UNCHANGED <<server, clientSocket, listenSocket, closes, took>> /\ stopper' \in StopPlaces
        /\ stopper \notin {"closeClient", "closeListener"}
        /\ stopper' \notin {"closeClient", "closeListener"}
        /\ stopper' \in {"joinWorker", "stopped"} =>
             stopper \in {"joinWorker", "stopped"} \/ server.pc = "done"
    BY <1>1 DEF Deactivate, Quit, JoinServer, JoinWorker, StopPlaces
  <2>2. \A s \in Connections : OneOwner(s)'
    BY <2>1 DEF Owned, OneOwner, InAtomic, InStop, InHand
  <2>3. ListenerOwner'
    BY <2>1 DEF Owned, ListenerOwner
  <2> QED BY <2>1, <2>2, <2>3 DEF Owned
<1>2. CASE TakeClient
  <2>1. /\ UNCHANGED <<server, listenSocket, closes>> /\ took' = clientSocket /\ clientSocket' = 0
        /\ stopper = "takeClient" /\ stopper' = "closeClient"
    BY <1>2 DEF TakeClient
  <2>2. \A s \in Connections : OneOwner(s)'
    BY <2>1 DEF Owned, OneOwner, InAtomic, InStop, InHand
  <2>3. ListenerOwner'
    BY <2>1 DEF Owned, ListenerOwner
  <2> QED BY <2>1, <2>2, <2>3 DEF Owned, StopPlaces
<1>3. CASE CloseClient
  <2>1. /\ UNCHANGED <<server, listenSocket, clientSocket, took>>
        /\ stopper = "closeClient" /\ stopper' = "takeListener" /\ took \in Connections \cup {0}
        /\ closes' = IF took # 0 THEN [closes EXCEPT ![took] = @ + 1] ELSE closes
    BY <1>3 DEF CloseClient, Close, Owned
  <2>2. ASSUME NEW s \in Connections
        PROVE  OneOwner(s)'
    BY <2>1 DEF Owned, OneOwner, InAtomic, InStop, InHand
  <2>3. ListenerOwner'
    BY <2>1 DEF Owned, ListenerOwner
  <2>4. closes' \in [Sockets -> Nat]
    BY <2>1 DEF Owned
  <2> QED BY <2>1, <2>2, <2>3, <2>4 DEF Owned, StopPlaces
<1>4. CASE TakeListener
  <2>1. /\ UNCHANGED <<server, clientSocket, closes>> /\ took' = listenSocket /\ listenSocket' = 0
        /\ stopper = "takeListener" /\ stopper' = "closeListener"
    BY <1>4 DEF TakeListener
  <2>2. \A s \in Connections : OneOwner(s)'
    BY <2>1 DEF Owned, OneOwner, InAtomic, InStop, InHand
  <2>3. ListenerOwner'
    BY <2>1 DEF Owned, ListenerOwner
  <2> QED BY <2>1, <2>2, <2>3 DEF Owned, ListenerOwner, StopPlaces
<1>5. CASE StopListening
  <2>1. /\ UNCHANGED <<server, listenSocket, clientSocket, took>>
        /\ stopper = "closeListener" /\ stopper' = "failPending" /\ took \in {0, Listener}
        /\ closes' = IF took # 0 THEN [closes EXCEPT ![took] = @ + 1] ELSE closes
    BY <1>5 DEF StopListening, Close, Owned
  <2>2. ASSUME NEW s \in Connections
        PROVE  OneOwner(s)'
    BY <2>1 DEF Owned, OneOwner, InAtomic, InStop, InHand
  <2>3. ListenerOwner'
    BY <2>1 DEF Owned, ListenerOwner
  <2>4. closes' \in [Sockets -> Nat]
    BY <2>1 DEF Owned
  <2> QED BY <2>1, <2>2, <2>3, <2>4 DEF Owned, StopPlaces
<1> QED BY <1>1, <1>2, <1>3, <1>4, <1>5

\* A response wakes the socket thread up at most, and the main thread goes on to join.
LEMMA CompleteOwned ==
  ASSUME Owned, NEW rs, NEW o, Complete(rs, o),
         UNCHANGED <<clientSocket, listenSocket, closes, took>>,
         UNCHANGED stopper \/ (stopper = "failPending" /\ stopper' = "join")
  PROVE  Owned'
<1>1. /\ server' \in Servers /\ server'.last = server.last
      /\ server'.pc = server.pc \/ (server.pc = "asleep" /\ server'.pc = "wait")
  BY DEF Owned, Complete, Servers, ServerPlaces
<1>2. /\ stopper' \in StopPlaces
      /\ stopper' # stopper => stopper = "failPending" /\ stopper' = "join"
  BY DEF Owned, StopPlaces
<1>3. \A s \in Connections : OneOwner(s)'
  BY <1>1, <1>2 DEF Owned, OneOwner, InAtomic, InStop, InHand
<1>4. ListenerOwner'
  BY <1>2 DEF Owned, ListenerOwner
<1> QED BY <1>1, <1>2, <1>3, <1>4 DEF Owned, Serving

\* The steps of the socket thread that open and close nothing.
LEMMA ServingOwned ==
  ASSUME Owned, outcome \in [Requests -> Outcomes],
         server.pc = "wait" => server.request \in Requests,
         ServeNext \/ AcceptFails \/ AcceptError \/ ClientNext \/ Line \/ HangUp \/ RecvFails \/ Enqueue
         \/ Wait \/ WakeUp \/ Send
  PROVE  Owned'
<1> USE DEF Owned, Servers, ServerPlaces, Serving
<1> DEFINE Moves ==
      /\ UNCHANGED <<clientSocket, listenSocket, closes, stopper, took>>
      /\ server' \in Servers /\ server'.last = server.last
      /\ \/ server.pc \in Serving /\ server'.pc \in Serving
         \/ server.pc \in {"serve", "accept"} /\ server'.pc \in {"accept", "close"}
<1>1. CASE ServeNext \/ AcceptFails \/ AcceptError \/ ClientNext \/ Line
  <2>1. Moves
    BY <1>1 DEF ServeNext, AcceptFails, AcceptError, ClientNext, Line
  <2> QED BY <2>1, ServerMoves
<1>2. CASE HangUp \/ RecvFails \/ WakeUp \/ Send
  <2>1. Moves
    BY <1>2 DEF HangUp, RecvFails, WakeUp, Send
  <2> QED BY <2>1, ServerMoves
<1>3. CASE Enqueue
  <2>1. PICK r \in Requests : server' = [server EXCEPT !.pc = "wait", !.request = r]
    BY <1>3 DEF Enqueue
  <2>2. r \in 0 .. MaxRequests
    BY <2>1, BoundsAssumption DEF Requests
  <2>3. Moves
    BY <1>3, <2>1, <2>2 DEF Enqueue
  <2> QED BY <2>3, ServerMoves
<1>4. CASE Wait
  <2>1. outcome[server.request] \in Outcomes /\ "stopping" \in Outcomes
    BY <1>4 DEF Wait, Outcomes
  <2>2. Moves
    BY <1>4, <2>1 DEF Wait
  <2> QED BY <2>2, ServerMoves
<1> QED BY <1>1, <1>2, <1>3, <1>4

-----------------------------------------------------------------------------
(* The requests.                                                           *)

Busy == worker.pc \in {"dispatch", "complete"}

\* A request in the queue waits, has not been run, and is there once.
QueueOK ==
  /\ queue \in Seq(Requests) /\ pending = Len(queue)
  /\ \A i \in 1 .. Len(queue) : outcome[queue[i]] = "waiting" /\ queue[i] \notin executed
  /\ \A i, j \in 1 .. Len(queue) : queue[i] = queue[j] => i = j

\* The request that the worker has taken waits, and is no longer in the queue.
TakenOK ==
  Busy => /\ worker.request \in Requests /\ outcome[worker.request] = "waiting"
          /\ \A i \in 1 .. Len(queue) : queue[i] # worker.request
          /\ worker.pc = "complete" => worker.request \in executed

\* What a response says of its request.
OutcomeOK ==
  /\ outcome \in [Requests -> Outcomes] /\ executed \subseteq Requests
  /\ \A r \in Requests : /\ outcome[r] = "done" => r \in executed
                         /\ outcome[r] \in {"none", "stopping"} => r \notin executed

\* The request whose response the socket thread waits for and sends.
AnswerOK ==
  /\ server.pc \in {"wait", "asleep"} => server.request \in Requests
  /\ server.pc = "send" /\ server.answer = "done" => server.request \in executed

Accounted == QueueOK /\ TakenOK /\ OutcomeOK /\ AnswerOK

\* A step that leaves the requests alone, and takes the threads nowhere where they need one.
LEMMA AccountedKept ==
  ASSUME Accounted, UNCHANGED requestVars,
         \/ UNCHANGED worker
         \/ ~Busy',
         \/ UNCHANGED server
         \/ server'.pc \notin {"wait", "asleep", "send"}
  PROVE  Accounted'
<1>1. QueueOK'
  BY DEF Accounted, QueueOK
<1>2. TakenOK'
  BY DEF Accounted, TakenOK, Busy
<1>3. OutcomeOK'
  BY DEF Accounted, OutcomeOK
<1>4. AnswerOK'
  BY DEF Accounted, AnswerOK
<1> QED BY <1>1, <1>2, <1>3, <1>4 DEF Accounted

\* enqueue() adds a request that was never made before.
LEMMA EnqueueAccounted ==
  ASSUME Accounted, server \in Servers, Enqueue
  PROVE  Accounted'
<1>1. PICK r \in Requests \ Enqueued :
        /\ queue' = Append(queue, r) /\ pending' = pending + 1
        /\ outcome' = [outcome EXCEPT ![r] = "waiting"]
        /\ server' = [server EXCEPT !.pc = "wait", !.request = r]
        /\ UNCHANGED <<executed, worker>>
  BY DEF Enqueue
<1>2. r \in Requests /\ outcome[r] = "none" /\ r \notin executed
  BY <1>1 DEF Accounted, OutcomeOK, Enqueued
<1>3. \A i \in 1 .. Len(queue) : queue[i] \in Requests /\ queue[i] # r
  BY <1>2 DEF Accounted, QueueOK
<1>4. /\ queue' \in Seq(Requests) /\ Len(queue') = Len(queue) + 1 /\ Len(queue) \in Nat
      /\ \A i \in 1 .. Len(queue) : queue'[i] = queue[i]
      /\ queue'[Len(queue) + 1] = r
  BY <1>1, <1>2 DEF Accounted, QueueOK
<1>5. \A q \in Requests : outcome'[q] = IF q = r THEN "waiting" ELSE outcome[q]
  BY <1>1, <1>2 DEF Accounted, OutcomeOK
<1>6. QueueOK'
  <2>1. ASSUME NEW i \in 1 .. Len(queue')
        PROVE  outcome'[queue'[i]] = "waiting" /\ queue'[i] \notin executed'
    <3>1. CASE i \in 1 .. Len(queue)
      BY <1>1, <1>3, <1>4, <1>5, <3>1 DEF Accounted, QueueOK
    <3>2. CASE i = Len(queue) + 1
      BY <1>1, <1>2, <1>4, <1>5, <3>2
    <3> QED BY <1>4, <3>1, <3>2
  <2>2. ASSUME NEW i \in 1 .. Len(queue'), NEW j \in 1 .. Len(queue'), queue'[i] = queue'[j]
        PROVE  i = j
    BY <1>3, <1>4, <2>2 DEF Accounted, QueueOK
  <2> QED BY <1>1, <1>4, <2>1, <2>2 DEF Accounted, QueueOK
<1>7. TakenOK'
  <2>1. SUFFICES ASSUME Busy
                 PROVE  /\ worker.request \in Requests /\ outcome'[worker.request] = "waiting"
                        /\ \A i \in 1 .. Len(queue') : queue'[i] # worker.request
                        /\ worker.pc = "complete" => worker.request \in executed
    BY <1>1 DEF TakenOK, Busy
  <2>2. worker.request \in Requests /\ worker.request # r
    BY <1>2, <2>1 DEF Accounted, TakenOK
  <2> QED BY <1>4, <1>5, <2>1, <2>2 DEF Accounted, TakenOK
<1>8. OutcomeOK'
  <2>1. outcome' \in [Requests -> Outcomes]
    BY <1>1 DEF Accounted, OutcomeOK, Outcomes
  <2> QED BY <1>1, <1>5, <2>1 DEF Accounted, OutcomeOK
<1>9. AnswerOK'
  BY <1>1, <1>2 DEF AnswerOK, Servers
<1> QED BY <1>6, <1>7, <1>8, <1>9 DEF Accounted

\* The wait: an answer "done" is the response of a request that was run.
LEMMA WaitAccounted ==
  ASSUME Accounted, server \in Servers, Wait \/ WakeUp
  PROVE  Accounted'
<1>1. UNCHANGED <<requestVars, worker>>
  BY DEF Wait, WakeUp
<1>2. AnswerOK'
  BY <1>1 DEF Wait, WakeUp, Accounted, AnswerOK, OutcomeOK, Servers
<1> QED BY <1>1, <1>2 DEF Accounted, QueueOK, TakenOK, OutcomeOK, Busy

\* processBoundary takes the request out of the queue before it is run.
LEMMA TakeAccounted ==
  ASSUME Accounted, worker \in Workers, Take
  PROVE  Accounted'
<1>1. CASE queue = <<>>
  <2>1. ~Busy' /\ UNCHANGED <<requestVars, server>>
    BY <1>1 DEF Take, Busy, Workers
  <2> QED BY <2>1, AccountedKept
<1>2. CASE queue # <<>>
  <2>1. /\ worker'.pc = "dispatch" /\ worker'.request = Head(queue)
        /\ queue' = Tail(queue) /\ pending' = pending - 1
        /\ UNCHANGED <<outcome, executed, server>>
    BY <1>2 DEF Take, Workers
  <2>2. /\ queue \in Seq(Requests) /\ queue' \in Seq(Requests) /\ Head(queue) = queue[1]
        /\ Len(queue) \in Nat \ {0} /\ Len(queue') = Len(queue) - 1
        /\ \A i \in 1 .. Len(queue') : i + 1 \in 1 .. Len(queue) /\ queue'[i] = queue[i + 1]
    BY <1>2, <2>1, HeadIsRequest DEF Accounted, QueueOK
  <2>3. QueueOK'
    <3>1. ASSUME NEW i \in 1 .. Len(queue'), NEW j \in 1 .. Len(queue'), queue'[i] = queue'[j]
          PROVE  i = j
      <4>1. /\ i + 1 \in 1 .. Len(queue) /\ j + 1 \in 1 .. Len(queue)
            /\ queue[i + 1] = queue[j + 1]
        BY <2>2, <3>1
      <4>2. \A m, n \in 1 .. Len(queue) : queue[m] = queue[n] => m = n
        BY DEF Accounted, QueueOK
      <4>3. i + 1 = j + 1
        BY <4>1, <4>2
      <4> QED BY <4>3
    <3> QED BY <2>1, <2>2, <3>1 DEF Accounted, QueueOK
  <2>4. TakenOK'
    <3>1. ASSUME NEW i \in 1 .. Len(queue')
          PROVE  queue'[i] # queue[1]
      <4>1. 1 \in 1 .. Len(queue) /\ i + 1 \in 1 .. Len(queue) /\ i + 1 # 1
        BY <2>2
      <4> QED BY <2>2, <4>1 DEF Accounted, QueueOK
    <3>2. 1 \in 1 .. Len(queue) /\ queue[1] \in Requests
      BY <2>2
    <3> QED BY <2>1, <2>2, <3>1, <3>2 DEF Accounted, QueueOK, TakenOK
  <2>5. OutcomeOK' /\ AnswerOK'
    BY <2>1 DEF Accounted, OutcomeOK, AnswerOK
  <2> QED BY <2>3, <2>4, <2>5 DEF Accounted
<1> QED BY <1>1, <1>2

\* dispatch runs the request, which no response has been given for.
LEMMA ExecuteAccounted ==
  ASSUME Accounted, worker \in Workers, Execute
  PROVE  Accounted'
<1>1. /\ worker.pc = "dispatch" /\ worker'.pc = "complete" /\ worker'.request = worker.request
      /\ executed' = executed \cup {worker.request} /\ UNCHANGED <<queue, pending, outcome, server>>
  BY DEF Execute, Workers
<1>2. /\ worker.request \in Requests /\ outcome[worker.request] = "waiting"
      /\ \A i \in 1 .. Len(queue) : queue[i] # worker.request
  BY <1>1 DEF Accounted, TakenOK, Busy
<1>3. QueueOK'
  BY <1>1, <1>2 DEF Accounted, QueueOK
<1>4. TakenOK'
  BY <1>1, <1>2 DEF TakenOK
<1>5. OutcomeOK'
  BY <1>1, <1>2 DEF Accounted, OutcomeOK
<1>6. AnswerOK'
  BY <1>1 DEF Accounted, AnswerOK
<1> QED BY <1>3, <1>4, <1>5, <1>6 DEF Accounted

\* A response that wakes the socket thread up leaves it with the same request.
LEMMA CompleteAnswer ==
  ASSUME Accounted, server \in Servers, NEW rs, NEW o, Complete(rs, o), UNCHANGED executed
  PROVE  AnswerOK'
  BY DEF Complete, Accounted, AnswerOK, Servers

\* The worker answers what it has run.
LEMMA RespondAccounted ==
  ASSUME Accounted, server \in Servers, worker \in Workers, Respond
  PROVE  Accounted'
<1>1. /\ worker.pc = "complete" /\ worker'.pc = "drain" /\ UNCHANGED <<queue, pending, executed>>
      /\ outcome' = [r \in Requests |-> IF r \in {worker.request} THEN "done" ELSE outcome[r]]
  BY DEF Respond, Complete, Workers
<1>2. /\ worker.request \in Requests /\ worker.request \in executed
      /\ \A i \in 1 .. Len(queue) : queue[i] # worker.request
  BY <1>1 DEF Accounted, TakenOK, Busy
<1>3. QueueOK'
  <2>1. \A i \in 1 .. Len(queue) : queue[i] \in Requests
    BY DEF Accounted, QueueOK
  <2> QED BY <1>1, <1>2, <2>1 DEF Accounted, QueueOK
<1>4. TakenOK'
  BY <1>1 DEF TakenOK, Busy
<1>5. OutcomeOK'
  BY <1>1, <1>2 DEF Accounted, OutcomeOK, Outcomes
<1>6. AnswerOK'
  BY <1>1, CompleteAnswer DEF Respond
<1> QED BY <1>3, <1>4, <1>5, <1>6 DEF Accounted

\* failPending() refuses what is still in the queue, which was not run.
LEMMA FailAccounted ==
  ASSUME Accounted, server \in Servers, failPending
  PROVE  Accounted'
<1>1. /\ queue' = <<>> /\ pending' = 0 /\ UNCHANGED <<executed, worker>>
      /\ outcome' = [r \in Requests |-> IF r \in Range(queue) THEN "stopping" ELSE outcome[r]]
  BY DEF failPending, Complete
<1>2. \A r : r \in Range(queue) <=> \E i \in 1 .. Len(queue) : queue[i] = r
  BY DEF Accounted, QueueOK, Range
<1>3. \A r \in Range(queue) : r \notin executed
  BY <1>2 DEF Accounted, QueueOK
<1>4. QueueOK'
  BY <1>1 DEF QueueOK
<1>5. TakenOK'
  BY <1>1, <1>2 DEF Accounted, TakenOK, Busy
<1>6. OutcomeOK'
  BY <1>1, <1>3 DEF Accounted, OutcomeOK, Outcomes
<1>7. AnswerOK'
  BY <1>1, CompleteAnswer DEF failPending
<1> QED BY <1>4, <1>5, <1>6, <1>7 DEF Accounted

-----------------------------------------------------------------------------
(* All of it together.                                                     *)

BridgeInv == Standing /\ Owned /\ Accounted

\* The bridge starts with a listener, nothing queued and no game.
LEMMA InitBridge ==
  ASSUME Init
  PROVE  BridgeInv
<1>1. Standing
  BY BoundsAssumption DEF Init, Standing, Machines, Workers, WorkerPlaces
<1>2. Owned
  <2>1. \A s \in Connections : OneOwner(s)
    BY Descriptors DEF Init, OneOwner, InAtomic, InStop, InHand, Connections
  <2>2. ListenerOwner
    BY Descriptors DEF Init, ListenerOwner
  <2>3. server \in Servers /\ closes \in [Sockets -> Nat]
    BY BoundsAssumption DEF Init, Servers, ServerPlaces, Outcomes
  <2> QED BY <2>1, <2>2, <2>3, Descriptors DEF Init, Owned, StopPlaces, Serving
<1>3. Accounted
  BY DEF Init, Accounted, QueueOK, TakenOK, OutcomeOK, AnswerOK, Outcomes, Busy
<1> QED BY <1>1, <1>2, <1>3 DEF BridgeInv

\* The steps of the socket thread.
LEMMA ServerStep ==
  ASSUME BridgeInv, Server \/ Accept \/ AcceptError \/ Line \/ HangUp \/ WakeUp
  PROVE  BridgeInv'
<1> USE DEF BridgeInv
<1>1. Standing'
  <2>1. UNCHANGED <<machine, worker>>
    BY DEF Server, ServeNext, Accept, AcceptFails, AcceptError, Connected, ClientNext, Line, HangUp,
           RecvFails, Enqueue, Wait, WakeUp, Send, Leave, CloseListener
  <2> QED BY <2>1, StandingKept
<1>2. Owned'
  <2>1. outcome \in [Requests -> Outcomes] /\ (server.pc = "wait" => server.request \in Requests)
    BY DEF Accounted, OutcomeOK, AnswerOK
  <2> QED BY <2>1, AcceptOwned, ConnectedOwned, LeaveOwned, CloseListenerOwned, ServingOwned
          DEF Server
<1>3. Accounted'
  <2>1. server \in Servers
    BY DEF Owned
  <2>2. CASE Enqueue
    BY <2>1, <2>2, EnqueueAccounted
  <2>3. CASE Wait \/ WakeUp
    BY <2>1, <2>3, WaitAccounted
  <2>4. CASE ServeNext \/ Accept \/ AcceptFails \/ AcceptError \/ Connected \/ ClientNext \/ Line
    <3>1. /\ UNCHANGED <<requestVars, worker>>
          /\ server'.pc \notin {"wait", "asleep", "send"}
      BY <2>1, <2>4 DEF ServeNext, Accept, AcceptFails, AcceptError, Connected, ClientNext, Line, Servers
    <3> QED BY <3>1, AccountedKept
  <2>5. CASE HangUp \/ RecvFails \/ Send \/ Leave \/ CloseListener
    <3>1. /\ UNCHANGED <<requestVars, worker>>
          /\ server'.pc \notin {"wait", "asleep", "send"}
      BY <2>1, <2>5 DEF HangUp, RecvFails, Send, Leave, CloseListener, Servers
    <3> QED BY <3>1, AccountedKept
  <2> QED BY <2>2, <2>3, <2>4, <2>5 DEF Server
<1> QED BY <1>1, <1>2, <1>3

\* The steps of the worker.
LEMMA WorkerStep ==
  ASSUME BridgeInv, Worker \/ RunHalts
  PROVE  BridgeInv'
<1> USE DEF BridgeInv
<1>1. Standing'
  BY WorkerStanding DEF Accounted, QueueOK
<1>2. Owned'
  <2>1. CASE Respond
    BY <2>1, CompleteOwned DEF Respond
  <2>2. CASE ~Respond
    <3>1. UNCHANGED <<server, clientSocket, listenSocket, closes, stopper, took>>
      BY <2>2 DEF Worker, LoopTop, LoopMiddle, RunFrame, RunHalts, RunToBoundary, Take, Execute
    <3> QED BY <3>1, OwnedKept
  <2> QED BY <2>1, <2>2
<1>3. Accounted'
  <2>1. server \in Servers /\ worker \in Workers
    BY DEF Owned, Standing
  <2>2. CASE Take
    BY <2>1, <2>2, TakeAccounted
  <2>3. CASE Execute
    BY <2>1, <2>3, ExecuteAccounted
  <2>4. CASE Respond
    BY <2>1, <2>4, RespondAccounted
  <2>5. CASE LoopTop \/ LoopMiddle \/ RunFrame \/ RunHalts \/ RunToBoundary
    <3>1. ~Busy' /\ UNCHANGED <<requestVars, server>>
      BY <2>1, <2>5 DEF LoopTop, LoopMiddle, RunFrame, RunHalts, RunToBoundary, Busy, Workers
    <3> QED BY <3>1, AccountedKept
  <2> QED BY <2>2, <2>3, <2>4, <2>5 DEF Worker
<1> QED BY <1>1, <1>2, <1>3

\* The steps of the main thread.
LEMMA MainStep ==
  ASSUME BridgeInv, Window \/ Quit \/ Stop
  PROVE  BridgeInv'
<1> USE DEF BridgeInv
<1>1. CASE Window
  <2>1. UNCHANGED <<server, clientSocket, listenSocket, closes, stopper, took, requestVars, worker>>
    BY <1>1 DEF Window
  <2> QED BY <1>1, <2>1, WindowStanding, OwnedKept, AccountedKept
<1>2. CASE failPending
  <2>1. UNCHANGED <<machine, worker, clientSocket, listenSocket, closes, took>>
        /\ stopper = "failPending" /\ stopper' = "join" /\ Complete(Range(queue), "stopping")
    BY <1>2 DEF failPending
  <2> QED BY <1>2, <2>1, StandingKept, CompleteOwned, FailAccounted DEF Owned
<1>3. CASE Quit \/ Deactivate \/ TakeClient \/ CloseClient \/ TakeListener \/ StopListening
           \/ JoinServer \/ JoinWorker
  <2>1. UNCHANGED <<machine, worker, server, requestVars>>
    BY <1>3 DEF Quit, Deactivate, TakeClient, CloseClient, TakeListener, StopListening,
                JoinServer, JoinWorker
  <2> QED BY <1>3, <2>1, StandingKept, StopOwned, AccountedKept
<1> QED BY <1>1, <1>2, <1>3 DEF Stop

\* The three invariants hold together in every behaviour of the bridge.
THEOREM BridgeInvariant == Spec => []BridgeInv
<1>1. BridgeInv /\ UNCHANGED vars => BridgeInv'
  BY StandingKept, OwnedKept, AccountedKept DEF BridgeInv, vars
<1>2. BridgeInv /\ [Next]_vars => BridgeInv'
  BY <1>1, ServerStep, WorkerStep, MainStep DEF Next
<1> QED BY <1>2, InitBridge, PTL DEF Spec

\* The worker runs a command only while the CPU of the loaded game stands between two
\* instructions, whatever the window, GDB and the socket thread do in between.
THEOREM CommandsAtBoundary == Spec => []AtBoundary
<1>1. BridgeInv => AtBoundary
  BY DEF BridgeInv, Standing, AtBoundary
<1> QED BY <1>1, BridgeInvariant, PTL

\* closeOwned and stop() close every descriptor once, and none is left open when
\* both threads have been joined.
THEOREM DescriptorsClosedOnce == Spec => []ClosedOnce
<1>1. ASSUME BridgeInv
      PROVE  ClosedOnce
  <2>1. ASSUME NEW s \in Sockets
        PROVE  closes[s] <= 1
    BY <1>1 DEF BridgeInv, Owned, OneOwner, ListenerOwner, Sockets
  <2>2. ASSUME stopper \in {"joinWorker", "stopped"}, NEW s \in Accepted \cup {Listener}
        PROVE  ~Open(s)
    <3>1. server.pc = "done" /\ clientSocket = 0 /\ listenSocket = 0
      BY <1>1, <2>2 DEF BridgeInv, Owned, Serving
    <3>2. CASE s = Listener
      BY <1>1, <2>2, <3>1, <3>2, Descriptors DEF BridgeInv, Owned, ListenerOwner, Open
    <3>3. CASE s \in Connections /\ s <= server.last
      BY <1>1, <2>2, <3>1, <3>3, Descriptors
         DEF BridgeInv, Owned, OneOwner, InAtomic, InStop, InHand, Open
    <3> QED BY <2>2, <3>2, <3>3 DEF Accepted
  <2> QED BY <2>1, <2>2 DEF ClosedOnce
<1> QED BY <1>1, BridgeInvariant, PTL

\* A response "done" is the response of a command that was run, and failPending() refuses
\* none that was or will be.
THEOREM ResponsesAreTrue == Spec => []AnswersAreTrue
<1>1. BridgeInv => AnswersAreTrue
  BY DEF BridgeInv, Accounted, AnswerOK, OutcomeOK, AnswersAreTrue
<1> QED BY <1>1, BridgeInvariant, PTL
=============================================================================
