--------------------------- MODULE SessionControl ---------------------------
(***************************************************************************)
(* The session controller, src/client/fzvs_session.cpp: the UI thread asks *)
(* for rooms to be hosted, joined and left, and one worker thread, which    *)
(* owns the server and the sockets, carries the requests out.              *)
(*                                                                         *)
(* The two threads share a mutex. A step of the worker is the code between *)
(* two critical sections, joined to the section it ends in: what it does   *)
(* before is local, so nothing can come in between. A request is numbered  *)
(* by `generation', and `operation' is the request the worker is at.       *)
(*                                                                         *)
(* The race server is what fz_server_poll tells of it. Discovery is the    *)
(* set of rooms that answer. The event log, diagnostics, texts and the     *)
(* server's status are left out.                                           *)
(***************************************************************************)
EXTENDS Naturals, Sequences, FiniteSets

CONSTANTS
  Paths,         \* names of readiness files
  NoPath,        \* a room without a readiness file
  Rooms,         \* rooms of other hosts on the network
  QueueMax,      \* commands that may wait                     (8)
  ResolverMax,   \* resolver tasks that may run                (4)
  MaxOps         \* bound: requests in a behaviour

ASSUME PathAssumption == NoPath \notin Paths
ASSUME SizeAssumption == QueueMax \in Nat \ {0} /\ ResolverMax \in Nat \ {0} /\ MaxOps \in Nat

VARIABLES
  commands,      \* requests the worker has not taken yet
  connection,    \* the request whose connection waits for the UI, 0 if none
  published,     \* what the UI sees: SessionView
  generation,    \* number of the last request
  browsing,      \* the UI wants nearby rooms
  retry,         \* the UI wants discovery restarted
  quitting,      \* the worker is to end
  running,       \* there is a worker thread
  w,             \* the local variables of run()
  ui,            \* "ready", or "joining" while shutdown() waits for the worker
  taken,         \* the connection the UI took last: the client is attached to it
  files,         \* readiness files on disk
  task,          \* resolver task of each request
  alive          \* rooms of other hosts that answer queries

shared == <<commands, connection, published, generation>>
flags  == <<browsing, retry, quitting, running>>
env    == <<ui, taken, task, alive>>
vars   == <<commands, connection, published, generation, browsing, retry, quitting,
            running, w, ui, taken, files, task, alive>>

Ops == 1 .. MaxOps
CommandType == [type : {"stop", "host", "join"}, path : Paths \cup {NoPath}, gen : Ops]
States == {"idle", "starting", "stopping", "resolving", "connecting", "connected",
           "hosting", "error"}
ViewType == [state : States, gen : Ops \cup {0}, rooms : SUBSET Rooms]

WorkerType ==
  [ pc : {"loop", "command", "serve"}, operation : Ops \cup {0}, state : States,
    rooms : SUBSET Rooms, server : {"none", "up", "joined"}, ready : BOOLEAN,
    owns : BOOLEAN, path : Paths \cup {NoPath}, resolution : Ops \cup {0} ]

\* The locals at the start of run(). `pending' is the queue that the loop swapped out.
NewWorker ==
  [ pc |-> "loop", pending |-> <<>>, operation |-> 0, state |-> "idle", rooms |-> {},
    server |-> "none", ready |-> FALSE, owns |-> FALSE, path |-> NoPath, resolution |-> 0 ]

-----------------------------------------------------------------------------
(* The UI thread.                                                          *)

\* start(): a new worker unless there is one; the system may refuse the thread.
Start(ok) ==
  IF running THEN UNCHANGED <<running, quitting, w>>
  ELSE /\ running' = ok /\ quitting' = FALSE
       /\ w' = IF ok THEN NewWorker ELSE w

\* enqueue(): a stop request overtakes what is waiting, another one needs a place.
Request(type, path, ok) ==
  LET full == type # "stop" /\ Len(commands) >= QueueMax
      waiting == IF type = "stop" THEN <<>> ELSE commands
      gen == generation + 1
  IN  /\ ui = "ready" /\ generation < MaxOps
      /\ Start(ok)
      /\ IF ~running' \/ full
         THEN /\ published' = IF running' THEN published ELSE [published EXCEPT !.state = "error"]
              /\ UNCHANGED <<commands, connection, generation>>
         ELSE /\ generation' = gen
              /\ commands' = Append(waiting, [type |-> type, path |-> path, gen |-> gen])
              /\ connection' = 0
              /\ published' = [published EXCEPT !.gen = gen,
                                 !.state = IF type = "stop" THEN "stopping" ELSE "starting"]
      /\ UNCHANGED <<browsing, retry, files, env>>

\* browse() and retryDiscovery()
Discover(enabled, again, ok) ==
  /\ ui = "ready"
  /\ Start(ok)
  /\ browsing' = enabled /\ retry' = again
  /\ published' = IF running' THEN published ELSE [published EXCEPT !.state = "error"]
  /\ UNCHANGED <<commands, connection, generation, files, env>>

Browse(enabled, ok) == Discover(enabled, retry, ok)
RetryDiscovery(ok)  == Discover(browsing, TRUE, ok)

\* connected(): the client has joined the room.
Connected ==
  /\ ui = "ready" /\ taken # 0 /\ published.state = "connecting"
  /\ published' = [published EXCEPT !.state = "connected"]
  /\ UNCHANGED <<commands, connection, generation, flags, w, files, env>>

\* takeConnection()
TakeConnection ==
  /\ ui = "ready" /\ connection # 0
  /\ connection' = 0
  /\ taken' = IF connection = generation THEN connection ELSE taken
  /\ UNCHANGED <<commands, published, generation, flags, w, ui, files, task, alive>>

\* Mutant: the worker is not told.
Shutdown_NoFlag ==
  /\ ui = "ready"
  /\ ui' = IF running THEN "joining" ELSE "ready"
  /\ taken' = IF running THEN taken ELSE 0
  /\ UNCHANGED <<shared, browsing, retry, quitting, running, w, files, task, alive>>

\* shutdown(), in two steps: the UI thread waits for the worker to end. The client's
\* last HELLO may still reach the server.
Shutdown ==
  /\ ui = "ready"
  /\ quitting' = TRUE
  /\ ui' = IF running THEN "joining" ELSE "ready"
  /\ taken' = IF running THEN taken ELSE 0
  /\ UNCHANGED <<shared, browsing, retry, running, w, files, task, alive>>

ShutdownReturns ==
  /\ ui = "joining" /\ ~running
  /\ ui' = "ready" /\ taken' = 0
  /\ UNCHANGED <<shared, flags, w, files, task, alive>>

-----------------------------------------------------------------------------
(* The worker thread.                                                      *)

\* stopServer(): the locals after it, and the files.
Stop(x) == [x EXCEPT !.server = "none", !.owns = FALSE, !.resolution = 0, !.ready = FALSE]
Unlink(x, disk) == IF x.owns THEN disk \ {x.path} ELSE disk

\* The top of the loop takes the waiting commands.
Loop ==
  /\ running /\ w.pc = "loop" /\ ~quitting
  /\ w' = [w EXCEPT !.pc = "command", !.pending = commands,
                    !.rooms = IF retry THEN {} ELSE @]
  /\ commands' = <<>> /\ retry' = FALSE
  /\ UNCHANGED <<connection, published, generation, browsing, quitting, running, files, env>>

\* Mutant: requests made while the worker ends are kept.
Exit_KeepsCommands ==
  /\ running /\ w.pc = "loop" /\ quitting
  /\ w' = [Stop(w) EXCEPT !.state = "idle"]
  /\ files' = Unlink(w, files)
  /\ published' = [state |-> "idle", gen |-> w.operation, rooms |-> w.rooms]
  /\ connection' = 0
  /\ running' = FALSE
  /\ UNCHANGED <<commands, generation, browsing, retry, quitting, env>>

\* The end of run().
Exit ==
  /\ running /\ w.pc = "loop" /\ quitting
  /\ w' = [Stop(w) EXCEPT !.state = "idle"]
  /\ files' = Unlink(w, files)
  /\ published' = [state |-> "idle", gen |-> w.operation, rooms |-> w.rooms]
  /\ connection' = 0 /\ commands' = <<>>
  /\ running' = FALSE
  /\ UNCHANGED <<generation, browsing, retry, quitting, env>>

\* Mutant: the connection of a cancelled request is offered.
HostRoom_Unchecked(c, created) ==
  LET x == [Stop(w) EXCEPT !.operation = c.gen, !.pending = Tail(@), !.path = c.path]
  IN  /\ w' = IF created THEN [x EXCEPT !.state = "starting", !.server = "up"]
              ELSE [x EXCEPT !.state = "error"]
      /\ connection' = IF created THEN c.gen ELSE connection
      /\ UNCHANGED task

\* A host command: the server is created, or an invalid option, an occupied port or
\* a log file that cannot be opened ends it.
HostRoom(c, created) ==
  LET x == [Stop(w) EXCEPT !.operation = c.gen, !.pending = Tail(@), !.path = c.path]
  IN  /\ w' = IF created THEN [x EXCEPT !.state = "starting", !.server = "up"]
              ELSE [x EXCEPT !.state = "error"]
      /\ connection' = IF created /\ c.gen = generation THEN c.gen ELSE connection
      /\ UNCHANGED task

\* A join command: the address is malformed or the tasks are too many (done with an
\* error at once), or a task starts.
JoinRoom(c, wellFormed) ==
  LET busy == Cardinality({g \in Ops : task[g] = "running"}) >= ResolverMax
      x == [Stop(w) EXCEPT !.operation = c.gen, !.pending = Tail(@)]
  IN  /\ w' = [x EXCEPT !.state = "resolving", !.resolution = c.gen]
      /\ task' = [task EXCEPT ![c.gen] = IF wellFormed /\ ~busy THEN "running" ELSE "error"]
      /\ UNCHANGED connection

\* One command of the batch; stopServer() comes before anything else.
DoCommand(ok) ==
  /\ running /\ w.pc = "command" /\ w.pending # <<>>
  /\ LET c == Head(w.pending)
     IN  CASE c.type = "host" -> HostRoom(c, ok)
           [] c.type = "join" -> JoinRoom(c, ok)
           [] c.type = "stop" -> /\ w' = [Stop(w) EXCEPT !.operation = c.gen, !.pending = Tail(@),
                                                        !.state = "idle"]
                                 /\ UNCHANGED <<connection, task>>
  /\ files' = Unlink(w, files)
  /\ UNCHANGED <<commands, published, generation, flags, ui, taken, alive>>

\* Mutant: a resolver error is not reported.
Resolve_NoError ==
  /\ running /\ w.pc = "command" /\ w.pending = <<>>
  /\ LET found == w.resolution # 0 /\ task[w.resolution] = "found"
         x == [w EXCEPT !.pc = "serve"]
     IN  /\ w' = IF found THEN [x EXCEPT !.resolution = 0, !.state = "connecting"] ELSE x
         /\ connection' = IF found /\ w.operation = generation THEN w.operation ELSE connection
  /\ UNCHANGED <<commands, published, generation, flags, files, env>>

\* After the batch, the result of a resolver task that has finished.
Resolve ==
  /\ running /\ w.pc = "command" /\ w.pending = <<>>
  /\ LET done == w.resolution # 0 /\ task[w.resolution] # "running"
         found == done /\ task[w.resolution] = "found"
         x == [w EXCEPT !.pc = "serve"]
     IN  /\ w' = IF done THEN [x EXCEPT !.resolution = 0,
                                        !.state = IF found THEN "connecting" ELSE "error"]
                 ELSE x
         /\ connection' = IF found /\ w.operation = generation THEN w.operation ELSE connection
  /\ UNCHANGED <<commands, published, generation, flags, files, env>>

\* What a poll of the server leads to.
Polls ==
  CASE w.server = "none" -> {"quiet"}
    [] w.server = "up"   -> {"quiet", "failed", "late"}
                              \cup (IF taken = w.operation THEN {"ready", "unopened", "unwritten"} ELSE {})
    [] w.server = "joined" -> {"quiet", "failed", "closed"}

Served(x, poll) ==
  CASE poll = "quiet"  -> x
    [] poll = "closed" -> [Stop(x) EXCEPT !.state = "idle"]
    [] poll = "ready"  -> [x EXCEPT !.server = "joined", !.ready = TRUE, !.state = "hosting",
                                    !.owns = @ \/ x.path # NoPath]
    [] OTHER           -> [Stop(x) EXCEPT !.state = "error"]

\* "unwritten": the file was created, and stopServer() unlinks it again.
DiskAfter(x, poll) ==
  CASE poll = "quiet" -> files
    [] poll = "ready" -> files \cup ({x.path} \ {NoPath})
    [] poll = "unwritten" -> files \ {x.path}
    [] OTHER -> Unlink(x, files)

\* scan(), and the expiry of rooms that did not answer for six seconds.
Scanned(rooms, expire) ==
  CASE ~browsing -> {}
    [] browsing /\ expire -> rooms \cap alive
    [] OTHER -> rooms \cup alive

\* Mutant: whatever the worker is at is published.
Serve_PublishesAll(poll, expire, publish) ==
  /\ running /\ w.pc = "serve"
  /\ poll \in Polls
  /\ LET served == [Served(w, poll) EXCEPT !.pc = "loop", !.rooms = Scanned(@, expire)]
     IN  /\ w' = served
         /\ published' = IF publish
                         THEN [state |-> served.state, gen |-> w.operation, rooms |-> served.rooms]
                         ELSE published
  /\ files' = DiskAfter(w, poll)
  /\ UNCHANGED <<commands, connection, generation, flags, env>>

\* The rest of the loop: poll, discovery and, every 50 ms, publication.
Serve(poll, expire, publish) ==
  /\ running /\ w.pc = "serve"
  /\ poll \in Polls
  /\ LET served == [Served(w, poll) EXCEPT !.pc = "loop", !.rooms = Scanned(@, expire)]
         kept == IF /\ publish /\ published.state = "connected"
                    /\ served.state = "connecting" /\ published.gen = w.operation
                 THEN [served EXCEPT !.state = "connected"] ELSE served
     IN  /\ w' = kept
         /\ published' = IF publish /\ w.operation = generation
                         THEN [state |-> kept.state, gen |-> w.operation, rooms |-> kept.rooms]
                         ELSE published
  /\ files' = DiskAfter(w, poll)
  /\ UNCHANGED <<commands, connection, generation, flags, env>>

-----------------------------------------------------------------------------
(* The environment.                                                        *)

\* getaddrinfo returns in a resolver task, which may be long after its cancellation.
Resolved(g, result) ==
  /\ task[g] = "running"
  /\ task' = [task EXCEPT ![g] = result]
  /\ UNCHANGED <<shared, flags, w, ui, taken, files, alive>>

\* Another host opens or closes its room.
OtherHost(r) ==
  /\ alive' = IF r \in alive THEN alive \ {r} ELSE alive \cup {r}
  /\ UNCHANGED <<shared, flags, w, ui, taken, files, task>>

Init ==
  /\ commands = <<>> /\ connection = 0 /\ generation = 0
  /\ published = [state |-> "idle", gen |-> 0, rooms |-> {}]
  /\ browsing = FALSE /\ retry = FALSE /\ quitting = FALSE /\ running = FALSE
  /\ w = NewWorker
  /\ ui = "ready" /\ taken = 0 /\ files = {}
  /\ task = [g \in Ops |-> "none"]
  /\ alive \in SUBSET Rooms

WorkerStep ==
  \/ Loop
  \/ Exit
  \/ \E ok \in BOOLEAN : DoCommand(ok)
  \/ Resolve
  \/ \E poll \in Polls, expire, publish \in BOOLEAN : Serve(poll, expire, publish)

Next ==
  \/ \E path \in Paths \cup {NoPath}, ok \in BOOLEAN : Request("host", path, ok)
  \/ \E type \in {"join", "stop"}, ok \in BOOLEAN : Request(type, NoPath, ok)
  \/ \E enabled, ok \in BOOLEAN : Browse(enabled, ok)
  \/ \E ok \in BOOLEAN : RetryDiscovery(ok)
  \/ Connected
  \/ TakeConnection
  \/ Shutdown
  \/ ShutdownReturns
  \/ WorkerStep
  \/ \E g \in Ops, result \in {"found", "error"} : Resolved(g, result)
  \/ \E r \in Rooms : OtherHost(r)

\* Both threads are scheduled, getaddrinfo returns, and time passes: the 50 ms of a
\* publication, the 6 s of a room's expiry and the 10 s of a host that does not join.
Fairness ==
  /\ WF_vars(WorkerStep) /\ WF_vars(ShutdownReturns)
  /\ \A g \in Ops : WF_vars(\E result \in {"found", "error"} : Resolved(g, result))
  /\ SF_vars(\E poll \in Polls : Serve(poll, TRUE, TRUE))
  /\ SF_vars(\E expire, publish \in BOOLEAN : Serve("late", expire, publish))

Spec == Init /\ [][Next]_vars
FairSpec == Spec /\ Fairness

-----------------------------------------------------------------------------
(* Properties.                                                             *)

\* The shared and local variables keep their types, the command queue its limit, and
\* no more resolver tasks run than are allowed, however fast requests are cancelled.
TypeOK ==
  /\ commands \in Seq(CommandType) /\ Len(commands) <= QueueMax
  /\ connection \in Ops \cup {0} /\ generation \in Ops \cup {0}
  /\ published \in ViewType
  /\ w.pending \in Seq(CommandType)
  /\ [k \in DOMAIN w \ {"pending"} |-> w[k]] \in WorkerType
  /\ files \subseteq Paths /\ taken \in Ops \cup {0}
  /\ Cardinality({g \in Ops : task[g] = "running"}) <= ResolverMax

\* A connection that waits for the UI is that of its last request, and the worker is
\* at that request: the emulator is never attached to a room that was cancelled.
ConnectionIsCurrent ==
  connection # 0 => running /\ connection = generation /\ w.operation = generation

\* The UI sees success only for its last request, although an older one may succeed
\* in the worker after the new one was made.
SuccessIsCurrent ==
  published.state \in {"hosting", "connecting", "connected"} => published.gen = generation

\* A readiness file is on disk only while the room it was written for is open with its
\* owner in P1, and when shutdown() has returned nothing is left: no server, no request, no
\* connection and no file, whatever was under way.
NothingLeft ==
  /\ files # {} => running /\ w.server = "joined" /\ files = {w.path}
  /\ ~running => w.server = "none" /\ commands = <<>> /\ connection = 0 /\ files = {}

\* Every request is answered: the UI does not stay at "starting", "stopping" or
\* "resolving" for ever.
Answered ==
  published.state \in {"starting", "stopping", "resolving"}
    ~> published.state \notin {"starting", "stopping", "resolving"}

\* shutdown() returns: the UI thread is never stuck joining the worker.
ShutdownTerminates == ui = "joining" ~> ui = "ready"

\* docs/hosting.md: "Join browses nearby rooms every two seconds and removes entries
\* after six seconds without a reply."
RoomsExpire ==
  \A r \in Rooms :
    r \in published.rooms /\ r \notin alive /\ browsing /\ running
      ~> r \notin published.rooms \/ r \in alive \/ ~browsing \/ ~running
=============================================================================
