----------------------------- MODULE McpClient -----------------------------
(***************************************************************************)
(* The MCP sidecar's connection to ares: AresDebugClient of                *)
(* mcp/src/ares_mcp/client.py against the socket thread of the debug       *)
(* bridge (patches/ares/0008).                                             *)
(*                                                                         *)
(* Tool calls run as concurrent asyncio tasks that share one client under  *)
(* a lock. Every `await' is a point where the bridge moves, the timeout    *)
(* fires or the task is cancelled, which drops the lock and leaves the     *)
(* connection as it is. Requests and replies carry the request id and, for *)
(* the properties only, the call they belong to.                           *)
(***************************************************************************)
EXTENDS Naturals, Sequences, FiniteSets

CONSTANTS
  Calls,          \* tool calls, each of one request
  Retryable,      \* those whose caller lets request() try twice
  Mutations,      \* those whose command changes the emulator
  Large,          \* those whose request does not fit into the socket's buffer
  NoCall,         \* nobody holds the lock; the handshake's emulator.status
  Versions,       \* protocol versions a bridge may speak
  MaxRestarts     \* bound: times ares is restarted

ASSUME CallAssumption == /\ Retryable \subseteq Calls /\ Mutations \subseteq Calls /\ Large \subseteq Calls
                         /\ NoCall \notin Calls /\ 1 \in Versions

ARES_DEBUG_PROTOCOL_VERSION == 1

VARIABLES
  call,           \* call -> its state and, once returned, the call it was answered for
  cl,             \* the client: lock, position of its holder, connection
  conns,          \* the connections made so far, both ends of each
  served,         \* the connection the bridge serves, or served last; 0: none yet
  version,        \* protocol version of the running bridge
  restarts,
  executed        \* call -> times ares has carried out its command

vars == <<call, cl, conns, served, version, restarts, executed>>

Ended == {"returned", "rejected", "failed", "incompatible", "cancelled"}

\* `retryable' is READ_ONLY_COMMANDS but for reads of the bus, unless the tool says
\* otherwise: emulator.pause and emulator.resume are retryable, too.
attempts(c) == IF c \in Retryable THEN 2 ELSE 1

\* A request of the call c; that of NoCall is emulator.status.
Request(id, c) == [id |-> id, of |-> c]

-----------------------------------------------------------------------------
(* The client.                                                             *)

Init ==
  /\ call = [c \in Calls |-> [state |-> "new", answer |-> NoCall]]
  /\ cl = [holder |-> NoCall, step |-> "idle", attempt |-> 0, cur |-> 0, compatible |-> FALSE,
           id |-> 0, gone |-> 0]
  /\ conns = <<>> /\ served = 0
  /\ version \in Versions /\ restarts = 0
  /\ executed = [c \in Calls |-> 0]

bridgeVars == <<served, version, restarts, executed>>

\* A tool is called: request() waits for the lock.
Call(c) ==
  /\ call[c].state = "new"
  /\ call' = [call EXCEPT ![c].state = "waiting"]
  /\ UNCHANGED <<cl, conns, bridgeVars>>

\* wait_closed() has nothing to wait for any more: asyncio closes a stream when all
\* that was written to it has gone out, or the other end has.
Flushed == cl.gone # 0 => conns[cl.gone].unsent = 0

\* The lock is free; close() holds it until its wait_closed() is over.
Acquire(c) ==
  /\ call[c].state = "waiting" /\ cl.holder = NoCall /\ Flushed
  /\ call' = [call EXCEPT ![c].state = "active"]
  /\ cl' = [cl EXCEPT !.holder = c, !.step = "ensure", !.attempt = 1, !.gone = 0]
  /\ UNCHANGED <<conns, bridgeVars>>

\* request() returns or raises, and the lock is released.
End(state, answer) ==
  /\ call' = [call EXCEPT ![cl.holder] = [state |-> state, answer |-> answer]]
  /\ cl' = [cl EXCEPT !.holder = NoCall, !.step = "idle", !.attempt = 0, !.gone = 0]

\* _exchange_locked up to its awaits: what is written to an end that the bridge has
\* closed is lost, and what does not fit into the socket's buffer, or comes after
\* that, stays with the client until the bridge reads.
Write(cs, i, request) ==
  IF ~cs[i].bridge THEN cs
  ELSE [cs EXCEPT ![i].in = Append(@, request),
                  ![i].unsent = IF request.of \in Large \/ @ > 0 THEN @ + 1 ELSE 0]

SendCommand(cs) ==
  /\ cl' = [cl EXCEPT !.compatible = TRUE, !.step = "command", !.id = @ + 1]
  /\ conns' = Write(cs, cl.cur, Request(cl.id + 1, cl.holder))
  /\ UNCHANGED call

\* _disconnect_locked up to wait_closed(); what was written is still delivered.
Disconnected(cs, i) == IF i = 0 THEN cs ELSE [cs EXCEPT ![i].client = FALSE, ![i].out = <<>>]

Disconnect(next) ==
  /\ cl' = [cl EXCEPT !.cur = 0, !.compatible = FALSE, !.step = next, !.gone = cl.cur]
  /\ conns' = Disconnected(conns, cl.cur)

\* Mutant: a connection whose handshake was not finished counts as one.
Usable_Unchecked == cl.cur # 0

Usable == cl.cur # 0 /\ cl.compatible

\* _ensure_connected_locked: there is a connection already. After the bridge has
\* gone, is_closing() may not say so yet.
Reuse ==
  /\ cl.step = "ensure" /\ Usable
  /\ SendCommand(conns)
  /\ UNCHANGED bridgeVars

\* _ensure_connected_locked: a new connection, with emulator.status as its first
\* request. A writer that is overwritten here was never closed: it is closed with its
\* object, or not at all, depending on the version of asyncio.
Open ==
  /\ cl.step = "ensure" /\ (Usable => ~conns[cl.cur].bridge)
  /\ \E old \in {conns, Disconnected(conns, cl.cur)} :
       conns' = Append(old, [client |-> TRUE, bridge |-> TRUE,
                             in |-> <<Request(cl.id + 1, NoCall)>>, unsent |-> 0,
                             out |-> <<>>])
  /\ cl' = [cl EXCEPT !.cur = Len(conns) + 1, !.compatible = FALSE, !.step = "handshake", !.id = @ + 1,
                      !.gone = 0]
  /\ UNCHANGED <<call, bridgeVars>>

OpenFails ==
  /\ cl.step = "ensure" /\ (Usable => ~conns[cl.cur].bridge)
  /\ Disconnect("closing")
  /\ UNCHANGED <<call, bridgeVars>>

Awaiting == cl.step \in {"handshake", "command"}

\* Mutant: the reply is taken for the answer whatever its id.
Mine_AnyId(m) == m.kind # "null"

\* The reply is well formed and has the id of the request.
Mine(m) == m.kind # "null" /\ m.id = cl.id

\* The rest of _exchange_locked, and what its callers do with the outcome.
Receive ==
  /\ Awaiting /\ conns[cl.cur].out # <<>>
  /\ LET m == Head(conns[cl.cur].out)
         read == [conns EXCEPT ![cl.cur].out = Tail(@)]
     IN  \/ /\ ~Mine(m)
            /\ Disconnect("closing") /\ UNCHANGED call
         \/ /\ Mine(m) /\ m.kind = "error"
            /\ End("rejected", NoCall) /\ conns' = read
         \/ /\ Mine(m) /\ m.kind = "ok" /\ cl.step = "command"
            /\ End("returned", m.of) /\ conns' = read
         \/ /\ Mine(m) /\ m.kind = "ok" /\ cl.step = "handshake"
            /\ m.version = ARES_DEBUG_PROTOCOL_VERSION
            /\ SendCommand(read)
         \/ /\ Mine(m) /\ m.kind = "ok" /\ cl.step = "handshake"
            /\ m.version # ARES_DEBUG_PROTOCOL_VERSION
            /\ Disconnect("refusing") /\ UNCHANGED call
  /\ UNCHANGED bridgeVars

\* readline() finds the end of the stream.
EndOfStream ==
  /\ Awaiting /\ conns[cl.cur].out = <<>> /\ ~conns[cl.cur].bridge
  /\ Disconnect("closing")
  /\ UNCHANGED <<call, bridgeVars>>

\* Mutant: the handshake waits without a limit.
Timeout_CommandOnly ==
  /\ cl.step = "command"
  /\ Disconnect("closing")
  /\ UNCHANGED <<call, bridgeVars>>

\* wait_for() gives up.
Timeout ==
  /\ Awaiting
  /\ Disconnect("closing")
  /\ UNCHANGED <<call, bridgeVars>>

\* Mutant: every command is tried twice.
AfterClosing_RetriesAll ==
  /\ Flushed
  /\ \/ /\ cl.step = "closing" /\ cl.attempt < 2
        /\ cl' = [cl EXCEPT !.attempt = @ + 1, !.step = "ensure"]
        /\ UNCHANGED call
     \/ cl.step = "closing" /\ cl.attempt = 2 /\ End("failed", NoCall)
     \/ cl.step = "refusing" /\ End("incompatible", NoCall)
  /\ UNCHANGED <<conns, bridgeVars>>

\* The exception handlers of request(), once wait_closed() has returned.
AfterClosing ==
  /\ Flushed
  /\ \/ /\ cl.step = "closing" /\ cl.attempt < attempts(cl.holder)
        /\ cl' = [cl EXCEPT !.attempt = @ + 1, !.step = "ensure"]
        /\ UNCHANGED call
     \/ cl.step = "closing" /\ cl.attempt = attempts(cl.holder) /\ End("failed", NoCall)
     \/ cl.step = "refusing" /\ End("incompatible", NoCall)
  /\ UNCHANGED <<conns, bridgeVars>>

\* The host cancels a tool call: the task ends at its await, and `async with' drops
\* the lock. Nothing is disconnected.
Cancel(c) ==
  /\ \/ /\ call[c].state = "waiting"
        /\ call' = [call EXCEPT ![c].state = "cancelled"] /\ UNCHANGED cl
     \/ /\ cl.holder = c /\ End("cancelled", NoCall)
  /\ UNCHANGED <<conns, bridgeVars>>

\* close(), at the end of the sidecar's lifespan.
close ==
  /\ cl.holder = NoCall /\ cl.cur # 0
  /\ Disconnect("idle")
  /\ UNCHANGED <<call, bridgeVars>>

-----------------------------------------------------------------------------
(* The bridge.                                                             *)

clientVars == <<call, cl>>

Serving == served # 0 /\ conns[served].bridge

\* serverLoop: the next connection, once the one before has ended.
Accept ==
  /\ ~Serving
  /\ \E i \in served + 1 .. Len(conns) :
       /\ conns[i].bridge /\ \A j \in served + 1 .. i - 1 : ~conns[j].bridge
       /\ served' = i
  /\ UNCHANGED <<clientVars, conns, version, restarts, executed>>

\* The bridge's end of a connection is closed.
HungUp(c) == [c EXCEPT !.bridge = FALSE, !.in = <<>>, !.unsent = 0]

\* clientLoop: recv() makes room for the rest of what the client has written.
Drain ==
  /\ Serving /\ conns[served].unsent > 0
  /\ conns' = [conns EXCEPT ![served].unsent = 0]
  /\ UNCHANGED <<clientVars, served, version, restarts, executed>>

\* clientLoop: a line is handed to the emulator thread and answered: carried out,
\* rejected, or answered without an id, which a bridge that stops does whether or not
\* the emulator thread has taken the request.
Handle ==
  /\ Serving /\ Len(conns[served].in) > conns[served].unsent
  /\ LET q == Head(conns[served].in)
     IN  \E kind \in IF q.of = NoCall THEN {"ok", "null"} ELSE {"ok", "error", "null"},
            done \in BOOLEAN :
           /\ kind = "ok" => done
           /\ kind = "error" \/ q.of = NoCall => (done <=> kind = "ok")
           /\ executed' = IF done /\ q.of # NoCall THEN [executed EXCEPT ![q.of] = @ + 1] ELSE executed
           /\ conns' = IF conns[served].client
                       THEN [conns EXCEPT ![served].in = Tail(@),
                                          ![served].out = Append(@, [kind |-> kind, id |-> q.id,
                                                                     of |-> q.of, version |-> version])]
                       ELSE [conns EXCEPT ![served] = HungUp(@)]
  /\ UNCHANGED <<clientVars, served, version, restarts>>

\* clientLoop: recv() finds the end of the stream.
HangUp ==
  /\ Serving /\ conns[served].in = <<>> /\ ~conns[served].client
  /\ conns' = [conns EXCEPT ![served] = HungUp(@)]
  /\ UNCHANGED <<clientVars, served, version, restarts, executed>>

\* ares ends and another one, perhaps of another version, is started.
Restart ==
  /\ restarts < MaxRestarts
  /\ conns' = [i \in DOMAIN conns |-> HungUp(conns[i])]
  /\ restarts' = restarts + 1
  /\ version' \in Versions
  /\ UNCHANGED <<clientVars, served, executed>>

-----------------------------------------------------------------------------

ClientStep == Reuse \/ Open \/ OpenFails \/ Receive \/ EndOfStream \/ Timeout \/ AfterClosing

Next ==
  \/ \E c \in Calls : Call(c) \/ Acquire(c) \/ Cancel(c)
  \/ ClientStep \/ close
  \/ Accept \/ Drain \/ Handle \/ HangUp \/ Restart
  \/ (\A c \in Calls : call[c].state \in Ended) /\ UNCHANGED vars

Spec == Init /\ [][Next]_vars

\* The event loop goes on: a waiting task gets the lock, and an await ends, at the
\* latest by its timeout; wait_closed() has none and ends once it is flushed. Nothing
\* is assumed of ares.
FairSpec == Spec /\ WF_vars(ClientStep) /\ \A c \in Calls : WF_vars(Acquire(c))

-----------------------------------------------------------------------------
(* Properties.                                                             *)

\* Every variable stays within its type.
TypeOK ==
  /\ \A c \in Calls : /\ call[c].state \in Ended \cup {"new", "waiting", "active"}
                      /\ call[c].answer \in Calls \cup {NoCall}
  /\ cl.holder \in Calls \cup {NoCall} /\ cl.cur \in 0 .. Len(conns)
  /\ cl.step \in {"idle", "ensure", "handshake", "command", "closing", "refusing"}
  /\ cl.step = "idle" <=> cl.holder = NoCall
  /\ cl.holder # NoCall => call[cl.holder].state = "active"
  /\ Awaiting => cl.cur # 0 /\ conns[cl.cur].client

\* A call that returns was answered for itself and has been carried out, even when an
\* earlier call was cancelled or timed out and its reply came late.
OwnAnswer ==
  \A c \in Calls : call[c].state = "returned" => call[c].answer = c /\ executed[c] >= 1

\* A call that its caller did not declare retryable is carried out at most once,
\* however its reply is lost, late or cut off, and not at all when ares has rejected it;
\* a retryable one at most twice.
ReplayedIfRetryable ==
  \A c \in Calls : /\ executed[c] <= attempts(c)
                   /\ call[c].state = "rejected" /\ c \notin Retryable => executed[c] = 0

\* What the client's docstring and mcp/README.md say: a command that changes the
\* emulator is never replayed. The tools for pause and resume declare them retryable.
MutationsOnce == \A c \in Mutations : executed[c] <= 1

\* No command reaches a bridge of another protocol version, whatever was cancelled
\* during a handshake and whichever bridge the reconnect found.
OnlyCompatible ==
  [][\A c \in Calls : executed'[c] # executed[c] => version = ARES_DEBUG_PROTOCOL_VERSION]_vars

\* Every tool call comes to an end, even when ares hangs or is busy with a connection
\* that nobody uses any more. The exception is wait_closed(), which has no timeout: if
\* ares lives on and never reads the rest of a large request, the call that waits for
\* it keeps the lock, and all the others wait with it.
EveryCallEnds ==
  \/ <>[]~Flushed
  \/ \A c \in Calls : call[c].state = "waiting" ~> call[c].state \in Ended
=============================================================================
