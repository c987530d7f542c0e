# F-Zero VS: a TLA+ verification project

F-Zero VS turns a single-player SNES game into a network race: a patched ares
emulator on every seat, a small C server that decides who races when, and,
beside it, a debug bridge that lets tools inspect and patch the running game.
This directory holds TLA+ models of the parts that run concurrently or over a
network, TLC configurations that check them on small instances, and TLAPS proofs
of the most important invariants for instances of any size.

`PROJECT.json` is the index: components, runs, the source lines each definition
stands for, mutants, hazards, findings and theorems.

## 1. The system

| Part | Code | State | Operations | Models |
|---|---|---|---|---|
| Race server | `server/src/server.c` | one `struct fz_server`: four slots, phase, race number, start time, host | HELLO, STATE, commands, PING/PONG, timeouts, tick, close | `RaceServer`, `StartBarrier` |
| Wire protocol | `shared/fzvs_protocol.h` | – | serial-number comparison, phases, statuses, commands | `FzvsProtocol` |
| Race client | `client/fzvs_client.cpp` | join state, command queue, last snapshot, game state, start gate, patched ROM bytes | `attach`, `tick`, `frame`, `detach`, `request` | `RaceClient`, `RomPatches` |
| Client: clock and cars | `client/fzvs_client.cpp` | clock estimate, snapshot buffer | PING/PONG, start gate, interpolation | `RaceView` |
| Room presentation | `client/fzvs_presentation.hpp` | the published view | which buttons and room changes it lets through | `RaceClient`, `RaceRoom` |
| The race as a whole | server + clients + UDP | packets in flight | sending, loss, delay, reordering, retransmission | `RaceRoom` |
| Session controller | `client/fzvs_session.cpp` | request queue, published view, worker's locals, readiness file | `host`, `join`, `stop`, `browse`, `shutdown`, `takeConnection`, worker loop | `SessionControl` |
| LAN discovery | `struct Discovery` in the same file | query and listener sockets, room list | query, reply, expiry, retry | `Discovery` |
| Multiplayer window | `patches/ares/0004`, `0006` | `managedSession`, saved settings | begin, refresh, leave, unload | `FrontEnd` |
| Debug bridge: threads | `patches/ares/0008` | request queue, sockets, emulator loop | accept, receive, enqueue, drain at an instruction boundary, stop | `DebugBridge` |
| Debug bridge: commands | `patches/ares/0008` | ROM bytes, patches, save states | patch, revert, create/restore/delete state, load, unload | `RomPatches` |
| MCP sidecar client | `mcp/src/ares_mcp/client.py` | lock, connection, request id | connect, handshake, exchange, retry, cancel, close | `McpClient` |
| Dedicated server program and local test setup | `server/src/main.c`, `scripts/local_test.py` | processes, readiness file, signal flag | start, announce, watch, terminate, kill | `LocalTest` |
| Sidecar service and tools | `mcp/src/ares_mcp/*.py` | – | argument checks, snapshots | – |
| Overlay, build scripts | `patches/ares`, `scripts/` | – | text, builds | – |

How the parts meet:

- The **window** (UI thread) calls the **session controller**, whose **worker
  thread** owns the embedded server and discovery. The worker offers a
  connection; the window attaches the **client** to it.
- The client runs on the **emulator worker thread**: `tick()` for the network and
  `frame()` for the game. It talks UDP to the **server**, which is single
  threaded. The window shows what the client publishes and asks it for room
  changes on that basis.
- The same server runs as a **program of its own**, which the local test setup
  starts, waits for by its readiness file, and stops.
- The **bridge's socket thread** hands requests to the emulator worker thread,
  which executes them between two instructions. The **sidecar** talks to that
  socket thread.
- Client and bridge both write the ROM of the running game.

What makes it hard:

- UDP: every packet can be lost, late, duplicated or overtaken.
- The start of a race is a barrier that clients cross on their own clocks, from
  snapshots that may be old and a clock offset that is only estimated, while
  players leave, time out or fall silent.
- Command numbers restart with each race, and both sides must agree on them.
- Requests to the session are cancelled and replaced while a name is being
  resolved or a server is coming up, and `shutdown()` may come at any time.
- Three threads share the bridge's sockets and its queue, one of them paused,
  asleep or gone when the bridge is stopped.
- Tool calls are cancelled or time out with a reply still on the wire.
- Processes end, ignore SIGTERM or fail to start while the setup awaits them.

## 2. Modules

One step of a model is what the code does without anybody else being able to
look: a handler of the single-threaded server, a `tick()` or `frame()` of a
client, the code up to and including a critical section of the session's mutex,
one atomic access or system call of the bridge, the code between two `await`s
of the sidecar, a system call of a supervised process.

**`FzvsProtocol`** has the constants and `fz_newer`, the comparison of sequence
numbers modulo `SeqMod` (2^32 in the code).

**`RaceServer`** is `struct fz_server` as the record `room`. C functions that
change it in place (`begin_lobby`, `drop`, the stages of `advance`) are operators
from rooms to rooms, composed in the order of the calls, so that an action is a
whole handler with everything it triggers. Its environment is arbitrary: any
HELLO, and any packet with the token of a player, at any time. This covers loss,
duplication and reordering without a network. When a packet closes a hosted
room, the rest of that poll still runs (`pollRest`).

**`StartBarrier`** is the abstract specification of a start: players gather, the
race is closed to newcomers, a start time is announced, everybody agrees to it or
it is put off, and the race begins no earlier. It has no commands, timeouts or
ticks. `RaceServer!StartsTogether` says that the server implements it. The mapping
takes the field to be the occupied slots, and the armed players those whose
`armed` is the present start time.

**`RaceClient`** has the methods of `Client` as operators on a record, with the
conditions that `frame()` reads from game memory as parameters. The view it
publishes, and what the window lets its user ask for on that view
(`validRoomChange`, `canNext`), are part of it.

**`RaceRoom`** composes the two with a network of bounded sets of packets. When a
set is full, the new packet or one of the old ones is lost. A client's clock may
be off by `ClockError`. The server's steps are the actions of `RaceServer`, each
with the packets that it sends. A client's record is reset by `attach()` except for
host, size, track and armed bits: these stay as an earlier session left them
(`Before`) until the first snapshot comes, and the window acts on them.

**`RaceView`** has the two clocks, which drift apart, the PINGs and PONGs between
them, the estimate that the client makes of the server's time, the start gate
that uses it, and the buffer of snapshots between which another car is drawn.
The offset is a mean of two times and is kept doubled, so that times are
integers.

**`SessionControl`** has the UI thread's calls and the worker loop as two
processes with a shared mutex, the resolver tasks, and the readiness file on disk.

**`Discovery`** has one browser and hosts, sockets that fail, and datagrams that
are lost or late. Time is counted from each moment the code remembers, no further
than the code can tell.

**`FrontEnd`** has the handlers of the multiplayer window. The session is reduced
to what it publishes and offers, the client to whether it has joined or failed.
The seven settings that a session replaces are one value, `program.paused` is
another. `chosen` records what the user set outside of sessions; the code has no
such variable.

**`DebugBridge`** has the socket thread, the emulator worker and the main thread
(`quit()` and `stop()`), one shared access at a time. **`RomPatches`** has the
commands' effects on the ROM, and the ROM writes of the network client. A ROM is
a function from offsets to bytes. Commands that only read are one action.

**`McpClient`** has the sidecar's client against the bridge's socket thread, with
cancellation at each `await`. Whether a request may be tried twice is the caller's
choice (`Retryable`), whether it changes the emulator is another matter
(`Mutations`). A request that is too large for the socket's buffer stays with the
client until the bridge reads (`unsent`), and `wait_closed()` waits for that.

**`LocalTest`** has `main()` of the dedicated server and the supervisor of
`local_test.py` as two processes, with the clients as processes that may end at
any time. A signal comes between any two steps of the supervisor.

`MC...` modules instantiate a specification for TLC. `...Proofs` modules hold the
theorems. Names ending in `_Something` after the name of another definition, under
the comment "Mutant", are faulty variants. A mutant is substituted for the
definition it follows to see that a property notices; the specifications do not
use them.

## 3. What is checked

### Passing runs

| Run | Properties | What it shows |
|---|---|---|
| `server` | `PhaseMatchesPlayers` `NoGhostCar` `HostPresent` `OneSlotPerEndpoint` `OwnerIsHost` `StartIsCommitted` `StartsTogether` | three endpoints, a dedicated or a hosted room, a whole race in any order of packets, ticks, timeouts and departures; the server implements `StartBarrier` |
| `room` | `SameTrack` `StartAgreement` `StreamInStep` | two clients through joining, a race and into the next, with snapshots overtaking each other, a track that changes late, a command queue that overflows, a client clock that is ahead, and a departure or the end of the room at any moment |
| `race_view` | `ClockWithinTrip` `CarsInBetween` `NoEarlyStart` | the clock estimate under late, lost, repeated and reordered PONGs and drift, the start gate on it, and the car drawn between snapshots |
| `session` | `ConnectionIsCurrent` `SuccessIsCurrent` `NothingLeft` `Answered` `ShutdownTerminates` | cancellation, failure and shutdown at any point; every request is answered and `shutdown()` returns |
| `discovery` | `SilentRoomsExpire` `ListedSinceAsked` `OpenRoomsAreFound` `BrowserRecovers` | expiry on every path, no late reply brings a room back, both sides recover from failed sockets |
| `front_end` | `LocalSettingsKept` `NothingLeftOpen` `FailedSessionsEnd` | every way out of a session |
| `bridge` | `AtBoundary` `ClosedOnce` `AnswersAreTrue` `EveryRequestAnswered` `QuitReturns` | three threads, stopped at any point; no lost wake-up, no mutual wait |
| `rom_patches` | `PatchesAccountForRom` `StaleIdsStayStale` | patches and states over loads and unloads, with the client's writes |
| `mcp_client` | `OwnAnswer` `ReplayedIfRetryable` `OnlyCompatible` `EveryCallEnds` | cancelled and timed-out calls, ares restarted in another version |
| `local_test` | `ClientsAfterServer` `SetupStops` | failing starts, processes that end or ignore SIGTERM, signals at any moment (but for the two moments of section 5) |

The type invariants (`TypeOK`, `RoomTypeOK`) are not in the configurations: a line
`INVARIANT TypeOK` adds one. Those of `RaceServer` and `RomPatches` are proved.

What these properties leave open, although a hazard in `PROJECT.json` names it:

- `AtBoundary` says where commands run. It does not say that a paused game stands
  still: a request that comes in while the emulator loop decides about pausing
  makes the CPU run to the next boundary, where `docs/ares-debug-protocol.md:61-62`
  says that later commands are drained "without advancing it".
- `AnswersAreTrue` covers success and refusal. A request in the worker's hands when
  the bridge stops is answered SERVER_STOPPING and may have been carried out.
- `PatchesAccountForRom` is about the bytes that only the bridge writes. Of a byte
  that the network client writes, too, it says nothing.
- `EveryCallEnds` makes an exception of `wait_closed()`, which has no timeout. While
  ares is alive but never reads the rest of a large request, the call that waits
  for the connection to close keeps the lock, and all others wait for it.
- `OpenRoomsAreFound` is about a list that has a place for every open room.

### The runs that end in a violation

Both show a disagreement between the code and its documentation.

`mcp_mutations` (`MutationsOnce`): `ares_pause` and `ares_resume` pass
`retryable=True`, so their commands are sent again after a lost connection, although
the first may have been carried out. `mcp/README.md:102-103` and the docstring of
the client (`client.py:46-48`) say that mutations are never replayed.
`ReplayedIfRetryable` is what the client does guarantee.

`session_rooms` (`RoomsExpire`): a worker that is started again after a session begins with
`operation = 0` and publishes only when this equals `generation`, which is kept.
Until the next host or join, the list of nearby rooms is frozen.
`docs/hosting.md:24` promises that silent rooms are removed.

### Bounds

- **Server.** Three endpoints: enough for a full room of two, succession of the
  host, and a third who is turned away. Rooms have any size from two to four.
  `MaxTokens = 3` joins allow a player to come back. The clock goes to 3 units with
  `Timeout` 1, `StartDelay` 2 and `ArmMargin` 1, so that the start is rescheduled
  and silence drops a player. One owner's nonce, and another one, make a hosted
  room with a guest. `SeqMod = 8`; a view leaves out counters that only grow, and
  endpoints are symmetric.
- **Room.** Two clients; one packet in flight up and one or two down. Two make
  overtaking possible, and retransmission makes one enough for loss and delay. One
  player is in the room at the beginning and was the host of another one before; the
  other has yet to join. `MaxRace = 2` includes the change of race, `PendingMax = 2`
  an overflow of the queue (8 in the code). `MaxAsks = 1`: a behaviour has one button
  pressed (a room change, or the next race), or one player who leaves or gives up, or
  the end of the room, at any moment; the host's client asks for the next race by
  itself as well. The second race goes as far as its start gates, which let players
  go on clocks that are ahead (`ClockError = 1`). The view of `MCRaceRoom` leaves out packets that will be ignored; its header
  says why that is sound. Nobody is dropped for silence here (`Timeout = 9`); the
  `server` run has that, with clients that do anything.
- **Clock and cars.** Both clocks go to 3 with one unit of drift. Two datagrams in
  flight can overtake each other. A buffer of four snapshots (16 in the code) over
  times 0 to 3 has two of the same time between others, is full, and two races make
  it hold the race before. Orientations are numbers modulo 8 (256), which has a wrap
  and an exact opposite. The view of `MCRaceView` keeps the buffer apart from the
  PINGs, on which it does not depend.
- **Session.** Three requests are one that runs, one that replaces it and one that
  cancels. Queue limit 2 and resolver limit 1 make both limits bite. Two readiness
  files, because one might be taken for another.
- **Discovery.** One host with two rooms in succession, a list with one place so
  that it is full, one press of Retry.
- **Front end.** No bound: the state is finite, any number of sessions.
- **Bridge.** Two requests over two connections: one waits while another is
  answered or refused, and a connection is accepted while the bridge stops. The
  queue holds one request because the socket thread waits for its answer, and two
  when it has stopped waiting because the bridge stops.
- **ROM.** Four offsets of two byte values, two images, two patches, transfers of
  two bytes: overlaps at either end, inside, and none.
- **Sidecar.** Two calls, one that may be retried and one mutation with a large
  request, and one restart. In `mcp_mutations` the retryable one is a mutation, too.
- **Local test.** A server, two clients and two signals: the second one comes
  while the first is being handled.

Deadlock is checked except where the system really ends: a closed server, a room
that has closed, a bridge that has stopped, a test that is over.

### Fairness

- `SessionControl`: both threads are scheduled (weak fairness), and getaddrinfo
  returns some day. Strong fairness on publishing and on the ten-second limit
  says that the clock moves on while the worker turns; both are comparisons with a
  monotonic clock in its loop.
- `DebugBridge`: each of the three threads goes on, the main thread once it is in
  `quit()`, which it need never enter. A CPU that runs with a request waiting
  reaches an instruction boundary (strong fairness): it finishes an instruction
  within a frame.
- `Discovery`: turns and clock are weakly fair. A datagram that is sent again and
  again while the network works gets through some time (strong fairness on
  reaching, answering and receiving). Without it nothing can be said of UDP.
- `FrontEnd`: `fzvsRefreshUI()` is called from the main loop.
- `McpClient`: only the client's own steps, its timeout included, and a lock that
  is handed on (asyncio's lock is first come, first served). `wait_closed()` has no
  timeout and ends only when there is nothing left to send. Nothing is assumed of
  ares.
- `LocalTest`: server program and supervisor go on as long as they can. Clients
  need not end, nor need a signal come or the optional duration pass.

## 4. What is proved

All theorems hold for every value of the constants that satisfies the named
assumptions of the module. TLC evaluates those assumptions in the runs. The
bounds of a model (clocks, tokens, requests) are constants as well, so the
theorems cover behaviours of any length.

**`RaceServerProofs`** (`AddrAssumption`, `NonceAssumption`, `DataAssumption`,
`BoundAssumption`, `TimeAssumption`, `SeqModAssumption`): `TypeCorrect`,
`HostAlwaysPresent`, `PhasesMatchPlayers`, `CapacityRespected`, `NoGhostCars` and
`StartStaysCommitted`. The inductive invariant is `RoomInv`, the five room
invariants together. None is inductive alone: the host is never stranded because
an empty room has no race, the statuses that a phase allows decide what
`advance()` may do next, and a car loses its position because of the status its
player had. Each C function has a lemma that it maps rooms of `RoomInv` to rooms
of `RoomInv`; `NextInv` puts them together, one step per action.
`StartStaysCommitted` is an action property. It needs in addition that a room in
which everybody has armed keeps its deadline through `drop` and all stages of
`advance`. The one numeric assumption is `ArmMargin < StartDelay` (0.5 s and 2 s):
a start is rescheduled to a later time only.

**`StartBarrierProofs`** (the same assumptions): `ServerImplementsBarrier`, that
`RaceServer` implements `StartBarrier`. A handler first changes players and then
tests the transitions of `advance()`. What the first part leaves of a room is
`Reached`: the race goes on with fewer players (`Stays`) or there is a new lobby
(`Fresh`). From there `advance()` makes at most one of the abstract moves
(`AdvanceMoves`), although it tests all transitions one after the other. `RoomInv`
is what rules out the second: no status that a phase leaves behind enables the
next transition.

**`PlayerProofs`** (the same assumptions): `OnePlayerPerEndpoint` and
`OwnerStaysHost`. Only HELLO brings a player in. Every other handler, however many
departures it causes, leaves players that were there before with the same address,
nonce and token (`Held`), and most C functions leave all of them (`SameCrew`). The
inductive invariant `IdInv` adds that every token in use has been issued, which
keeps the next one apart.

**`RaceViewProofs`** (`ViewAssumption`): `EstimateIsClose` and `NobodyStartsEarly`,
for trips, clocks and drifts of any size. The invariant `ClockInv` says of every
PONG under way that the server's answer lies between the PING and now, and that
the clocks have only drifted since (`PongOK`). Half the trip bounds the error of
the sample, and the triangle inequality adds the drift.

**`DiscoveryProofs`** (`TimeAssumption`): `RoomsExpireInList` and
`NoRoomFromBefore`, for any number of hosts and rooms, any period and expiry. The
invariant has the ages of the listed rooms, one more than the expiry until the
worker has taken its turn (`Ages`), and `Fresh`: while a query socket is open, the
room of every reply to its nonce has been open since the list was last forgotten.
This holds because the list is forgotten only together with the socket.

**`BridgeProofs`** (`BoundsAssumption`): `CommandsAtBoundary`,
`DescriptorsClosedOnce` and `ResponsesAreTrue`, for any number of requests and
connections. There is one invariant for each thing the threads share:

- `Standing`: a machine that is ready or halted stands at a boundary, and `run()`
  is entered with neither.
- `Owned`: a connection that is not closed has one owner, which is the atomic, the
  hands of `stop()`, or the socket thread that has just accepted it.
- `Accounted`: a request in the queue is there once, waits and has not been run,
  and the one in the worker's hands is no longer in the queue.

**`RomPatchesProofs`** (`RomAssumption`): `RomTypeCorrect`, `PatchesAccount` and
`StaleIds`, for ROMs of any size. The invariant is type correctness together with
`PatchesAccountForRom`: overlaps are refused because every listed patch is in the
ROM, and it is there because overlaps are refused.

**`FrontEndProofs`** (`ChoiceAssumption`): `SettingsKept`, `SessionsEndClean` and
`ClientOnSupportedGame`. The strengthening is that during a session the saved
settings are the user's (`managed => saved = chosen`). A second `begin()` without
the test of `managedSession` would break exactly this. All ways out share the
lemma `LeavingKeepsInv`.

Only model-checked:

- all properties of `RaceRoom`, `SessionControl`, `McpClient` and `LocalTest`;
- `CarsInBetween` of `RaceView`;
- every liveness property: liveness under fairness is beyond the prover, as is
  whatever would need induction over data.

## 5. What is not modelled

- **Bytes.** Encoding and decoding of packets, JSON and base64. Packets are
  records, and what fails to decode changes nothing but a counter.
- **Statistics, logs, the event ring, texts, widgets, overlay, scripted input and
  command line options.** Nothing of the race depends on them.
- **The bridge's socket file**: who unlinks the path that an emulator listens on.
- **Reuse of file descriptors** by other parts of the process after the bridge has
  closed one.
- **Local test setup.** The hosted mode, in which the first client is the server,
  the launch plan and the result file. `SetupStops` leaves out two moments
  (`cut`): a signal between `Popen` and the append to the list leaves a process
  that nobody knows, and a second signal at the very beginning of `finally`,
  before signals are ignored, skips `stop()`.
- **Build scripts**: sequential file handling.
- **Sidecar service and tools**: one request each. The exception is the memory
  snapshot, which makes two; it is listed as a hazard.
- **Liveness of a race.** A command dropped from a full queue can hold up a race;
  this is listed as a hazard. The runs of the composed room are about safety.
- **Wrap-around in the composed room.** `SeqMod` is beyond the numbers reached
  there; `RaceServer` and its proofs have the wrap.

## 6. Running

    tlc -config FrontEnd.cfg FrontEnd            # any row of "runs" in PROJECT.json
    tlapm FrontEndProofs.tla                     # any *Proofs module

The largest runs are `race_view`, `room` and `bridge`, with 0.3 to 0.4 million
distinct states. `room`, `server`, `discovery` and `bridge` are the slowest and take
two to three minutes on two workers. The longest proofs are
`RaceServerProofs`, `StartBarrierProofs` and `PlayerProofs`, five to eight minutes
each; the others take a minute or less.
