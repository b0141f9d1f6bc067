# Formal models of goley-server-tools

TLA+ models of the Go backend (`server/`) and of the client runtime (`src/`:
launcher tool, wrapper, patcher DLL and its hook library), checked with TLC and
proved about with TLAPS. Paths below are relative to the repository's root; in
`PROJECT.json` they start with one more `src/`. Every definition that models code
is listed there ("map") with the lines it stands for.

## 1. The system

Two halves that meet on the network. The backend replaces the game's servers:
each program runs the ProudNet TCP server core with its own handlers, and the
battle server runs a UDP relay beside it. The client runtime makes the original
game talk to it: `revival_tool` starts the game, directly or by having Windows
start `revival_wrapper` in its place, one of them injects the patcher DLL while
the game is suspended, and the DLL installs hooks through MinHook and answers
for functions the game calls.

### Go backend (`server/`)

| Component | State | Operations | Interacts with | Hard part |
|---|---|---|---|---|
| ProudNet server core, `internal/proudnet/server.go` | `conns` under an RWMutex, `nextHostID`, one socket per connection | `ListenAndServe`, `serve`, `Send`, `Broadcast`, shutdown by context | every TCP service runs on it; handlers call back into it | one goroutine per connection plus the accept loop; `Broadcast` blocks on sockets under the read lock |
| Framing, `internal/proudnet/framing.go` | the byte stream of a socket | `WriteFrame`, `ReadFrame`, `WriteRMI` | `Send` on one side, `serve` on the other | a frame is two unlocked writes; 16-bit length; end of file anywhere |
| Message codec, `message.go` | a buffer and two offsets | typed reads and writes with alignment, UTF-16 strings | every handler | bounds, alignment |
| RMI ids, `rmi_ids.go` | none | constants | | |
| UDP relay, `udp_relay.go` | `peers`: HostID to last seen source | `RegisterPeer`, `UnregisterPeer` (no caller), the relay loop | battle server's process; clients over UDP | loss, duplication, late datagrams, clients that change endpoint |
| Entry server, `cmd/entry-server` | none | three handlers that reply | server core | order of replies |
| Lobby server, `cmd/lobby-server`, `cmd/types` | `lobbyMap` and `Lobby` records, no lock | logon, chat, create, list, join; `handleStartGame` goroutine | server core (`Send`, `Broadcast`) | every access is a data race with the other connections' handlers |
| Battle server, `cmd/battle-server` | none of its own | logon; runs TCP server and relay side by side | server core, relay | the relay is not told who logged on |
| Login server, `cmd/login-server` | none | captures and logs | | |
| Database, `cmd/database` | SQL | not called by any other part | | |
| `cmd/daum-auth`, `cmd/patch-server`, `cmd/launcher-web` | none | HTTP over static data | | |
| `internal/common`, `scripts/`, `find_rva.py` | none | logging; hosts file; start-up | | |

### Client runtime (`src/`)

| Component | State | Operations | Interacts with | Hard part |
|---|---|---|---|---|
| revival_tool, `tool/main.cpp` | IFEO registry keys, processes it starts | set, clear, four ways to launch, inject, cleanup; inspection commands | the wrapper through IFEO; the game | entries left behind; a failure between suspended start and resume; commands given while others run |
| revival_wrapper, `wrapper/wrapper.cpp` | its child | start under the debugger, detach, inject, resume, wait | Windows starts it in the place of the game, `launch` starts it itself | starting itself again; exit codes; failure at each step |
| Patcher DLL, `patcher/main`, `core` | installed groups, `g_inHook` | DllMain chooses a mode and starts PatchThread, which installs hooks with retries or returns early | MinHook; the game's threads | hooks appear under running threads; DLLs load late; calls fail |
| Detours, `patcher/hooks` | `g_anonWaitCount`, the children of CreateProcess | waits, CreateProcess; logging and canned answers | the game's threads, each other through `g_inHook` | re-entrancy, timeouts, signals that race polls |
| MinHook, `patcher/minhook` | hook table, slots of trampolines, suspended threads | create, enable, disable, queue, apply, remove, uninitialize | callers; every thread that runs hooked code | code is rewritten under running threads |
| `patcher/bypass`, kill stubs, `core/memory.cpp` | debug registers, exception handlers, code of a third-party program | `SetHardwareBreakpointAllThreads`, `VehHandler` | one breakpoint is on NtCreateUserProcess and changes how children are created | the rest of its environment is not in the repository |
| `tool/apply_patches.py`, `extract/decrypt.py` | files | byte substitutions, stream scan | | |

What makes each modelled component correct:

* **Server core.** The registry is exactly the set of served connections; nobody
  iterates the map while another goroutine changes it; a broadcast has one
  audience and reaches all of it that can be reached; departed clients are
  forgotten; dialing clients are served.
* **Framing.** What is read is what was written, whole, once, in order.
* **Lobby.** A room admits two, starts once, and sends both to the battle, after
  it told them that they joined.
* **Relay.** Datagrams go to the host they are meant for, and the table follows
  clients that move.
* **Launch.** The wrapper never starts itself; no game process slips through
  the redirection, the injectors or the detour unpatched; whoever was suspended is
  resumed or terminated; a caller of CreateProcess notices nothing; exit codes are
  true.
* **Patcher.** The recursion guard excludes and is always given back; a detoured
  wait neither invents nor loses a signal and ends where it promises to; what is
  loaded gets hooked, however late.
* **MinHook.** Table, slots and code bytes agree through every failure; no thread
  is caught in bytes that change under it; a moved thread goes on where it was;
  a trampoline does what the bytes it replaces did.

## 2. Modules

| Module | Models | Notes |
|---|---|---|
| `RWMutex` | `sync.RWMutex` (external) | writer preference, parked readers admitted at `Unlock` |
| `BroadcastGroup` | abstract specification | what registry and `Broadcast` promise together |
| `ProudNetServer`, `_proofs` | `server.go` | INSTANCEs `RWMutex`; refines `BroadcastGroup` |
| `FrameStream`, `_proofs` | `framing.go` | one direction of one connection, byte by byte |
| `Lobby`, `_proofs` | `lobby-server/main.go`, `types/lobby.go` | composes with the core through what `BroadcastGroup` says of `Broadcast` |
| `BattleRelay`, `_proofs` | `udp_relay.go`, `battle-server/main.go` | |
| `Launch`, `_proofs` | `tool/main.cpp`, `wrapper.cpp`, `hook_process.cpp`, `hwbp.cpp`, `veh_handler.cpp` | composition of three programs over a table of processes |
| `Trampoline`, `_proofs` | `trampoline.c` | pure operators |
| `HookTable` | abstract specification | what the hook library promises its callers |
| `MinHook`, `_proofs` | `hook.c`, `buffer.c` | EXTENDS `Trampoline`; refines `HookTable` |
| `WaitHooks` | `hook_wait.cpp`, `helpers.cpp` | actions of the threads that wait |
| `Patcher`, `_proofs` | `patcher_main.cpp` and the Init functions of `hooks/` | EXTENDS `WaitHooks`; stands on `HookTable` in place of `MinHook` |
| `MCServer`, `MCRelay`, `MCHook`, `MCPatcher` | | constants for TLC |

**ProudNetServer.** `pc[c]` is the place of connection c's `serve` goroutine,
`accPC` that of the accept loop; each acquisition and release of `Server.mu` is a
step, and so is each access to the map and each write to a socket. A frame is
one unit: `inbox[c]` holds the frames c has sent (a handler, named by the calls
it makes, or `BadFrame`), `queue[c]` counts those in the send buffer towards
c. A write waits for room in that buffer unless the connection is `Lost`. The
loop of `Broadcast` picks the next map entry (`current`) before it writes, so
that a write that waits holds up the rest, as in the code. The programs exit
when `ListenAndServe` returns; the model lets the goroutines run on, which adds
behaviours and removes none. An `Accept` that fails while the context is live
changes nothing and is no action.

**FrameStream.** A byte is tagged with the frame it was written for. `ReadFrame`
takes the next two bytes for a length: the prefix of a frame gives its size
modulo 2^16 (here `LenMod`), anything else gives any length. `Cut` closes the
connection and loses a suffix of what is under way, so that the end of file
falls anywhere.

**Lobby.** Each handler is a goroutine whose accesses to `lobbyMap`, the `Lobby`
records and `Players` are separate steps. `GamerCount += 1` is a load and a
store. The Go runtime may notice that a map is accessed while it is written and
then stops the process (`Crash`), or may not notice. Sockets take every frame at
once (blocking is ProudNetServer's subject) and frames are whole
(FrameStream's). `RequestNextLogon`, `Chat` and `RequestLobbyList` change no
state of the lobby and are not repeated here.

**BattleRelay.** The relay loop alone uses `peers`, so handling a datagram is
one step. The network is a set from which datagrams may vanish, be handled
twice or be handled late. Each client puts its own id in its datagrams.

**Launch.** `proc[p]` is process p with its image, its command line as argv, the
next step of its `main` (`pc`), its child, and whether the DLL is in it. Each
Windows call that others can observe is a step: writing each IFEO value, creating
a process, detaching, injecting, resuming, waiting. `CreateProcess` applies IFEO
unless the creator debugs the child; the Debugger's command line has the
wrapper's own path in front or not, as `wrapper.cpp` allows for. `Inject` stands
for `InjectDll` and `InjectIntoProcess`: it fails in a child still being debugged,
and may fail anyway. `cleanup` takes a snapshot for each of its three prefixes and
then kills one process after the other, so that others act in between and die at
any step. Game processes are external: they start what the real ones start, with
and without `CREATE_SUSPENDED`, and end with either exit code. There are three ways
for them to create a child: `Spawn`, through kernel32 while they are not hooked or
through an observer's detour, which passes the call on; `HookedCreateProcess`,
through the detour once PatchThread has hooked; and `SpawnDirect`, past both, which
`patcher_main.cpp:200` says of Goley_. `dr3` is the breakpoint that the loop sets on
NtCreateUserProcess in every thread (`RefreshBreakpoints`) until it was hit once.
Whether it fires in a given call depends on the thread that makes it and is left
open (`Fires`). Under kernel32, which creates every child suspended and resumes it
itself, it changes nothing; in a direct call `VehHandler` leaves a child suspended
that nobody asked to be. `bare`, `lost` and `stopped` are history: nobody had
undertaken to inject this process, an injection into it failed, and the breakpoint
suspended it in a direct call. A dead process has no hooks and no breakpoint.

**Trampoline.** `CreateTrampolineFunction` as a fold of the loop body (`Relocate`)
over instructions. An instruction has a length, a kind and, for a branch, a
destination; hde32 is trusted to deliver those. Indirect calls and jumps are kinds
of their own, of any length, that are copied as they are. `Sound` compares the
result with a reference definition: where each copied instruction leads is the copy
of where the original leads, and bounds the slot's 32 bytes and eight records.
`FunctionCode` is the code of any function, of any length.

**MinHook.** `hooks` is `g_hooks.pItems`, with `capacity`, `pool` the memory blocks
with their free lists and used counts, `patched` the functions that hold a jump.
`job` is the call that patches code: it is entered under the spin lock, suspends
and moves the runners (`Freeze`), writes hook after hook (`EnableHookLL`), resumes
(`Unfreeze`) and finishes. Calls that patch nothing are one step, since they hold
the lock throughout. Runners are threads at an instruction: in the function, at
the jump above it, in the detour, in a trampoline, in something called from there,
or `Torn`. Calls, direct and indirect, return to the instruction behind them. A
runner steps between any two steps of the library unless suspended. A runner in a
trampoline whose hook is gone, or whose slot by now holds a trampoline without that
instruction, is torn. `Code` is the code of the functions that are hooked and
`Functions` the code `TrampolinesSound` speaks of. `alloc`, `snapshot`, `suspend`
and `protect` are the four calls that can fail.

**WaitHooks and Patcher.** `thread[t]` is a game thread's call, `guard` is
`g_inHook`, `anonCount` is `g_anonWaitCount`. EnterHook, LeaveHook, SetEvent and
each wait are steps; which path a call takes follows the code's conditions on
function, timeout and description of the handle. `Patcher` adds PatchThread: the
hooks of CreateProcess at once, then (`EnterLoop`) its loop, unless in game mode it
has no module handle or no exception handler and returns; DllMain may also fail to
create it (`NoPatchThread`). The loop is one `Round` after another over the groups
of its mode (`ObserverGroups`, `GameGroups`) whose DLL is loaded, with any of the
library's calls failing, as a function of the state of `HookTable`, which `MinHook`
implements. A wait goes through the detour if its hook is on when it starts.

## 3. Runs

| Run | Question | Bounds |
|---|---|---|
| `server` | are the registry and the lock right, is a broadcast atomic? | 3 connections, 2 of them sending, 1 frame each way in a buffer; shutdown left out (`NoShutdown`). Three connections are the least with two broadcasters and a writer that waits; one frame fills a send buffer. About 1.4 million states |
| `server_live` | does everyone get what they wait for? | 2 connections, both sending, shutdown included; liveness only, the registry is `server`'s |
| `server_stall` (violation) | ... if one client stops reading? | 2 connections, `Draining` holds one |
| `frames` | do frames survive a breaking connection? | 2 writers, 3 frames, sizes on both sides of `LenMod` |
| `frames_tear` (violation) | do they survive two writers? | 2 frames that fit |
| `lobby` | does a match come together? | 2 clients, 4 requests, 2 rooms of one name: enough for a join into a replaced room, a client joining twice and a third join. A late third client let in by a lost update needs more than TLC can exhaust; that `GotoComesLast` covers it is proved |
| `lobby_goto` (violation) | ... if joins overlap? | 3 requests |
| `relay` | does the table follow the clients? | 2 clients, 3 endpoints, 2 moves (one client can be where the other was), 2 datagrams under way |
| `launch` | does the game run, patched, and once? | all 8 commands and 3 user starts, 2 of them in one behaviour, 4 processes, all faults. Four processes are a tool, its wrapper, the game and the payload; two requests let a `cleanup` or `ifeo clear` fall between any two steps of a launch. A direct call, the breakpoint and the detour can meet in one behaviour. The safety part is proved for any bounds. About 365,000 states |
| `patcher` | are guard, waits and installation right? | 2 threads, 1 nProtect event that stays signaled and 1 unnamed auto-reset one, 2 polls instead of 900, 1 polling call instead of 20 so that the next one does not poll, 2 groups (one retried, one late), game and launcher, 1 failing round or early return |
| `hook` | do table, slots, code and threads agree? | a function whose first bytes hold a widened branch, one that stays within them and a call, and one that only has room for a short jump with padding above and makes an indirect call (neither is entered or returned to amid those bytes: `MCEnterable`); 1 runner, 1 caller, 2 blocks of 1 slot (blocks come and go), table capacity 1 (it grows and shrinks), all faults. The lock makes callers take turns, so a second one adds nothing. `TrampolinesSound` runs over all functions that begin with three instructions from a menu of lengths and kinds and go on with five more, with and without padding above: 21,004 whose branches lead to instructions, of which the library makes a trampoline for 14,363. About 190,000 states |
| `hook_torn` (violation) | ... when a single hook is disabled? | 1 function with a jump above, no faults |

Every property of a passing run has a mutant in `PROJECT.json`: a plausible bug
in one definition that TLC finds through that property.

The violations are disagreements between a comment or a document and the code;
"findings" in `PROJECT.json` quotes both. `hook_torn` is a defect of the vendored
library that this repository does not meet, because nothing in `patcher/` disables
a single hook; `EnablingSafe` is about the use it does make.

Deadlock checking is off everywhere: clients, users and games need not do
anything, the server stops after shutdown, processes end, budgets run out.

## 4. Fairness

* `ProudNetServer`: weak fairness for the accept loop and the goroutine that
  closes the listener; strong fairness for each `serve`, because a goroutine
  whose write waits keeps its place at the descriptor's write lock and is not
  overtaken for ever by other writers to the same socket. Clients in
  `Draining` keep reading; nothing else is assumed of clients.
* `FrameStream`: a goroutine between its two writes makes the second; the reader
  keeps reading. Nobody has to send.
* `Lobby`: each handler and the `handleStartGame` goroutines proceed.
* `BattleRelay`: copies of a datagram do not live for ever; a client keeps
  sending, and not everything it sends from one endpoint is lost.
* `Launch`: a process of the tool or the wrapper, and a thread in the detour, goes
  on with its next step (weak fairness, the scheduler of Windows). Users and game
  processes need do nothing: a game may run for ever and never resume a child, and
  PatchThread may never hook or set a breakpoint.
* `Patcher`: PatchThread, where it was created, goes on to its loop or
  returns, the loop runs again and time passes, and a thread in a wait
  goes on when it can. No object has to be signaled and no DLL loaded.
* `MinHook` has no liveness property and states no fairness.

## 5. Proofs

Theorems hold for every value of the constants, from the named ASSUMEs of the
module alone; `EnablingIsSafe` has one hypothesis more, named below. All but
`TrampolineIsSound` are of the form `Spec => []P` or `Spec =>` an action property or
a refinement. Every invariant and every action property that a passing run checks
is one of them.

**`ProudNetServer_proofs`** (`ServerAssumption`: `Acceptor` and `Nil` are not
connections, handlers are sequences of calls, bounds are numbers):
`TypeCorrect`, `RegistryIsExact`, `MapIsGuarded`, and `BroadcastImplementsGroup`, the
refinement of `BroadcastGroup`. The properties are not inductive. `IInv` adds:
`LockInv`, who may be where while whom the lock names as writer and readers
(this alone gives `MapGuarded`); `AcceptInv`, a connection between accept and
start has a fresh id and no goroutine, so that the insert overwrites no entry;
`CastInv`, the targets of a running broadcast are registered, which holds because
the delete needs the write lock. The refinement maps the registry to `member`,
the rest of each loop to `owed`, and broken or closed connections to `broken`;
`Insert` is a `Join`, `Delete` a `Leave`, `BroadcastLocked` a `Begin`,
`BroadcastSend` a `Deliver`, and locking steps are stutters.

**`Lobby_proofs`** (`LobbyAssumption`: `Nil` is no name, the sets are finite, the
bounds are numbers): `TypeCorrect`, and `MatchInOrder`, which is
`Spec => []GotoComesLast`. The races of the joins are part of this: two may both
get in on a count of 1, and a lost update lets a client that connected after the
room's `Disappear` join it and be sent off, so the property excepts the rooms a
client `missed`. `IInv` adds `RoomsInv` (a creation under way has its room reserved
within the bound), `HandlerInv` (a handler past its lookup holds a room),
`PlayersInv` (whoever is among the players of a room, or of a launch, was told
that it joined or is gone) and `ClosedInv` (once a room's `Disappear` is out
everyone connected knows or connected later; until then whoever does not know is
in the audience). That the registry admits nobody during a broadcast is what
makes `ClosedInv` inductive, and it is what `MapIsGuarded` and
`BroadcastImplementsGroup` show. `SerialRoomsHold` (`SerialRooms`) adds `SerialInv`
on top, for the time no two requests have overlapped: there is one handler under
way and then no launch (`Alone`), a room's `GamerCount` is the number it admitted
unless that one handler is between its load and its store (`Counted`), it is
launched once and full (`StartedOnce`), and what the join under way has read of it
is still so (`JoinInv`). Without the last, admission by a test of the count that
is made steps before the count is written would not be seen to stop at two.

**`FrameStream_proofs`** (`FrameAssumption`: sizes are numbers above 0, the modulus is
above 1), for any writers, frames, sizes and width of the prefix: `TypeCorrect`,
`FramesArriveWhole` (`CleanFramesIntact`) and `ReaderFailsForCause`
(`CleanReaderLives`). That the stream is a concatenation of frames is not said by
recursion over frames: `ReaderInv` says that there are positions, one for each frame
begun, counted from the next byte to be read, that lie a frame's size apart
(`Starts`), that the bytes behind each are that frame's (`Layout`), and that the
reader is at the position of the next frame or just behind its prefix (`InStep`).
Reading shifts the positions, writing adds one, and a cut leaves them and shortens
the stream. `OneWriter` says that a writer between its two writes is the only one
and has begun the last frame; it holds only without overlap, as `frames_tear` shows.

**`BattleRelay_proofs`** (`RelayAssumption`): `TypeCorrect` and `ForwardsToOwner`,
which is `Spec => []RoutesToOwner`. The strengthening is `InFlightInv`: a datagram
under way carries an endpoint its source has had.

**`Launch_proofs`** (`LaunchAssumption`), for any number of processes, requests and
any faults: `TypeCorrect`, `WrapperStartsTheGame` (`NoForkBomb`), `NobodySlipsThrough`
(`RunsPatched`), `NobodyIsLeftSuspended` (`SuspendedHasResumer`), `DetourIsTransparent`
(`CallerGetsWhatItAsked`) and `ExitCodesAreTrue` (`LaunchTellsTheTruth`), all with
direct calls and with the breakpoint firing in any call. The invariant `Table` says
of each process alone what its place in its main implies (`Self`), of a process and
its child what the one knows of the other (`Pair`), that only the `inject` command
shares a child with its creator (`OneParent`), and that every suspended process is
held by somebody (`AllHeld`). `OneParent` is what makes it inductive: a process may
act on its child because nobody else's knowledge of that child depends on it. A
child that the breakpoint stopped is excepted from `AllHeld` and from what its
creator knows of it, and nothing else is. Lemma `Change` states once what a step may
do to the whole table, and there is a lemma per action that it does no more.

**`Patcher_proofs`** (`WaitAssumption`, `PatcherAssumption`), for any threads, objects,
polls and groups: `TypeCorrect`, `GuardIsExact` (`GuardExact`) and `WaitsAreTrue`
(`SignalsReported`). `OneInside` ties the guard to the one thread between EnterHook
and LeaveHook; `Fine` says by its place what a call has used up, how many polls it
has made and what it will return. PatchThread and waiting threads change disjoint
variables (`StepSplits`), so that each half is proved on its own.

**`Trampoline_proofs`**, from no assumption: `TrampolineIsSound`, for the code of any
function whose branches lead to instructions. `Offset` and `Scan` are recursive
functions over an interval. Such a function is a CHOOSE, so it is first shown to
exist, and a statement about its values is proved from the least index at which it
would fail (`Least`, `NoneLeast`), which needs no induction rule. `Scanned` is the
loop invariant of the `do` loop: the boundaries so far are those of a prefix of the
code and of its copies, each with the copy's size, none was widened behind the
furthest internal branch, and all fit. From it, `BoundariesAre`, `NextIsCopied` and
`DestIsCopied` say what a finished trampoline holds, `SameDistance` that nothing
between a branch and where it leads changed size, and `FollowsTheFunction` and
`CoversThePatch` are the main parts of `Sound`; that the records and the slot
suffice is part of `Scanned`.

**`MinHook_proofs`** (`MinHookAssumption`, `CodeAssumption`: a function has an
instruction and its branches within the first five bytes lead to instructions that
are no padding), for any functions and code, callers, runners, blocks, slots and
faults, in layers that each use the ones before:

* `TableIsExact` (`TableExact`) and `LibraryKeepsThePromise` (`ImplementsHookTable`).
  The strengthening: `Shape` (the table is a sequence of entries), `JobOK` (what the
  call under way has still to patch is in the table, and is nothing once it ends
  well), `OffFirst` (a hook about to be removed or forgotten is off, without which
  the refinement would forget a jump in the code). Every step then leaves each
  function's hook as it was (`Same`), turns one along none-off-on (`OneTurned`), or
  forgets all while none is on (`AllForgotten`), which are the steps of `HookTable`.
* `SlotsAreOwned` (`SlotsOwned`) and `TypeCorrect`. `PoolInv` says of each block that
  its free list and the slots of hooks are disjoint, without repetition and together
  all of the block, and that the count is that of the hooks (`BlockOK`); there are
  lemmas for what taking, returning and unlinking do to a pool whatever uses it. A
  fresh slot is nobody's because it was on the free list, and that survives a
  table entry moved by a removal.
* `MovesToItsCopy` (`MovedToItsCopy`). `ProcessThreadIPs` is a recursive function over
  the table; from the least hook after which a place would have another meaning,
  the move for one hook (`MoveMeans`) shows there is none. It needs that no two hooks
  share a slot.
* `FrozenThreadsAreSafe` (`FrozenSafe`). `Fitted` (a hooked function has a trampoline
  and its caller was given it), `Placed` (every runner is at an instruction, and one
  in the bytes of a jump is at a boundary the trampoline knows, for which
  `CoversThePatch` is needed) and `Fresh` (what a call about to freeze will patch is
  exactly what is not yet as wanted). Then the move for a hook takes a runner out of
  its way (`MoveClears`), moves for other hooks do not put it back
  (`MoveKeepsClear`), and while it is suspended nothing changes that.
* `EnablingIsSafe` (`EnablingSafe`) from the hypothesis `Enterable` of each function: no
  branch from behind the bytes the jump takes leads amid them; no indirect call,
  which may be shorter than the jump, returns amid them; and no copied branch goes
  back over an instruction that was widened. The library checks none of the three,
  and a function without one of them can be torn by merely hooking it; `MCEnterable`
  shows that the functions of `hook` have them. The strengthening `NoneCaught` says
  where a runner may be while nothing was undone (`Uncaught`): not within a jump,
  nor in a detour or trampoline without a hook, nor about to return to one. A call
  that has still to take a hook out is excepted, since its next steps set `undone`.
* `TrampolinesAreSound` (`TrampolinesSound`) from `TrampolineIsSound`.

Only model-checked: the liveness properties, since fairness and ENABLED are out of
the prover's reach: `BroadcastReachesReaders`, `DepartedForgotten`, `DialedIsServed`,
`CleanFramesArrive`, `SerialGameStarts`, `EntriesSettle`, `NoCreatorHangs`,
`DetectedIsReleased`, `LoadedGetsHooked`.

## 6. Not modelled

* Codec, RMI ids, login server, database, HTTP services, logging, scripts,
  offline patcher, asset extraction, refactoring tools, game assets: no state that
  several actors share, no order of steps that matters, or no caller.
* revival_tool's `init`, `extract`, `patch` and `unpack` (they run other programs on
  files) and its inspection commands (they only read).
* hde32 (table-driven decoding; the model takes lengths and kinds as given) and the
  64-bit halves of MinHook, which the build does not select.
* The rest of `patcher/bypass` (its other breakpoints and exceptions), kill stubs,
  pointer scans and `core/memory.cpp`: they work on the machine state of a third-party
  program that is not here. The breakpoint on NtCreateUserProcess is in `Launch`. The
  detours that only log or answer from a table.

Abstractions to keep in mind: no property is about the content of messages; a
client that reads a socket reads whole frames in `ProudNetServer`; an address is
reused in `BattleRelay` only after its former owner moved away; process ids are not
reused in `Launch`; one object per WaitForMultipleObjects; PatchThread is the one
caller of the hook library in `Patcher`; a runner's instruction is atomic in
`MinHook`.

What the models leave open on purpose, and a reader of the code should know:

* `ifeo clear` and `cleanup` leave BinaryTr.bin's entry behind; `RunsPatched` holds
  because such a payload is redirected and patched all the same.
* A wrapper killed by `cleanup` between start and resume leaves its child suspended
  if the sweep for Goley_ is already over; `SuspendedHasResumer` excepts killed
  creators.
* `launch-args` and `launch-launcher` do not look at the result of setting IFEO.
  `launch-args` with IFEO in effect injects the wrapper, which then injects the game.
* PatchThread races the game's main thread: a first child may be created before the
  hooks are in. `patcher_main.cpp` logs "Wait hooks DISABLED" and installs them
  later.
* The child of a direct NtCreateUserProcess gets no DLL unless IFEO redirects it, and
  the one whose creation hits the breakpoint stays suspended: the comment at
  `patcher_main.cpp:393` says "so we can inject before run", `:202` names a PowerShell
  watcher that would inject, and neither is in the repository. `RunsPatched` counts
  the first as `bare`; `SuspendedHasResumer` and `CallerGetsWhatItAsked` except the
  second (`stopped`) and hold for every other child.
* In game mode PatchThread may return before its loop, after it has hooked
  CreateProcess, and no group is tried then.
* A hook created but not enabled is refused ever after, `MH_Initialize` is tried once,
  and one function of a group that took ends the attempts for the rest:
  `LoadedGetsHooked` promises no more than one hook per group and excepts the first
  two and the early return.
* MinHook: a thread created after the snapshot or one that cannot be suspended may be
  caught (`EnablingSafe` excepts it), and so may one that was moved for a hook whose
  VirtualProtect then fails; removing a hook frees a trampoline that a thread in the
  detour is about to call; a backward branch over a widened instruction is copied
  with its old displacement (`TrampolinesSound` excepts it), and a function may branch
  back, or return from a short indirect call, amid the bytes of the jump
  (`EnablingIsSafe` assumes none of these of what is hooked).

## 7. Plan

Done: server core, framing, lobby, relay, launch, patcher, trampolines and MinHook,
each with its safety properties checked and proved.

Next, in order: a refinement that states `FrameStream` as a channel of frames; the
codec's alignment and bounds as operators against a reference definition; what the
entry, login and battle handlers send, per session; a run that composes `Launch`
with `Patcher`, where the first child races the installation.
