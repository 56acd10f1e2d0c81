# Verification of sl-dbg

`sl-dbg` is a debugger whose every operation is one shell command. A daemon keeps
the debug sessions between commands: it starts a debug adapter (debugpy, dlv,
java-debug) per session, talks the Debug Adapter Protocol (DAP) with it, and
answers one JSON request per line on a Unix socket. The hard part of the program
is in that daemon. Requests of different clients run on goroutines of their own,
DAP events arrive on another, the adapter process is watched by a third, and calls
have timeouts: what one command does can come between any two steps of another.

This directory models the daemon, the processes that start and reach it and the MCP
server in TLA+, checks them with TLC on small instances and proves every safety property
of the passing runs, for every instance, with TLAPS.

## 1. The system

| Component | State it keeps | Operations | Hard behaviour |
|---|---|---|---|
| Session (`internal/session/session.go`) | execution state, last pause, last location, terminal record, exit code; the list of stop waiters; the deferred configurationDone | event pump, process watcher, installing and notifying waiters, `EnsureConfigurationDone`, `Close` | waiters against events; the watcher against queued events; two places for the exit code |
| Execution handlers (`daemon/server.go`, `daemon/handlers_v2.go`) | locals of one request | continue, step, next, finish, until, pause, state, listen, stop, the settling of start | state read, then a call, then a wait; timeouts against late answers |
| Session manager (`session.go`) | the table of sessions, the default id, the cap | `Reserve`, `CreateLaunch`, `CreateAttach`, `register`, `Get`, `SetDefault`, `Remove` | checks made seconds before the registration; a lock that is held while a session closes; error paths that own a process |
| Watch store (`session/watches_store.go`) | watches of a session, one file per program | load at start, save at stop, add, remove, clear | two sessions of one program share the file |
| DAP client (`internal/dap/client.go`) | pending calls, their channels, subscriptions | `send`, `Call`, `readLoop`, `dispatch`, `Subscribe`, `Close` | delivery outside the lock, late responses, the end of the stream, `Close` at any moment |
| Breakpoints (`session.go`, `server.go`, `handlers_v2.go`) | the table `bpsByID`, the list `funcBPs`, the exception filters, ids given by the adapter; the adapter's own sets | break, break-fn, break-ex, unbreak, until, the removal of `--once` breakpoints | setBreakpoints replaces a whole file: change, read and send are three steps |
| Output and event buffers (`session.go`) | two bounded logs | record, `Outputs`, `Events`, tails | dropping at the limit; polling by timestamp |
| Inspection handlers (`server.go`, `handlers_v2.go`) | the last location; `inspectMu` | stack, threads, locals, globals, fields, eval, set, print, snapshot, watch, source | a resume, a `use` or a stop between the requests of one inspection |
| Policy, audit, redaction (`daemon/policy.go`, `redact.go`, `cli/mcp_safe.go`) | allow lists, a persisted policy, audit file | one check per command | the policy must reach daemons that others spawn |
| Daemon life cycle and IPC (`server.go`, `internal/ipc`, `cli/daemon_client.go`, `cli/daemon_cmd.go`) | pid file, socket, policy file | start, auto-start by the command line, shutdown, `daemon stop` | two daemons starting at once, a crash at any point, a replacement during a stop |
| MCP server (`internal/mcp`) | JSON-RPC connection, the request in progress | methods, tool calls, composite tools, resources, prompts | composites of several daemon requests beside other clients; one request at a time |
| Adapter registry, command line, installers, protocol types | none that lives | string building, flags, downloads | not modelled: no concurrent state |

How they interact: a connection goroutine (`handleConn`) finds a session through
the manager and runs the handler; the handler calls the adapter through the DAP
client and waits on a stop waiter; the client's reader hands events to the
session's pump, which changes the session and wakes waiters; `stop` goes through
the manager, which closes the session under its lock; closing kills the adapter,
which ends the stream and wakes the process watcher. A command that finds no daemon
spawns one and dials again; the MCP server makes its calls the same way, one connection
per call, several for a composite tool.

What makes each correct:

* session: a waiting command is always told (no lost wakeup), is never told an old
  stop, and every way a session ends releases everybody; the facts of an end
  (reason, exit code) are complete, final and the same wherever they are kept;
* configurationDone goes to the adapter once, before anything resumes;
* manager: a client that names no session reaches a live one; no request finds a
  session that is being closed; no adapter process is lost; nobody waits for ever;
* DAP client: no call is forgotten, no entry leaks, no channel is closed twice;
* breakpoints: the adapter holds what the session has recorded; an id of the adapter is
  never recorded for the wrong breakpoint; temporary breakpoints go away;
* inspection: an answer shows one stop of one session; the location shown is that of
  the present stop;
* buffers: the newest entries are kept, and a client that follows a log gets each once;
* daemon: crashes and shutdowns never leave files that block the next daemon; a session
  that nobody stopped is lost only with its daemon; `daemon stop` means stopped; a daemon
  has the policy of one MCP server, whole, whoever spawned it;
* MCP server: every request gets one reply; a read-only server only reads; a composite
  stays with one session and reads at the stop it reports.

## 2. Modules

| Module | Models |
|---|---|
| `Session` | one session: pump, watcher, waiters, deferral, the execution handlers of several clients, the adapter and the program (external) |
| `SessionProofs` | the theorems about `Session`: its waiters, ends and types, then its event stream, calls and configurationDone |
| `SessionTable` | abstract: a set of live ids and a default that is one of them, changed by whole operations |
| `SessionManager` | the manager, the creation and removal of sessions, the watch file; implements `SessionTable` |
| `SessionManagerProofs` | the theorems about `SessionManager`, the refinement among them |
| `CallService` | abstract: calls that end once, with the answer to their own request or an error, and when an error is allowed |
| `DapClient` | callers, reader, subscription and `Close` of one DAP client, the adapter at the other end (external); implements `CallService` |
| `DapClientProofs` | the theorems about `DapClient` |
| `Breakpoints` | the line breakpoints of one file, the function breakpoints and the exception filters of a session, the handlers and goroutines that change them, the adapter's sets and the program (external) |
| `BreakpointsProofs` | the theorems about `Breakpoints` |
| `Inspection` | the inspection commands of several clients on several sessions, with the adapters' frame ids and references (external) |
| `InspectionProofs` | the theorems about `Inspection` |
| `Buffers` | the two logs of a session, the pump that fills them and a client that polls one |
| `BuffersProofs` | the theorems about `Buffers` |
| `Daemon` | daemon processes, socket, pid and policy file, clients that dial, spawn and stop |
| `DaemonProofs` | the theorems about `Daemon` |
| `Mcp` | the MCP server, composed with `SessionTable` for the daemon's sessions, other clients and the programs |
| `McpProofs` | the theorems about `Mcp` |
| `MCSession`, `MCSessionManager`, `MCDapClient`, `MCBreakpoints`, `MCInspection`, `MCBuffers`, `MCDaemon`, `MCMcp` | model values and symmetry for TLC |

The grain is the same everywhere: what the code does while it holds a lock, and up
to the next lock, call or channel operation, is one action. A handler is a program
counter `pc[h]` with the locals it needs; the DAP call of a handler is two actions,
one that sends and one that goes on with the answer, the error or the timeout.
Commands that differ only in the request they send are one: `next`, `step` and
`finish` are "step".

**Session.** A stop of the program is a number: it stands for the thread, reason
and ids of a `StoppedEvent` and for the location fetched while the program stands
there, so that "the location of another stop" can be said. `stopEvent` is a record
of kind, stop, code and location; the event the watcher makes up is of kind "died".
`installStateWaiter` and `notifyWaiters` are operators used by every action that
calls them; a waiter that gave up by timeout in `StopWaiter.Wait` stays in the list
(`abandoned`), one in `WaitForStop` is taken out, as in the code. `Pump` is
`handleEvent` for one event, `WatchAdapterExit` the goroutine of the same name.
Events travel through a subscription of capacity `SubCap` that drops when it is full
(`lost`). The adapter serves requests in order, may refuse them, and may die at any
moment; whatever it had sent can still be handled, in part or in full. The end of the stream
releases the calls that are pending then (`ReleasePending`) and does not close the client: a call
made afterwards fails with its write or, over TCP, is written into nothing and ends by its own
timer (`CallTimer`), which is why this timer is never switched off. A launched
session begins with the settling wait of `handleStart`, an attached one with
configurationDone deferred. The thread list that `handlePause` asks for when the
current thread is 0 is not modelled: `CurrentThread` returns 1 in that case.

**SessionManager.** A session is an instance with a process (none, up, down); an id
is a name the user gave or a generated one. A start goes through `Reserve`, the
spawning of the adapter, `validateName`, the handshake, `register`, `LoadWatches`
and the settling, and may fail at each with the `Close` the code makes there. `mu` is
held from `RemoveBegin` to `RemoveEnd`, the seconds `Close` takes; everything else
under the lock is one step. The watch file is the set of saved expressions or none.

**DapClient.** A response channel is "filled" or "shut"; the reader is at one of the
points between which `dispatch` releases the lock. Sending on a closed channel sets
`panicked`. The position of a caller tells whether it has entered its call in the
table, written the request, or waits. `CallService` has neither table nor channels nor
reader: an answer is on its way from the adapter to its caller, and is lost only when nobody
waits for it or when the connection is no longer `whole` (the client closed, the adapter dead or
the stream unreadable). Only then, or by its timer, may a call fail.

**Breakpoints.** A breakpoint is its local id with line, modifier, once and the
adapter's id. Map iteration has no order, so the list a handler reads is any
listing of the table. `handleUnbreak` sends conditions only; `break`, `until`,
`clearOnceAt` and `clearOnceBPs` send all modifiers. The adapter numbers breakpoints
anew with every request or keeps the numbers (`FreshIds`), and fills
`hitBreakpointIds` or not (`HitIds`). Function breakpoints and exception filters go the
same way, each in a request of its own; `unbreak` does not touch them. The program stops
at breakpoints, in functions with one and on exceptions, with the reason the adapter gives:
`clearOnceAt` is called after stops whose reason is "breakpoint" only. Other stops are the subject of
`Session`. `Stop` kills the adapter and resets the tables in one step.

**Inspection.** A command is a chain of adapter requests (`plan`): which ones, with
which fallbacks, and what it goes on with after a failed one is the translation of each
handler. A frame id is the number of the stop it was issued at and a variables reference
the epoch it was issued in, so that `data`, the stops an answer was put together from,
can be followed. `runInspect` looks the session up, takes its `inspectMu`, and the handler
looks it up again: the two are separate steps, as the default may change between them.
`watch`, `source` and the execution commands run without the lock. The adapter refuses ids
that have expired; `Invalidates` says which requests make it drop its references and
`Reuse` whether it hands out numbers again. A request and its answer are one step.

**Buffers.** An entry is its number, timestamp, category and length. The pump writes an
event to the event log and then, if it is output, to the output log. The client follows
one of the logs with the timestamp of the last entry it got. Both sides use
RFC3339Nano, which keeps the timestamp exactly; `Coarse` lets two entries have the same.
The loops of `Outputs`, `Events` and `tailByCategory` are recursive functions over the positions of the
log; `Fits`, the reference for the tail, is stated with sums over the log instead.

**Daemon.** Every system call on a shared file is a step, and a process may die before
each. Pids are not reused. A socket is identified by the daemon that bound it, as
`os.SameFile` does by inode. A daemon that ends leaves its files behind, since `os.Exit` runs
no deferred call. A session is an entry of its daemon, made by a start, and removed by `stop`, by an end
within the settling of the start (`StartEnds`), or with the daemon. A policy gives a set of variables their values.
`sl-dbg mcp` exports all of them, the options given and defaults for the others, sets them in its own environment
and replaces the file; a daemon has the variables of whoever spawned it and takes the missing ones from
the file as it is when the daemon loads it (`Overlay`). A terminal may have set some by hand (`UserEnv`).
`overlapped` records that a daemon passed the pid check while another was
between its own check and its pid file.

**Mcp.** A tool is its name with the facts its handling depends on: hidden from a read-only
server, required arguments, strict decoding, session argument. Arguments are valid or of
one of the classes `validateArgs`, the decoding or the allowlist refuse. A request is then
a list of daemon calls, each of which may fail, and between which other clients and programs
move; `handleSessions` is two steps, as it reads the default and the list under two
acquisitions of the lock. The stops of a session are numbered. What the program does (`prog`, `stop`) and what
the daemon has recorded of it (`st`, `seen`) are apart: a resume changes the first only, the record follows by events
(`HandleEvent`), each stop by one, a resumption by one that need not come. So `state` may tell of a pause that
is over, and a stop on its way may answer a `continue` sent after it. An answer carries the session and the stop it
tells of; `state` tells of none when the program is no longer there. The classes of commands (`Observing`, `Evaluating`,
`Changing`) follow what the handlers do: listing the watches evaluates them.

`PROJECT.json` ("map") names the source lines of every definition.

## 3. What is checked

### Runs that pass

| Run | Instance | Shows |
|---|---|---|
| `SessionCommands` | 2 clients, 2 commands, 2 stops, launch and attach, timeouts | no lost wakeup (`WaiterAccounted`); an end releases everybody (`TerminalReleasesWaiters`) and leaves complete, agreeing and final facts (`TerminalHasFacts`, `ExitCodeAgrees`, `ExitedIsFinal`); no stale stop answers a resume (`FreshStop`) |
| `SessionLive` | attached Java session, 2 clients, 2 commands, 2 stops, calls time out only with nobody left to answer them, fair | the waiter precedes the resume (`StopInFlight`); configurationDone is sent once and before `until` resumes (`ConfigurationDoneOnce`, `UntilIsConfigured`); a stop is reported without the help of a timer (`StopIsReported`), and an adapter's death frees every handler, by the watcher and the end of the stream, or by the timer of a call made after that end (`AdapterDeathFreesHandlers`) |
| `Manager` | 2 clients, 2 starts, 2 other requests, one user name, cap 2, fair | the manager implements `SessionTable` (`ImplementsTable`); a session that is found is open (`FoundIsOpen`); no unnamed adapter is lost (`AdapterReachable`); every request returns (`RequestsReturn`) |
| `DapCalls` | 2 callers, 3 calls, 1 event, subscription of 1, timeouts, fair | no call is forgotten (`CallAccounted`), the table does not leak (`PendingOwned`), a response channel is closed once (`ResponsesSafe`), `Close` releases all (`CloseReleases`); the client implements `CallService` (`ImplementsService`): on a whole connection a call fails only by its timer, and no answer is lost on the way to a call that waits for it |
| `BreakIds` | 2 clients, 1 cleaning goroutine, 3 breakpoints, 3 commands, 1 stop, failing calls | an adapter's id is recorded for its own breakpoint (`DapidOwn`); `until` takes its breakpoint back on every path (`UntilCleansUp`) |
| `BreakSync` | 1 client, 2 lines, 2 breakpoints, 1 exception filter, 5 commands, 3 stops | adapter and session agree after every command (`InSync`); `continue` reports a once breakpoint once (`OnceReportedOnce`), by `clearOnceAt` alone, as the adapter gives no hit ids |
| `Inspect` | 2 clients, one of them also resuming, 2 sessions (one Java, one read-only), 3 commands, 2 stops each | an answer shows one stop (`OneStop`); the recorded location is that of the present stop when one client at a time resumes (`LocationCurrent`); the lock keeps other chains away from the references of a chain (`Undisturbed`) |
| `Buffers` | logs of 3 and 2 entries, 4 events, coinciding timestamps | the newest entries are held, and a client that polls gets each once, in order, but for those recorded later with the timestamp its poll ended on (`PollGetsAll`); a tail is the longest that fits, where no entry alone exceeds the budget (`TailFits`) |
| `DaemonLife` | 2 clients, 2 daemons, 1 crash, 3 commands, 2 policies of 3 variables, one of which a terminal may set; symmetric in the clients and in the two variables the policies differ in | no daemon wedges the socket (`NotWedged`), a session that was not stopped is lost only with its daemon (`LostOnlyWithDaemon`), `daemon stop` returns when the old daemon is out of reach (`StopReleases`) and does not wait for its replacement (`StopNotStuck`), a daemon has the policy of one MCP server, below what its terminal had set, and none only if none had been saved (`OnePolicy`) |
| `Mcp` | 2 sessions, 2 requests, 1 move of other clients or end of a program, 2 stops of one session, fair | one reply per message with an id but initialized and exit, in order (`RepliesInOrder`) and in the end (`Answered`); a read-only server sends only commands that read, and the listing of watches (`ReadsOrLists`); composites read at the stop they report (`OneStopShown`, with its exceptions), and always in one session once it was resolved (`StaysWithSession`) |

The type invariants of `SessionManager`, `DapClient`, `Breakpoints`, `Inspection`, `Buffers`, `Daemon` and
`Mcp` hold on these instances too; they are not part of the runs but proved (section 4).

Every property has a mutant: a faulty variant of one definition, kept next to it in
the module and marked as such, under which TLC finds the property violated.

Bounds. Two clients are enough for every race the code has: no step of a handler
depends on more than one other actor, and the pump, the watcher, the reader and the
cleaners come on top of the clients. Two stops let an old stop meet a new one; with
`MaxCmds` 2 each client acts once or one acts twice. A capacity of 1 or 2 instead of
64 makes the full subscription happen. Three calls on two callers let a caller meet
the late answer of its own earlier call. Two starts and two other requests let a
session be removed under another's hands and a new one take its place. One cleaner
is enough as a stop hands work to one goroutine; a second stop finds it busy and the
model then waits, which drops interleavings but adds none. Bounds are guards (`MaxStops`,
`MaxCmds`, `MaxStarts`, `MaxOps`, `MaxSeq`, `MaxEvents`, `MaxBPs`, `MaxRecords`, `MaxDaemons`,
`MaxFaults`, `MaxCalls`, `MaxRequests`, `MaxMoves`, `MaxExprs`): a bounded system stops when they
are used up, so the runs do not check for deadlock; that nobody is stuck is what the
liveness properties say.

`Inspect` has two sessions so that the default can change under a chain, and three
commands so that a chain meets a second chain and a resume. Logs of two and three entries overflow
with the four events. Two daemons are one that crashes or is stopped and its replacement;
the run has the states in which they come up at once, where `OneDaemon` below fails, and so the
waiting of `daemon stop` for a pid that is still alive. Three commands are two starts and a `daemon stop`, or a start, a
stop of its session and a question about it; the theorems have any number of each. Two policies that differ in both
variables and a terminal that sets one of them make every mixture possible. In
`Mcp` one move of another client between any two calls is enough to change the default, stop or
resume the session; two requests let the second meet what the first left. Two stops of one session let a stop be on
its way while the program runs into the next (`MaxStops` is per session); the other session is there to be
chosen, to end and to be removed.

Fairness. `Session`: the pump, the watcher, the adapter's request loop and every
handler are weakly fair: they are goroutines the Go scheduler runs, and an adapter
that is up and answers. The program need not stop and clients need not ask. Of the timers only that of a call
nobody can answer any more is there: it fires as part of the handler's own step, as Go's timers do. `SessionManager`: handlers are strongly
fair, since they take a `sync.RWMutex`, whose waiters are not starved. `DapClient`: reader and
callers are weakly fair; nothing is assumed of the adapter or of timers. `Mcp`: the server's own
steps are weakly fair; a daemon call returns since every wait of the daemon has a timeout, which
may fire here at any time; other clients, programs and stdin owe nothing. `Breakpoints`, `Inspection`,
`Buffers` and `Daemon` state no liveness and assume none.

### Runs that show a disagreement

| Run | Shows |
|---|---|
| `SourcePanic` | `source` asked for a line far beyond the end of the file slices `lines[start:end]` with start after end (`SourceWindow`) |
| `McpPhantom` | `explain_pause` describes a pause of a session that is gone or still initializing (`NoPhantomPause`) |

`PROJECT.json` ("findings") quotes the line each contradicts.

### Further disagreements

Met while modelling and refuted by TLC with the property named, which is kept in the
module, on an instance like the ones above:

| Property | What happens | Contradicts |
|---|---|---|
| `Session!NoStalePause` | a stop queued when the adapter's death was recorded turns a terminated session back to paused (`session.go:715`) | `session.go:573` |
| `Session!TerminalRepliesAgree` | `state` and `listen` can report different facts of one end (`session.go:766`) | `docs/COMMANDS.md:129` |
| `Session!PauseTimeoutMeansRunning` | `pause` looks at the state, then waits for a stop that has passed, and reports a timeout on a paused program (`server.go:896`) | `server.go:907` |
| `SessionManager!NameUnique` | of two concurrent starts with one name the first is lost from the table, its adapter running (`session.go:655`) | `session.go:670` |
| `DapClient!NoPanic` | the reader sends on a subscription that `Close` has closed (`client.go:145`) | `docs/CONTRIBUTING.md:73` |
| `Breakpoints!InSync`, two clients | of two concurrent `break` commands in one file one breakpoint is answered with success and not set (`server.go:563`); likewise of two `break-fn`, and two `break-ex` may leave the recorded filters different from the adapter's | `server.go:549` |
| `Daemon!OneDaemon`, two starting at once | both find no live pid; the later unlinks the socket of the first, which goes on with its sessions, out of reach (`server.go:127`) | "Refuse to start if another daemon is alive", `server.go:125` |
| `Inspection!UnderOwnLock` | the default changes between the two lookups and a chain runs on one session under the lock of another (`server.go:77`) | `server.go:69` |
| `Session!ConfigurationDoneOnce`, timeouts on | a configurationDone that timed out is sent again though it was served (`session.go:465`) | "exactly once", `session.go:456` |
| `Session!TimeoutMeansRunning`, Java, timeouts on | after such a retry `continue` skips its resume and times out on a program that stands at a stop (`server.go:802`) | `docs/DESIGN.md:176` |
| `Session!PausedMeansStopped` | without a `ContinuedEvent` the session stays paused while the program runs (`session.go:757`) | `docs/COMMANDS.md:93` |
| `Session!LocationOfPause` | the location of an earlier stop is recorded for the present one (`server.go:825`) | `docs/DESIGN.md:187` |
| `SessionManager!CapRespected` | two starts pass `Reserve` before either registers (`session.go:196`) | `docs/COMMANDS.md:377` |
| `SessionManager!EarlyRemovalIsOwn` | a start whose program ended removes by id a session that is not its own (`server.go:365`) | `server.go:361` |
| `SessionManager!UnloadedKeepsFile` | a stop between `register` and `LoadWatches` deletes the saved watches (`session.go:364`) | `session.go:253` |
| `DapClient!Sequential` | requests of one session overlap (`client.go:163`) | `docs/DESIGN.md:187` |
| `Breakpoints!InSync`, modifier "hit" | `unbreak` drops hit counts and log messages of what stays (`server.go:749`) | `docs/COMMANDS.md:140` |
| `Breakpoints!OnceReportedOnce`, `HitIds` | two goroutines synchronise after one hit; the older list sets the once breakpoint again (`session.go:752`) | `docs/COMMANDS.md:142` |
| `Breakpoints!InSync`, calls fail | after a resume that failed `until` removes its breakpoint from the table and leaves it in the adapter (`handlers_v2.go:779`) | "Clear the temp BP regardless", `handlers_v2.go:784` |
| `Buffers!TailWithinBudget` | the newest entry that says anything is quoted whole, even if it alone exceeds the budget (`session.go:1160`) | "up to maxBytes worth", `session.go:1128` |
| `Mcp!OneStopShown` without `~disturbed` | `inspect_at`: a stop whose event was on its way when the `continue` went out answers it; the program has left that stop, and what is read is of another or fails (`composites.go:145`). The same by another client's resume | "expressions to evaluate at the pause", `composites.go:40` |
| `Mcp!OneStopShown` without `told # 0` | `explain_pause`: after a resume that the adapter did not report, `state` still says paused and the frames read are of the next stop (`composites.go:205`) | as `Session!PausedMeansStopped` |
| `Mcp!ReadsOrLists` without `"watch list"` | a read-only server's `explain_pause` has the daemon evaluate the stored watches in the program, and the `watch` context "does not prevent side effects" (`docs/SECURITY.md:33`; `handlers_v2.go:174`) | "can observe but never perturb the target", `mcp/server.go:330` |
| `Mcp!RepliesInOrder` without `mute` | `initialized` and `exit` are not answered even when they come with an id (`mcp/server.go:134`, `171`) | JSON-RPC 2.0, which the server speaks: a request with an id is answered |
| `Daemon!LostOnlyWithDaemon` for "respawned" without `ended` | a daemon younger than five minutes whose last session was stopped answers DAEMON_RESPAWNED for it, though it has not been respawned (`server.go:61`) | `docs/COMMANDS.md:347`: SESSION_NOT_FOUND is "unknown / already stopped" |
| `Breakpoints!NoPanic` | `PutBP` after `Close` writes to a nil map (`session.go:1022`) | `docs/CONTRIBUTING.md:73` |

Seen in reading only:

* `unbreak` never removes function breakpoints although "`--all` removes all"
  (`docs/COMMANDS.md:181`); breakpoints are said to be "replayed on restart"
  (`session.go:100`) and `handleRestart` replays nothing; `SaveWatches` is said to do
  nothing without watches and removes the file;
* `inspect_at` reads at whatever pause its `continue` reports, not only at the line it
  was given; `run_until_break` and `inspect_at` leave their breakpoint behind when it does not
  verify or the `continue` fails;
* the prompt `trace_call_path` names a tool `debug_run` that the server does not have
  (`surface.go:205-233`);
* the tools `source`, `watch` and `print`, which require no argument, fail when `arguments`
  is absent, since their decoding is strict;
* the policy that a safe MCP server saved is loaded by every later daemon, those started
  for insecure use too; a variable set in the terminal that happens to spawn the daemon wins over it
  (`policy.go:307`, as documented), so what a safe MCP server asked for also depends on who respawns its
  daemon.

## 4. What is proved

`SessionProofs`, for every set of handlers and codes and every bound:

| Theorem | States |
|---|---|
| `TypeCorrect` | `Spec => []TypeOK` |
| `Invariance` | `Spec => []Inv` |
| `NoLostWakeup` | `Spec => []WaiterAccounted` |
| `TerminalReleases` | `Spec => []TerminalReleasesWaiters` |
| `TerminalFacts` | `Spec => []TerminalHasFacts` |
| `ExitCodesAgree` | `Spec => []ExitCodeAgrees` |
| `UntilConfigured` | `Spec => []UntilIsConfigured` |

The only assumption is `SessionAssumption` (the ranges of the constants).
`Inv` is the conjunction of `WaiterAccounted`, `TerminalReleasesWaiters`,
`ExitCodeAgrees` and three strengthenings. `ControlInv` says on which paths a
command may be: without it a handler in the midst of `EnsureConfigurationDone` might
be an `until`. `ConfiguredInv` says that a recorded location, or a handler past
`EnsureConfigurationDone`, implies that configurationDone is no longer deferred:
this is why `until`, which never calls it but needs a location, is safe. `FactsInv`
adds to `TerminalHasFacts` that a handler which has *seen* a terminal state will find
the record when it reads it under a second acquisition of the lock. Each conjunct has
a lemma that every action preserves it; types go first, one lemma per group of
variables.

`SessionManagerProofs`, for every set of clients, ids and watch expressions and every
bound, from `ManagerAssumption` (user names are ids, "no id" is not one, the ranges of
the bounds):

| Theorem | States |
|---|---|
| `Invariance` | `Spec => []Inv` |
| `TypeCorrect` | `Spec => []TypeOK` |
| `FoundOpen` | `Spec => []FoundIsOpen` |
| `Reachable` | `Spec => []AdapterReachable` |
| `Refinement` | `Spec => ImplementsTable` |
| `DefaultLives` | `Spec => []Table!DefaultIsLive` |

`FoundIsOpen` alone is not inductive: it says nothing while the lock is held. `LockInv`
ties the lock to the handler between `RemoveBegin` and `RemoveEnd`; `RemovingInv` keeps
what that handler works on in the table, `OpenInv` makes it the only entry that may have
lost its adapter. `AdapterReachable` must survive a removal, so an entry has to be under
its own session's id (`EntryInv`), no other instance may have that generated id (`NameInv`,
`IdInv`), and an instance under construction must belong to one handler and be in
nobody else's reach (`CreatorInv`, `OneCreator`). `TableStep` maps every step to
an abstract one or to none: `Register` adds, `RemoveEnd` drops and promotes, `Use`
chooses. `DefaultLives` is proved of the abstract steps and holds of the manager by
the refinement.

`DapClientProofs`, for every set of callers and every bound, from `DapAssumption`:

| Theorem | States |
|---|---|
| `Invariance` | `Spec => []Inv` |
| `TypeCorrect` | `Spec => []TypeOK` |
| `NoCallForgotten` | `Spec => []CallAccounted` |
| `NoLeak` | `Spec => []PendingOwned` |
| `ResponseChannels` | `Spec => []ResponsesSafe` |
| `Refinement` | `Spec => ImplementsService` |
| `CallsEndWell` | `~Timeouts => (Spec => [][CallEndsWell]_vars)`, an action property |

Sequence numbers are handed out once, so what is pending, delivered or closed lies
below the counter (`SeqInv`) and no two calls share a number (`MineInv`): a new
entry is never one that was closed. `CallInv` extends `CallAccounted` to a call that
has not written yet, since `Close` may come between the entry and the write. For the refinement
two more are needed. `WayInv`: a request is in one place on its way to the adapter and back, so the
answer a caller takes is gone from the wire and from the reader's hands. `ShutInv`: the channel
of a call in progress is closed without an answer only by `Close` or by the end of the stream.
`ServiceStep` then maps `Send` to `Begin` or `Refuse`, `CallReturns` to `Succeed` or `Fail`, a
response that `Read` finds no entry for to `Lose`, and `Close`, `ReadFails` and `Die` to `Break`; what goes on
between table, reader and channels is not seen. `CallsEndWell` is proved of the steps of the
service: without timers, a call that ends on a whole connection has the answer to its own
request.

The second half of `SessionProofs`, from the same assumption as the first:

| Theorem | States |
|---|---|
| `StreamInvariance` | `Spec => []StreamInv` |
| `StopsAreFresh` | `Spec => []FreshStop` |
| `ExitIsFinal` | `Spec => ExitedIsFinal`, an action property |
| `ConfiguredOnce` | `~Timeouts => (Spec => []ConfigurationDoneOnce)` |
| `StopsInFlight` | `~(Java /\ Timeouts) => (Spec => []StopInFlight)` |

The five things that can happen to the stream of events are collected in moves, and each
conjunct is shown move by move. Stops arrive in order and none that the session knows of
arrives again (`StopsInv`), so a waiter installed at a pause gets a later one
(`SinceInv`). Nothing but a terminated event follows an exited event (`EndInv`). A call is
answered once and by its own request (`CallsInv`), the lock of `EnsureConfigurationDone` has
one holder (`LockInv`), and with these a resume that was answered has let the program go
(`FlightInv`). The hypotheses are those under which the code does what is stated: with
timeouts TLC refutes `ConfigurationDoneOnce`, and in a Java session `StopInFlight` (section 3,
further disagreements). Each hypothesis is only as strong as that: `StopsInFlight` has all
sessions without timeouts, and all others with them.

`DaemonProofs`, for any number of clients, daemons, crashes, commands, variables and policies, from
`DaemonAssumption` and `PolicyAssumption` (an MCP server has a default for every variable):

| Theorem | States |
|---|---|
| `TypeCorrect` | `Spec => []TypeOK` |
| `NeverWedged` | `Spec => []NotWedged` |
| `ServesAlone` | `Spec => [](~overlapped => OneDaemon)` |
| `SessionsKept` | `Spec => []LostOnlyWithDaemon` |
| `StopIsFinal` | `Spec => []StopReleases` |
| `StopReturns` | `Spec => []StopNotStuck` |
| `PolicyWhole` | `Spec => []OnePolicy` |

A daemon only moves forward, so what was once read from a file keeps saying the truth about
its daemon (`FileInv`), and a socket that has left the path does not come back (`OrigInv`,
`GoneInv`): that is why `daemon stop` may trust two looks at the path. `Exclusive` is the mutual
exclusion that pid file and socket give together as long as no two daemons come up at once;
`ServesAlone` says that this race is the only hole. `StopReleases` and `OnePolicy` hold in
spite of it. `SessionsKept` needs that a session is in the table of the daemon that made it until it is removed by its own
name (`HeldInv`). `PolicyWhole` rests on `PolicyFacts`: an export
has a value for every variable, so laid over any file it stays what it is, and the file is always one export or
empty; a daemon that was spawned after a policy was saved finds one.

`BreakpointsProofs`, for any number of clients, cleaning goroutines, breakpoints, lines and
filters, with failing calls and with both ways of an adapter to number, from
`BreakpointsAssumption`:

| Theorem | States |
|---|---|
| `Invariance` | `Spec => [](TypeOK /\ Inv)` |
| `TypeCorrect` | `Spec => []TypeOK` |
| `IdsStayWithTheirOwn` | `Spec => []DapidOwn` |
| `UntilLeavesNothing` | `Spec => []UntilCleansUp` |
| `SyncInvariance` | `OneClient => (Spec => [](TypeOK /\ Inv /\ SyncInv))` |
| `BreaksInSync` | `OneClient /\ "hit" \notin Mods => (Spec => []InSync)` |
| `OnceIsOnce` | `OneClient => (Spec => []OnceReportedOnce)` |

`DapidOwn` is far from inductive: ids arrive in an answer, are matched by position with a list
read before the call and written after the lock was released. The argument follows the list: a
request that still has a caller lists the breakpoints in the order the caller remembers
(`RequestInv`), there is one such request per caller (`UniqueInv`), its answer numbers them in
that order (`AnswerInv`) with ids that are theirs for good (`PlacedInv`), and local ids are never
given out again (`MineInv`, `TableInv`). `StageInv` says which command a goroutine may be at
which point of.

The last three are about one client whose adapter reports no hit ids and whose calls do not fail
(`OneClient`), with any number of lines, breakpoints, filters, commands and stops. Each part of
the hypothesis is one that TLC needs to be true: two clients break `InSync`, a cleaning goroutine beside
the handler sets a once breakpoint again, a failed call leaves table and adapter apart, and `unbreak`
drops hit counts (section 3, further disagreements). `SyncInv` says at which points of which
command table and adapter may differ, and by what: for the lines (`LinesInv`, `PlacesInv`, `ModsInv`), the
functions (`FuncsInv`) and the filters (`FiltersInv`). `ProgramInv` follows the program from a resume to
the stop that is reported, and `OnceInv` says that once a once breakpoint has been reported it is on its way
out of the table, and gone from the adapter before the program can be resumed.

`InspectionProofs`, for any number of clients, sessions and stops, from
`InspectionAssumption` (the ranges of the constants; the set of connections is finite):

| Theorem | States |
|---|---|
| `Invariance` | `Spec => []Inv` |
| `TypeCorrect` | `Spec => []TypeOK` |
| `AnswersShowOneStop` | `Spec => []OneStop` |
| `LocationIsCurrent` | `Spec => []LocationCurrent` |
| `ChainsUndisturbed` | `Spec => Undisturbed`, an action property |

The shape of the chains comes first (`Chain`): what sets out from the present stop comes before
anything is shown, a location is recorded right after it was asked for. Then each job is compared
with its adapter: what it shows was seen between its frame and now (`DataOk`), and a reference is
of the past, and if still valid, of the stop shown (`RefOk`). A client may bring a reference of
another session, whose numbers mean nothing here: until its first use it is excepted, and the use
either fails or makes it a reference of this session. `AnswerAges` shows that no step of anybody
else disturbs this. `LocationCurrent` needs that between the location and its record nobody
resumes (`RecordInv`), which is where the single executing client comes in. `Undisturbed` follows
from `LockInv`: two chains do not hold one session's lock.

`McpProofs`, for any set of sessions and any number of requests, moves of other clients and
expressions, from `McpAssumption`:

| Theorem | States |
|---|---|
| `Invariance` | `Spec => [](TypeOK /\ Inv)` |
| `TypeCorrect` | `Spec => []TypeOK` |
| `OneReplyEach` | `Spec => []RepliesInOrder` |
| `ReadOnlyObserves` | `Spec => []ReadsOrLists` |
| `CallsStay` | `Spec => []StaysWithSession` |
| `CompositesAgree` | `Spec => []OneStopShown` |

`StageInv` and `ShapeInv` say how far a request has got and in which order the calls of a
composite come, `AwaitInv` that a waiting call waits on the session it was meant for, and `CountInv` that the request
in progress is the last one read, which `RepliesInOrder` needs to go from one reply to the next. The rest is for
`OneStopShown`. `WaitInv`: a program that was resumed with all its stops on record is at most one stop ahead of the
record, so the stop a waiter is told of is the one at which the program stands; with a stop on its way at the
resume this is false, which is the exception the property makes. `HoldInv`: from the answer a composite rests on
until its last call the program stays at the stop of that answer, since it cannot leave a stop by itself, the server does not
resume it, and another client that does is excepted too. Nothing is needed of the recorded state: it may be stale
throughout. `ReadsOrLists` goes over every tool of the registry (`Tools`).

`BuffersProofs`, for logs of every size, any output and any number of events, from
`BuffersAssumption`:

| Theorem | States |
|---|---|
| `Invariance` | `Spec => []Inv` |
| `TypeCorrect` | `Spec => []TypeOK` |
| `PollsGetAll` | `Tails \subseteq {0} => (Spec => []PollGetsAll)` |
| `TailsFit` | `Spec => []TailFits` |

A client that asks for a tail skips entries of its own will, hence the hypothesis of `PollsGetAll`.
The logs hold the newest entries in the order of their numbers and of their timestamps (`Held`), so
what a poll returns is an end of the log (`NewerIsTheEnd`), and the client has everything up to its
cursor that it could get and nothing beyond (`Caught`, in `ClientInv`). `TailsFit` compares the loop of
`tailByCategory` with sums over the log: what has been taken is an end of the category's entries
that is small enough, or a single entry, and once the loop has broken off no longer end would do (`Took`); where no
entry alone exceeds the budget the single entry is small enough too (`FitsFrom`). The loops
need induction over the log. It is done without the library's induction rules, whose
parameter is an operator: `Least` says that a non-empty set of naturals has a least element
(from the well-foundedness of `<`), `Climb` that a set which has 0 and with each number the next contains
them all, and `Loop` that a recursive function over positions exists and has the values its
definition gives.

Every inductive invariant was checked by TLC on the runs of its module before it was proved.

Only model-checked are the liveness properties (`AdapterDeathFreesHandlers`, `StopIsReported`,
`RequestsReturn`, `CloseReleases`, `Answered`): they rest on fairness, which is out of the prover's
reach.

## 5. Not modelled

* Hit counts and the verified flag of a breakpoint: no step depends on them.
* What a policy allows (matching of paths and patterns), redaction and the audit log:
  string processing and output. How a policy reaches a daemon is in `Daemon`.
* The bytes of a DAP or JSON frame, and so the interleaving of two writers on one stream
  (`client.go:166`).
* The adapter registry, the command line's flags and output, the installers and the
  protocol types: they hold no state that several actors share.
* The reuse of a pid by an unrelated process, which would make `isPidAlive` true, and a
  wall clock that is set back.
* The text of replies, prompts and resources.

## 6. What could follow

`Session` has its own picture of the calls to the adapter and of the event subscription. It could be put on
top of `CallService`, extended by the promise about events (they arrive in order or are
dropped at the end of a full subscription), so that the theorems about `Session` rest on what is proved of
`DapClient` and no longer on a second model of it.
