------------------------------ MODULE Session ------------------------------
(***************************************************************************)
(* One debug session of the sl-dbg daemon: the execution state that        *)
(* session.go keeps under Session.mu, the event pump that updates it from  *)
(* DAP events, the goroutine that watches the adapter process, the         *)
(* one-shot stop waiters, and the command handlers of server.go and        *)
(* handlers_v2.go that resume, pause, observe and stop the program.        *)
(*                                                                         *)
(* A handler runs on the goroutine of its client connection, so the steps  *)
(* of different handlers interleave between any two lock releases.  A stop *)
(* of the program is identified by its number: it stands for the thread,   *)
(* reason and breakpoint ids of the StoppedEvent and for the source        *)
(* location the program has while it stays stopped there.                  *)
(*                                                                         *)
(* The adapter, the program and the DAP stream are external: they are      *)
(* modelled from how the code uses them, as one queue of events on their   *)
(* way to the pump and one inbox of requests served in order.              *)
(***************************************************************************)
EXTENDS Integers, Sequences

CONSTANTS
  Handlers,     \* goroutines serving client connections
  Codes,        \* process exit codes
  Java,         \* TRUE when the session's language is "java"
  Timeouts,     \* TRUE when waits and calls may time out or be cancelled
  SubCap,       \* capacity of the event subscription (64 in dap.Subscribe)
  Modes,        \* how the session came about: "launch", "attach"
  Issued,       \* the commands the clients issue
  MaxStops,     \* bound: how often the program stops
  MaxCmds       \* bound: how many commands the clients issue

ASSUME SessionAssumption ==
  /\ Codes # {} /\ Codes \subseteq Nat
  /\ "no one" \notin Handlers
  /\ Java \in BOOLEAN /\ Timeouts \in BOOLEAN
  /\ Modes \subseteq {"launch", "attach"}
  /\ Issued \subseteq {"continue", "step", "until", "pause", "listen", "state", "stop"}
  /\ SubCap \in Nat \ {0} /\ MaxStops \in Nat /\ MaxCmds \in Nat

VARIABLES
  \* Session fields guarded by Session.mu
  state, lastPause, lastLocation, lastTerminal, exitCode,
  \* the registered stop waiters and their channels
  waiters, abandoned, chan,
  \* configurationDone deferral of attach sessions
  pendingConfigDone, configDoneMu,
  \* is the session in the manager's table?
  registered,
  \* per handler: control, command, locals and the last response
  pc, cmd, seen, configured, since, reply, cmds,
  \* adapter, program and DAP stream
  target, stops, adapter, watched, events, lost, inbox, answer, configs

sessionVars == <<state, lastPause, lastLocation, lastTerminal, exitCode>>
waiterVars  == <<waiters, abandoned, chan>>
configVars  == <<pendingConfigDone, configDoneMu>>
localVars   == <<cmd, seen, configured, since, cmds>>
programVars == <<target, stops, adapter, watched, events, lost, configs>>
callVars    == <<inbox, answer>>
vars == <<sessionVars, waiterVars, configVars, registered, pc, localVars, reply,
          programVars, callVars>>

-----------------------------------------------------------------------------
(* Values.                                                                 *)

Terminal == {"exited", "terminated"}
States   == {"initializing", "paused", "running"} \cup Terminal

\* DAP events and stopEvents.  "died" is the stopEvent that
\* watchAdapterExit makes up: terminated is set and exited holds a code.
Kinds   == {"none", "stopped", "continued", "exited", "terminated", "died"}
\* Only a replayed pause carries a location, that of stop loc (0 = none).
Event   == [kind : Kinds, stop : Nat, code : Nat, loc : Nat]
NoEvent == [kind |-> "none", stop |-> 0, code |-> 0, loc |-> 0]
Ev(k, s, c)   == [kind |-> k, stop |-> s, code |-> c, loc |-> 0]
Paused(s, l)  == [kind |-> "stopped", stop |-> s, code |-> 0, loc |-> l]
TerminalEvent == {e \in Event : e.kind \in {"exited", "terminated", "died"}}

NoCode == -1
NoOne  == "no one"

\* exited != nil in a stopEvent
HasCode(e) == e.kind \in {"exited", "died"}

\* "step" stands for step, next and finish, which only differ in the request.
Exec     == {"continue", "step"}
Commands == Exec \cup {"none", "start", "until", "pause", "listen", "state", "stop"}
Requests == {"configurationDone", "continue", "pause", "stackTrace", "disconnect"}
Message  == [from : Handlers \cup {NoOne}, req : Requests]
Answer   == [st : {"none", "ok", "error"}, stop : Nat]
NoAnswer == [st |-> "none", stop |-> 0]
Failure  == [st |-> "error", stop |-> 0]

\* What a response says: the state it names, the stop or terminal event it
\* reports, and the stop its location belongs to (0 = no location).
Reply   == [cmd : Commands, st : States \cup {"none", "timeout", "error"},
            ev : Event, loc : Nat]
NoReply == [cmd |-> "none", st |-> "none", ev |-> NoEvent, loc |-> 0]

Calling == {"configuring", "resuming", "locating", "disconnecting"}
Labels  == {"idle", "ensure", "arm", "resume", "wait", "locate", "report",
            "listen", "remove"} \cup Calling

\* The handler holds a stop waiter: it installed one and has not returned
\* from the select on it.
Armed(h) ==
  \/ pc[h] \in {"resume", "resuming", "wait"}
  \/ pc[h] \in {"ensure", "configuring"} /\ cmd[h] \in Exec

-----------------------------------------------------------------------------
Init ==
  /\ state = "initializing" /\ lastPause = 0 /\ lastLocation = 0
  /\ lastTerminal = NoEvent /\ exitCode = NoCode
  /\ waiters = {} /\ abandoned = 0 /\ chan = [h \in Handlers |-> NoEvent]
  /\ configDoneMu = NoOne
  /\ registered = TRUE
  /\ seen = [h \in Handlers |-> "initializing"]
  /\ configured = [h \in Handlers |-> FALSE]
  /\ since = [h \in Handlers |-> 0]
  /\ reply = [h \in Handlers |-> NoReply]
  /\ cmds = 0
  /\ stops = 0 /\ adapter = "up" /\ watched = FALSE
  /\ events = <<>> /\ lost = FALSE
  /\ inbox = <<>> /\ answer = [h \in Handlers |-> NoAnswer]
  /\ \/ \* after CreateLaunch: handleStart goes on to WaitForStop
        /\ "launch" \in Modes
        /\ pendingConfigDone = FALSE /\ configs = 1 /\ target = "running"
        /\ \E h \in Handlers :
             /\ pc = [g \in Handlers |-> IF g = h THEN "listen" ELSE "idle"]
             /\ cmd = [g \in Handlers |-> IF g = h THEN "start" ELSE "none"]
     \/ \* after CreateAttach: configurationDone is deferred
        /\ "attach" \in Modes
        /\ pendingConfigDone = TRUE /\ configs = 0 /\ target = "suspended"
        /\ pc = [h \in Handlers |-> "idle"]
        /\ cmd = [h \in Handlers |-> "none"]

-----------------------------------------------------------------------------
(* The stop waiters.                                                       *)

\* Faulty variants: a pause is replayed to every waiter; a terminal event is
\* replayed to none.
InstallStateWaiterReplaying(h, replayPause) ==
  /\ since' = [since EXCEPT ![h] = lastPause]
  /\ UNCHANGED abandoned
  /\ CASE lastTerminal # NoEvent ->
            /\ chan' = [chan EXCEPT ![h] = lastTerminal]
            /\ UNCHANGED waiters
       [] lastTerminal = NoEvent /\ state = "paused" ->
            /\ chan' = [chan EXCEPT ![h] = Paused(lastPause, lastLocation)]
            /\ UNCHANGED waiters
       [] OTHER ->
            /\ chan' = [chan EXCEPT ![h] = NoEvent]
            /\ waiters' = waiters \cup {h}

InstallStateWaiterDeaf(h, replayPause) ==
  /\ since' = [since EXCEPT ![h] = lastPause]
  /\ chan' = [chan EXCEPT ![h] = NoEvent]
  /\ waiters' = waiters \cup {h}
  /\ UNCHANGED abandoned

\* installStateWaiter: replay a terminal event, replay the current pause
\* when asked to, otherwise register, all under Session.mu.
InstallStateWaiter(h, replayPause) ==
  /\ since' = [since EXCEPT ![h] = lastPause]
  /\ UNCHANGED abandoned
  /\ CASE lastTerminal # NoEvent ->
            /\ chan' = [chan EXCEPT ![h] = lastTerminal]
            /\ UNCHANGED waiters
       [] lastTerminal = NoEvent /\ replayPause /\ state = "paused" ->
            /\ chan' = [chan EXCEPT ![h] = Paused(lastPause, lastLocation)]
            /\ UNCHANGED waiters
       [] OTHER ->
            /\ chan' = [chan EXCEPT ![h] = NoEvent]
            /\ waiters' = waiters \cup {h}

\* A faulty variant: the list is not emptied.
NotifyWaitersKeeping(ev) ==
  /\ chan' = [h \in Handlers |-> IF h \in waiters THEN ev ELSE chan[h]]
  /\ UNCHANGED <<waiters, abandoned>>

\* notifyWaiters: every registered channel receives the event, the list empties.
NotifyWaiters(ev) ==
  /\ chan' = [h \in Handlers |-> IF h \in waiters THEN ev ELSE chan[h]]
  /\ waiters' = {}
  /\ abandoned' = 0

\* A handler returns without draining its channel.  WaitForStop removes the
\* channel from the list; the other waits leave it there until the next event.
AbandonWaiter(h) ==
  /\ waiters' = waiters \ {h}
  /\ chan' = [chan EXCEPT ![h] = NoEvent]
  /\ abandoned' = IF h \in waiters /\ cmd[h] \notin {"listen", "start"}
                  THEN abandoned + 1 ELSE abandoned

-----------------------------------------------------------------------------
(* The event pump and the process watcher.                                 *)

\* A faulty variant: nobody is notified.
HandleStoppedSilent(e) ==
  /\ e.kind = "stopped"
  /\ state' = "paused" /\ lastPause' = e.stop /\ lastLocation' = 0
  /\ UNCHANGED <<lastTerminal, exitCode, waiterVars>>

\* handleEvent, StoppedEvent: no look at a terminal state before it.
HandleStopped(e) ==
  /\ e.kind = "stopped"
  /\ state' = "paused" /\ lastPause' = e.stop /\ lastLocation' = 0
  /\ NotifyWaiters(e)
  /\ UNCHANGED <<lastTerminal, exitCode>>

HandleContinued(e) ==
  /\ e.kind = "continued"
  /\ state' = "running"
  /\ UNCHANGED <<lastPause, lastLocation, lastTerminal, exitCode, waiterVars>>

\* A faulty variant: the code is only kept in the terminal record.
HandleExitedNoCode(e) ==
  /\ e.kind = "exited"
  /\ state' = "exited" /\ lastTerminal' = e
  /\ NotifyWaiters(e)
  /\ UNCHANGED <<lastPause, lastLocation, exitCode>>

HandleExited(e) ==
  /\ e.kind = "exited"
  /\ state' = "exited" /\ exitCode' = e.code /\ lastTerminal' = e
  /\ NotifyWaiters(e)
  /\ UNCHANGED <<lastPause, lastLocation>>

\* Faulty variants: the terminal record is left alone, or always replaced.
HandleTerminatedUnrecorded(e) ==
  /\ e.kind = "terminated"
  /\ state' = IF state = "exited" THEN state ELSE "terminated"
  /\ NotifyWaiters(e)
  /\ UNCHANGED <<lastPause, lastLocation, lastTerminal, exitCode>>

HandleTerminatedReplacing(e) ==
  /\ e.kind = "terminated"
  /\ state' = IF state = "exited" THEN state ELSE "terminated"
  /\ lastTerminal' = e
  /\ NotifyWaiters(e)
  /\ UNCHANGED <<lastPause, lastLocation, exitCode>>

HandleTerminated(e) ==
  /\ e.kind = "terminated"
  /\ state' = IF state = "exited" THEN state ELSE "terminated"
  /\ lastTerminal' = IF lastTerminal = NoEvent THEN e ELSE lastTerminal
  /\ NotifyWaiters(e)
  /\ UNCHANGED <<lastPause, lastLocation, exitCode>>

\* startEventPump: the goroutine takes the next event from its subscription;
\* a closed subscription is still drained.
Pump ==
  /\ events # <<>>
  /\ LET e == Head(events)
     IN HandleStopped(e) \/ HandleContinued(e) \/ HandleExited(e) \/ HandleTerminated(e)
  /\ events' = Tail(events)
  /\ UNCHANGED <<configVars, registered, pc, localVars, reply, callVars,
                 target, stops, adapter, watched, lost, configs>>

\* A faulty variant: the waiters are forgotten.
WatchAdapterExitSilent ==
  /\ adapter = "down" /\ ~watched
  /\ watched' = TRUE
  /\ IF state \in Terminal
     THEN UNCHANGED sessionVars
     ELSE \E c \in Codes :
            /\ state' = "terminated" /\ exitCode' = c
            /\ lastTerminal' = Ev("died", 0, c)
            /\ UNCHANGED <<lastPause, lastLocation>>
  /\ UNCHANGED <<waiterVars, configVars, registered, pc, localVars, reply, callVars,
                 target, stops, adapter, events, lost, configs>>

\* watchAdapterExit: proc.Wait returned.
WatchAdapterExit ==
  /\ adapter = "down" /\ ~watched
  /\ watched' = TRUE
  /\ IF state \in Terminal
     THEN UNCHANGED <<sessionVars, waiterVars>>
     ELSE \E c \in Codes :
            /\ state' = "terminated" /\ exitCode' = c
            /\ lastTerminal' = Ev("died", 0, c)
            /\ NotifyWaiters(Ev("died", 0, c))
            /\ UNCHANGED <<lastPause, lastLocation>>
  /\ UNCHANGED <<configVars, registered, pc, localVars, reply, callVars,
                 target, stops, adapter, events, lost, configs>>

-----------------------------------------------------------------------------
(* The adapter, the program and the stream (external).                     *)

\* An event is sent; dap.dispatch drops it when the subscription is full.
Emit(e) ==
  \/ events' = Append(events, e) /\ UNCHANGED lost
  \/ Len(events) >= SubCap /\ lost' = TRUE /\ UNCHANGED events

\* What had not been read from the pipe of a dead adapter is lost.
CutStream ==
  \E n \in 0..Len(events) :
    /\ events' = SubSeq(events, 1, n)
    /\ lost' = (lost \/ n < Len(events))

\* The stream has ended (readLoop) or the client is closed (Client.Close): the
\* calls that were pending then are released with an error.
ReleasePending ==
  [g \in Handlers |-> IF pc[g] \in Calling /\ answer[g].st = "none" THEN Failure
                     ELSE answer[g]]

TargetStops ==
  /\ adapter = "up" /\ target = "running" /\ stops < MaxStops
  /\ target' = "stopped" /\ stops' = stops + 1
  /\ Emit(Ev("stopped", stops + 1, 0))
  /\ UNCHANGED <<sessionVars, waiterVars, configVars, registered, pc, localVars,
                 reply, callVars, adapter, watched, configs>>

\* Some adapters send exited and then terminated, others only terminated.
TargetExits ==
  /\ adapter = "up" /\ target = "running"
  /\ target' = "exiting"
  /\ \E c \in Codes : Emit(Ev("exited", 0, c))
  /\ UNCHANGED <<sessionVars, waiterVars, configVars, registered, pc, localVars,
                 reply, callVars, stops, adapter, watched, configs>>

TargetTerminates ==
  /\ adapter = "up" /\ target \in {"running", "exiting"}
  /\ target' = "gone"
  /\ Emit(Ev("terminated", 0, 0))
  /\ UNCHANGED <<sessionVars, waiterVars, configVars, registered, pc, localVars,
                 reply, callVars, stops, adapter, watched, configs>>

AdapterDies ==
  /\ adapter = "up"
  /\ adapter' = "down" /\ target' = "gone" /\ inbox' = <<>>
  /\ CutStream
  /\ answer' = ReleasePending
  /\ UNCHANGED <<sessionVars, waiterVars, configVars, registered, pc, localVars,
                 reply, stops, watched, configs>>

\* The adapter answers a request whose sender may have given up on it.
Respond(r, st, stop) ==
  answer' = IF r.from = NoOne THEN answer
            ELSE [answer EXCEPT ![r.from] = [st |-> st, stop |-> stop]]

Ignored(r, st) ==
  /\ Respond(r, st, 0)
  /\ UNCHANGED <<target, stops, events, lost, configs>>

ServeConfigurationDone(r) ==
  /\ r.req = "configurationDone"
  /\ configs' = configs + 1
  /\ target' = IF target = "suspended" THEN "running" ELSE target
  /\ Respond(r, "ok", 0)
  /\ UNCHANGED <<stops, events, lost>>

ServeContinue(r) ==
  /\ r.req = "continue"
  /\ \/ /\ target = "stopped" /\ target' = "running"
        /\ Respond(r, "ok", 0)
        /\ UNCHANGED <<stops, configs>>
        /\ Emit(Ev("continued", 0, 0)) \/ UNCHANGED <<events, lost>>
     \/ target = "running" /\ \E st \in {"ok", "error"} : Ignored(r, st)
     \/ target \in {"suspended", "exiting", "gone"} /\ Ignored(r, "error")

ServePause(r) ==
  /\ r.req = "pause"
  /\ \/ /\ target = "running" /\ stops < MaxStops
        /\ target' = "stopped" /\ stops' = stops + 1
        /\ Respond(r, "ok", 0)
        /\ Emit(Ev("stopped", stops + 1, 0))
        /\ UNCHANGED configs
     \/ \E st \in {"ok", "error"} : Ignored(r, st)

ServeStackTrace(r) ==
  /\ r.req = "stackTrace"
  /\ IF target = "stopped" THEN Respond(r, "ok", stops) ELSE Respond(r, "error", 0)
  /\ UNCHANGED <<target, stops, events, lost, configs>>

ServeDisconnect(r) ==
  /\ r.req = "disconnect"
  /\ target' = "gone"
  /\ Respond(r, "ok", 0)
  /\ (target # "gone" /\ Emit(Ev("terminated", 0, 0))) \/ UNCHANGED <<events, lost>>
  /\ UNCHANGED <<stops, configs>>

AdapterServes ==
  /\ adapter = "up" /\ inbox # <<>>
  /\ LET r == Head(inbox)
     IN \/ ServeConfigurationDone(r) \/ ServeContinue(r) \/ ServePause(r)
        \/ ServeStackTrace(r) \/ ServeDisconnect(r)
  /\ inbox' = Tail(inbox)
  /\ UNCHANGED <<sessionVars, waiterVars, configVars, registered, pc, localVars,
                 reply, adapter, watched>>

-----------------------------------------------------------------------------
(* Steps shared by the handlers.                                           *)

Goto(h, l) == pc' = [pc EXCEPT ![h] = l]

\* The handler function returns and its locals go out of scope.
Finish(h) ==
  /\ Goto(h, "idle")
  /\ cmd' = [cmd EXCEPT ![h] = "none"]
  /\ seen' = [seen EXCEPT ![h] = "initializing"]
  /\ configured' = [configured EXCEPT ![h] = FALSE]
  /\ since' = [since EXCEPT ![h] = 0]

Return(h, st, ev, loc) ==
  /\ Finish(h)
  /\ reply' = [reply EXCEPT ![h] = [cmd |-> cmd[h], st |-> st, ev |-> ev, loc |-> loc]]

\* A connection reads its next request and Manager.Get finds the session.
Accept(h, c) ==
  /\ pc[h] = "idle" /\ registered
  /\ c \in Issued /\ cmds < MaxCmds
  /\ cmds' = cmds + 1

Begin(h, c) ==
  /\ Accept(h, c)
  /\ cmd' = [cmd EXCEPT ![h] = c]

\* Close has run to its end: the DAP client is closed.
Closed == ~registered /\ \A g \in Handlers : pc[g] # "disconnecting"

\* dap.Call: the request goes out.  The end of the stream does not close the
\* client: a request sent after it fails when its write does (a pipe), and
\* otherwise (TCP) stays in the pending table with nobody to answer it.  A
\* closed client refuses it.
Send(h, q) ==
  \/ /\ adapter = "up"
     /\ inbox' = Append(inbox, [from |-> h, req |-> q])
     /\ answer' = [answer EXCEPT ![h] = NoAnswer]
  \/ /\ adapter = "down"
     /\ \E a \in {NoAnswer, Failure} :
          /\ Closed => a = Failure
          /\ answer' = [answer EXCEPT ![h] = a]
     /\ UNCHANGED inbox

\* dap.Call gives up: the entry in the pending table goes, the request stays.
Forget(h) ==
  /\ inbox' = [i \in DOMAIN inbox |->
                 IF inbox[i].from = h THEN [from |-> NoOne, req |-> inbox[i].req] ELSE inbox[i]]
  /\ answer' = [answer EXCEPT ![h] = NoAnswer]

\* dap.Call returns the response.
Receive(h) ==
  /\ answer[h].st = "ok"
  /\ answer' = [answer EXCEPT ![h] = NoAnswer]
  /\ UNCHANGED inbox

\* dap.Call's own timer (10 s, 5 s for disconnect).  Without Timeouts it is left
\* out where the adapter will answer, never where nobody can.
CallTimer(h) ==
  Timeouts \/ (adapter = "down" /\ answer[h].st = "none")

\* dap.Call returns an error: the adapter's, that of a failed write or of an
\* ended stream, or its timer's.
CallFails(h) == answer[h].st = "error" \/ CallTimer(h)

-----------------------------------------------------------------------------
(* continue / step / next / finish, until and pause.                       *)

\* handleExec: the waiter is installed before anything that may resume.
ExecBegin(h) ==
  /\ \E c \in Exec : Begin(h, c)
  /\ InstallStateWaiter(h, FALSE)
  /\ Goto(h, "ensure")
  /\ UNCHANGED <<sessionVars, configVars, registered, seen, configured, reply,
                 programVars, callVars>>

\* A faulty variant: the location is not asked for.
UntilBeginAnywhere(h) ==
  /\ Begin(h, "until")
  /\ Goto(h, "arm")
  /\ UNCHANGED <<sessionVars, waiterVars, configVars, registered, seen, configured, since,
                 reply, programVars, callVars>>

\* handleUntil: refuses without a pause location; its breakpoint is set by a
\* call that may fail, and only then is the waiter installed.
UntilBegin(h) ==
  /\ Accept(h, "until")
  /\ IF lastLocation = 0
     THEN /\ reply' = [reply EXCEPT ![h] =
                         [cmd |-> "until", st |-> "error", ev |-> NoEvent, loc |-> 0]]
          /\ UNCHANGED <<pc, cmd>>
     ELSE /\ Goto(h, "arm")
          /\ cmd' = [cmd EXCEPT ![h] = "until"]
          /\ UNCHANGED reply
  /\ UNCHANGED <<sessionVars, waiterVars, configVars, registered, seen, configured, since,
                 programVars, callVars>>

\* The setBreakpoints call fails, by its timer at the latest.
UntilRefused(h) ==
  /\ pc[h] = "arm" /\ cmd[h] = "until"
  /\ Timeouts \/ adapter = "down"
  /\ Return(h, "error", NoEvent, 0)
  /\ UNCHANGED <<sessionVars, waiterVars, configVars, registered, cmds,
                 programVars, callVars>>

\* handlePause: a terminal or paused session answers at once.
PauseBegin(h) ==
  /\ Begin(h, "pause")
  /\ seen' = [seen EXCEPT ![h] = state]
  /\ Goto(h, IF state \in Terminal \cup {"paused"} THEN "report" ELSE "ensure")
  /\ UNCHANGED <<sessionVars, waiterVars, configVars, registered, configured, since,
                 reply, programVars, callVars>>

\* EnsureConfigurationDone: nothing is deferred (any more).
EnsureNothing(h) ==
  /\ pc[h] = "ensure" /\ configDoneMu = NoOne /\ ~pendingConfigDone
  /\ configured' = [configured EXCEPT ![h] = FALSE]
  /\ Goto(h, IF cmd[h] = "pause" THEN "arm" ELSE "resume")
  /\ UNCHANGED <<sessionVars, waiterVars, configVars, registered, cmd, seen, since,
                 cmds, reply, programVars, callVars>>

\* A faulty variant: the lock is not waited for.
EnsureSendUnlocked(h) ==
  /\ pc[h] = "ensure" /\ pendingConfigDone
  /\ configDoneMu' = h
  /\ Send(h, "configurationDone")
  /\ Goto(h, "configuring")
  /\ UNCHANGED <<sessionVars, waiterVars, pendingConfigDone, registered, localVars,
                 reply, programVars>>

\* EnsureConfigurationDone: the request is sent with configDoneMu held.
EnsureSend(h) ==
  /\ pc[h] = "ensure" /\ configDoneMu = NoOne /\ pendingConfigDone
  /\ configDoneMu' = h
  /\ Send(h, "configurationDone")
  /\ Goto(h, "configuring")
  /\ UNCHANGED <<sessionVars, waiterVars, pendingConfigDone, registered, localVars,
                 reply, programVars>>

EnsureOk(h) ==
  /\ pc[h] = "configuring" /\ Receive(h)
  /\ pendingConfigDone' = FALSE /\ configDoneMu' = NoOne
  /\ configured' = [configured EXCEPT ![h] = TRUE]
  /\ Goto(h, IF cmd[h] = "pause" THEN "arm" ELSE "resume")
  /\ UNCHANGED <<sessionVars, waiterVars, registered, cmd, seen, since, cmds, reply,
                 programVars>>

\* The request failed or timed out: it stays deferred, the waiter stays listed.
EnsureFails(h) ==
  /\ pc[h] = "configuring" /\ CallFails(h)
  /\ configDoneMu' = NoOne
  /\ Forget(h)
  /\ IF Armed(h) THEN AbandonWaiter(h) ELSE UNCHANGED waiterVars
  /\ Return(h, "error", NoEvent, 0)
  /\ UNCHANGED <<sessionVars, pendingConfigDone, registered, cmds, programVars>>

\* InstallWaiter of handleUntil and handlePause.
Arm(h) ==
  /\ pc[h] = "arm"
  /\ InstallStateWaiter(h, FALSE)
  /\ Goto(h, "resume")
  /\ UNCHANGED <<sessionVars, configVars, registered, cmd, seen, configured, cmds,
                 reply, programVars, callVars>>

\* A Java session that has just sent configurationDone for a continue does
\* not resume a second time.
SkipsResume(h) == cmd[h] = "continue" /\ configured[h] /\ Java

\* The resume (or pause) request.
ResumeSend(h) ==
  /\ pc[h] = "resume" /\ ~SkipsResume(h)
  /\ Send(h, IF cmd[h] = "pause" THEN "pause" ELSE "continue")
  /\ Goto(h, "resuming")
  /\ UNCHANGED <<sessionVars, waiterVars, configVars, registered, localVars, reply,
                 programVars>>

ResumeSkip(h) ==
  /\ pc[h] = "resume" /\ SkipsResume(h)
  /\ Goto(h, "wait")
  /\ UNCHANGED <<sessionVars, waiterVars, configVars, registered, localVars, reply,
                 programVars, callVars>>

\* A faulty variant: the waiter is installed after the resume.
ResumeOkRearms(h) ==
  /\ pc[h] = "resuming" /\ Receive(h)
  /\ InstallStateWaiter(h, FALSE)
  /\ Goto(h, "wait")
  /\ UNCHANGED <<sessionVars, configVars, registered, cmd, seen, configured, cmds, reply,
                 programVars>>

ResumeOk(h) ==
  /\ pc[h] = "resuming" /\ Receive(h)
  /\ Goto(h, "wait")
  /\ UNCHANGED <<sessionVars, waiterVars, configVars, registered, localVars, reply,
                 programVars>>

ResumeFails(h) ==
  /\ pc[h] = "resuming" /\ CallFails(h)
  /\ Forget(h)
  /\ AbandonWaiter(h)
  /\ Return(h, "error", NoEvent, 0)
  /\ UNCHANGED <<sessionVars, configVars, registered, cmds, programVars>>

-----------------------------------------------------------------------------
(* StopWaiter.Wait and WaitForStop.                                        *)

\* The state a stopEvent is reported as: an exit code is looked at first.
WaitState(e) ==
  IF HasCode(e) THEN "exited" ELSE IF e.kind = "terminated" THEN "terminated" ELSE "paused"

\* The channel delivers.  exec and until go on to look up the location, start
\* removes a session that is over, pause takes anything but a pause as an error.
\* Without stopOnEntry start answers with the state it reads after the wait.
WaitEvent(h) ==
  /\ pc[h] = "wait" /\ chan[h] # NoEvent
  /\ LET st == WaitState(chan[h])
     IN \/ /\ cmd[h] \in Exec \cup {"until"} /\ st = "paused"
           /\ Goto(h, "locate") /\ UNCHANGED <<reply, waiterVars, localVars>>
        \/ /\ cmd[h] = "start" /\ st \in Terminal
           /\ Goto(h, "remove") /\ AbandonWaiter(h) /\ UNCHANGED <<reply, localVars>>
        \/ /\ \/ cmd[h] \in Exec \cup {"until"} /\ st \in Terminal
              \/ cmd[h] = "start" /\ st = "paused"
              \/ cmd[h] \in {"pause", "listen"}
           /\ CASE cmd[h] = "pause" /\ st # "paused" -> Return(h, "timeout", NoEvent, 0)
                [] cmd[h] = "start" -> \/ Return(h, st, chan[h], chan[h].loc)
                                       \/ Return(h, state, NoEvent, 0)
                [] OTHER -> Return(h, st, chan[h], chan[h].loc)
           /\ AbandonWaiter(h) /\ UNCHANGED cmds
  /\ UNCHANGED <<sessionVars, configVars, registered, programVars, callVars>>

\* The timer fires or the request's context ends, perhaps with an event
\* already in the channel.
WaitTimeout(h) ==
  /\ pc[h] = "wait" /\ Timeouts
  /\ AbandonWaiter(h)
  /\ \/ Return(h, "timeout", NoEvent, 0)
     \/ cmd[h] = "start" /\ Return(h, state, NoEvent, 0)
  /\ UNCHANGED <<sessionVars, configVars, registered, cmds, programVars, callVars>>

\* fetchTopLocation
LocateSend(h) ==
  /\ pc[h] = "locate"
  /\ Send(h, "stackTrace")
  /\ Goto(h, "locating")
  /\ UNCHANGED <<sessionVars, waiterVars, configVars, registered, localVars, reply,
                 programVars>>

\* SetLastLocation with whatever the adapter answered.
LocateOk(h) ==
  /\ pc[h] = "locating" /\ Receive(h)
  /\ lastLocation' = answer[h].stop
  /\ Return(h, "paused", chan[h], answer[h].stop)
  /\ chan' = [chan EXCEPT ![h] = NoEvent]
  /\ UNCHANGED <<state, lastPause, lastTerminal, exitCode, waiters, abandoned,
                 configVars, registered, cmds, programVars>>

LocateFails(h) ==
  /\ pc[h] = "locating" /\ CallFails(h)
  /\ Forget(h)
  /\ Return(h, "paused", chan[h], 0)
  /\ chan' = [chan EXCEPT ![h] = NoEvent]
  /\ UNCHANGED <<sessionVars, waiters, abandoned, configVars, registered, cmds,
                 programVars>>

-----------------------------------------------------------------------------
(* state and listen: the state is read first, the details afterwards.      *)

StateBegin(h) ==
  /\ Begin(h, "state")
  /\ seen' = [seen EXCEPT ![h] = state]
  /\ Goto(h, "report")
  /\ UNCHANGED <<sessionVars, waiterVars, configVars, registered, configured, since,
                 reply, programVars, callVars>>

ListenBegin(h) ==
  /\ Begin(h, "listen")
  /\ seen' = [seen EXCEPT ![h] = state]
  /\ Goto(h, IF state \in Terminal \cup {"paused"} THEN "report" ELSE "listen")
  /\ UNCHANGED <<sessionVars, waiterVars, configVars, registered, configured, since,
                 reply, programVars, callVars>>

\* A faulty variant: pause does not check that there is an exit code.
ReportUnchecked(h) ==
  /\ pc[h] = "report"
  /\ LET st == IF cmd[h] = "pause" THEN state ELSE seen[h]
     IN IF seen[h] \in Terminal
        THEN Return(h, st, IF cmd[h] = "pause" THEN Ev("exited", 0, exitCode)
                           ELSE lastTerminal, 0)
        ELSE Return(h, st, Ev("stopped", lastPause, 0), lastLocation)
  /\ UNCHANGED <<sessionVars, waiterVars, configVars, registered, cmds,
                 programVars, callVars>>

\* LastTerminal for a terminal state (ExitCode for pause), LastPause otherwise.
\* pause reads the state again for its answer.
Report(h) ==
  /\ pc[h] = "report"
  /\ LET st == IF cmd[h] = "pause" THEN state ELSE seen[h]
     IN IF seen[h] \in Terminal
        THEN Return(h, st, IF cmd[h] = "pause" /\ exitCode # NoCode
                           THEN Ev("exited", 0, exitCode)
                           ELSE IF cmd[h] = "pause" THEN NoEvent ELSE lastTerminal, 0)
        ELSE Return(h, st, Ev("stopped", lastPause, 0), lastLocation)
  /\ UNCHANGED <<sessionVars, waiterVars, configVars, registered, cmds,
                 programVars, callVars>>

\* WaitForStop of handleListen and handleStart.
ListenWait(h) ==
  /\ pc[h] = "listen"
  /\ InstallStateWaiter(h, TRUE)
  /\ Goto(h, "wait")
  /\ UNCHANGED <<sessionVars, configVars, registered, cmd, seen, configured, cmds,
                 reply, programVars, callVars>>

-----------------------------------------------------------------------------
(* stop, and the removal of a session that ended while it was starting.    *)

StopBegin(h) ==
  /\ Begin(h, "stop")
  /\ Goto(h, "remove")
  /\ UNCHANGED <<sessionVars, waiterVars, configVars, registered, seen, configured,
                 since, reply, programVars, callVars>>

\* Manager.Remove takes the manager's lock, so from here no Get succeeds;
\* Close starts with a disconnect request.
RemoveSend(h) ==
  /\ pc[h] = "remove" /\ registered
  /\ registered' = FALSE
  /\ Send(h, "disconnect")
  /\ Goto(h, "disconnecting")
  /\ UNCHANGED <<sessionVars, waiterVars, configVars, localVars, reply, programVars>>

\* Somebody else removed it first.
RemoveNothing(h) ==
  /\ pc[h] = "remove" /\ ~registered
  /\ Finish(h)
  /\ UNCHANGED <<sessionVars, waiterVars, configVars, registered, cmds, reply,
                 programVars, callVars>>

\* The rest of Close: the client is closed, the adapter killed and the tables
\* dropped, whatever the disconnect request came to.
CloseRest(h) ==
  /\ pc[h] = "disconnecting" /\ (answer[h].st = "ok" \/ CallFails(h))
  /\ adapter' = "down" /\ target' = "gone"
  /\ CutStream
  /\ inbox' = <<>> /\ answer' = [ReleasePending EXCEPT ![h] = NoAnswer]
  /\ lastLocation' = 0
  /\ Finish(h)
  /\ UNCHANGED <<state, lastPause, lastTerminal, exitCode, waiterVars, configVars,
                 registered, cmds, reply, stops, watched, configs>>

-----------------------------------------------------------------------------
HandlerStep(h) ==
  \/ EnsureNothing(h) \/ EnsureSend(h) \/ EnsureOk(h) \/ EnsureFails(h)
  \/ UntilRefused(h) \/ Arm(h)
  \/ ResumeSend(h) \/ ResumeSkip(h) \/ ResumeOk(h) \/ ResumeFails(h)
  \/ WaitEvent(h) \/ WaitTimeout(h)
  \/ LocateSend(h) \/ LocateOk(h) \/ LocateFails(h)
  \/ Report(h) \/ ListenWait(h)
  \/ RemoveSend(h) \/ RemoveNothing(h) \/ CloseRest(h)

ClientStep(h) ==
  \/ ExecBegin(h) \/ UntilBegin(h) \/ PauseBegin(h)
  \/ StateBegin(h) \/ ListenBegin(h) \/ StopBegin(h)

ProgramStep ==
  \/ TargetStops \/ TargetExits \/ TargetTerminates \/ AdapterDies \/ AdapterServes

Next ==
  \/ \E h \in Handlers : ClientStep(h) \/ HandlerStep(h)
  \/ Pump \/ WatchAdapterExit \/ ProgramStep

Spec == Init /\ [][Next]_vars

\* The daemon's goroutines are scheduled and the adapter serves its requests;
\* nothing obliges the program to stop or to end, or a client to ask.
Fairness ==
  /\ WF_vars(Pump) /\ WF_vars(WatchAdapterExit) /\ WF_vars(AdapterServes)
  /\ \A h \in Handlers : WF_vars(HandlerStep(h))

FairSpec == Spec /\ Fairness

-----------------------------------------------------------------------------
(* Properties.                                                             *)

TypeSession ==
  /\ state \in States /\ lastPause \in Nat /\ lastLocation \in Nat
  /\ lastTerminal \in {NoEvent} \cup TerminalEvent
  /\ exitCode \in Nat \cup {NoCode}

TypeWaiters ==
  /\ waiters \subseteq Handlers /\ abandoned \in Nat
  /\ chan \in [Handlers -> Event]

TypeConfig ==
  /\ pendingConfigDone \in BOOLEAN /\ configDoneMu \in Handlers \cup {NoOne}
  /\ registered \in BOOLEAN

TypeHandlers ==
  /\ pc \in [Handlers -> Labels] /\ cmd \in [Handlers -> Commands]
  /\ seen \in [Handlers -> States] /\ configured \in [Handlers -> BOOLEAN]
  /\ since \in [Handlers -> Nat] /\ cmds \in Nat

TypeReplies == reply \in [Handlers -> Reply]

TypeProgram ==
  /\ target \in {"suspended", "running", "stopped", "exiting", "gone"}
  /\ stops \in Nat /\ configs \in Nat
  /\ adapter \in {"up", "down"} /\ watched \in BOOLEAN /\ lost \in BOOLEAN
  /\ events \in Seq(Event)

TypeCalls ==
  /\ inbox \in Seq(Message)
  /\ answer \in [Handlers -> Answer]

\* Every variable has its type.
TypeOK ==
  /\ TypeSession /\ TypeWaiters /\ TypeConfig /\ TypeHandlers
  /\ TypeReplies /\ TypeProgram /\ TypeCalls

\* No lost wakeup: a handler that will select on its waiter has either its
\* event in the channel or its channel in the list, never both and never
\* neither (installStateWaiter registers under the lock notifyWaiters runs under).
WaiterAccounted ==
  \A h \in Handlers :
    IF Armed(h) THEN (h \in waiters) <=> (chan[h] = NoEvent) ELSE h \notin waiters

\* Once a terminal event is recorded nobody is left in the waiter list: the
\* event that recorded it emptied the list and later waits are answered from it.
TerminalReleasesWaiters ==
  lastTerminal # NoEvent => waiters = {} /\ abandoned = 0

\* A terminal state always has its facts (reason, exit code) on record, so the
\* separate reads of handleState and handleListen never find them missing.
TerminalHasFacts ==
  /\ state \in Terminal => lastTerminal # NoEvent
  /\ \A h \in Handlers :
       reply[h].cmd \in {"state", "listen"} /\ reply[h].st \in Terminal
         => reply[h].ev # NoEvent

\* The exit code that pause reports (ExitCode) is the one state and listen
\* report (LastTerminal).
ExitCodeAgrees ==
  HasCode(lastTerminal) => exitCode = lastTerminal.code

\* until resumes without EnsureConfigurationDone.  That is sound because it
\* needs a pause location, and only a command that went through
\* EnsureConfigurationDone ever records one.
UntilIsConfigured ==
  \A h \in Handlers :
    cmd[h] = "until" /\ pc[h] \in {"arm", "resume", "resuming", "wait"}
      => ~pendingConfigDone

\* A resume is never answered with a pause the session already knew of when
\* the command began (a stale stop replayed into a later resume).
FreshStop ==
  \A h \in Handlers :
    /\ Armed(h) \/ pc[h] \in {"locate", "locating"}
    /\ cmd[h] \in Exec \cup {"until", "pause"} /\ chan[h].kind = "stopped"
    => chan[h].stop > since[h]

\* The waiter precedes the resume: while a resumed command waits with nothing
\* in its channel and the program stands at a stop, that stop's event is still
\* on its way to the pump (or the full subscription dropped it).  It fails for a
\* Java session whose configurationDone timed out: the next continue sends it
\* again, takes that for a resume, and may wait at a stop already reported.
StopInFlight ==
  \A h \in Handlers :
    /\ pc[h] = "wait" /\ cmd[h] \in Exec \cup {"until"} /\ chan[h] = NoEvent
    /\ target = "stopped" /\ ~lost
    => \E i \in DOMAIN events : events[i] = Ev("stopped", stops, 0)

\* The program's own exit code is never overwritten: a real exited event wins
\* over watchAdapterExit and over the terminated event that follows it.
ExitedIsFinal ==
  [][lastTerminal.kind = "exited" => lastTerminal' = lastTerminal]_vars

\* When the adapter is gone every handler comes back.  A wait for a stop needs no
\* timer for that, since the process watcher releases it, and neither does a call
\* that is pending when the stream ends; a call sent after the end of the stream
\* may have nothing but its own timer to end it (dap.Call always has one).
AdapterDeathFreesHandlers ==
  (adapter = "down") ~> (\A h \in Handlers : pc[h] = "idle")

\* A command waiting on a program that has stopped is answered, unless the
\* stop was dropped.
StopIsReported ==
  \A h \in Handlers :
    (pc[h] = "wait" /\ target = "stopped" /\ cmd[h] \in Exec \cup {"until"})
      ~> (pc[h] # "wait" \/ lost \/ target # "stopped")

\* "... synthesize a terminated transition ... so callers don't see a stale
\* "paused" state" (newSession): after a terminal event the session never
\* shows a live state again.
NoStalePause ==
  lastTerminal # NoEvent => state \in Terminal

\* "state and listen never disagree on reason, exitCode, or signal for the
\* same session" (COMMANDS.md), over the responses of all clients.
TerminalRepliesAgree ==
  \A g, h \in Handlers :
    (/\ reply[g].cmd \in {"state", "listen"} /\ reply[g].st \in Terminal
     /\ reply[h].cmd \in {"state", "listen"} /\ reply[h].st \in Terminal)
    => reply[g].ev = reply[h].ev

\* "EnsureConfigurationDone sends DAP configurationDone exactly once": however
\* many resuming commands race, the adapter sees one configurationDone.  It
\* holds as long as no call fails; a call that times out is repeated.
ConfigurationDoneOnce == configs <= 1

\* "adapter accepted pause but program did not stop within 10s": the error is
\* never returned while the session itself is paused.
PauseTimeoutMeansRunning ==
  [][\A h \in Handlers :
       /\ pc[h] = "wait" /\ cmd[h] = "pause" /\ chan[h] = NoEvent
       /\ pc'[h] = "idle" /\ reply'[h].st = "timeout"
       => state # "paused"]_vars

\* "On timeout: return {ok:true, state:"running", reason:"timeout"} - target is
\* still running" (DESIGN.md): a resuming command does not time out on a
\* program that stands at a stop the session has already recorded.
TimeoutMeansRunning ==
  [][\A h \in Handlers :
       /\ pc[h] = "wait" /\ cmd[h] \in Exec /\ chan[h] = NoEvent
       /\ pc'[h] = "idle" /\ reply'[h].st = "timeout"
       => ~(target = "stopped" /\ lastPause = stops)]_vars

\* "If already paused or terminated, return the current stop" (COMMANDS.md,
\* listen): when nothing is in flight, a paused session has a stopped program.
PausedMeansStopped ==
  /\ state = "paused" /\ events = <<>> /\ inbox = <<>> /\ ~lost
  /\ \A h \in Handlers : pc[h] \in {"idle", "wait"} /\ chan[h] = NoEvent
  => target # "running"

\* "Per-session request mutex (DAP is sequential within a session)": the
\* recorded location belongs to the pause the session reports.
LocationOfPause ==
  state = "paused" /\ lastLocation # 0 => lastLocation >= lastPause

=============================================================================
