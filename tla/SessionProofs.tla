--------------------------- MODULE SessionProofs ---------------------------
(***************************************************************************)
(* Proofs about Session, for any set of handlers, exit codes and bounds.   *)
(*                                                                         *)
(* Type correctness comes first, operator by operator and then action by   *)
(* action.  The safety theorems rest on the inductive invariant Inv:       *)
(*                                                                         *)
(*   - an armed handler is registered or holds its event, never both;      *)
(*   - once a terminal event is recorded the waiter list stays empty;      *)
(*   - a terminal state is only visible with its record in place, and so   *)
(*     is a terminal state that a handler has read and not yet reported;   *)
(*   - a location is only recorded, and a resume only sent, after          *)
(*     configurationDone was answered.                                     *)
(*                                                                         *)
(* ControlInv, FactsInv and ConfiguredInv are the strengthenings: which    *)
(* command a handler at a label serves, what it read before it released    *)
(* the lock, and which labels lie behind EnsureConfigurationDone.          *)
(*                                                                         *)
(* The second half is about the event stream, the calls and                *)
(* configurationDone (StreamInv, DeferInv, FlightInv).                     *)
(***************************************************************************)
EXTENDS Session, TLAPS

\* The handler has been through EnsureConfigurationDone (or, for until, relies
\* on a location that only such a handler can have recorded).
PastEnsure(h) ==
  \/ pc[h] \in {"arm", "resume", "resuming", "locate", "locating"}
  \/ pc[h] = "wait" /\ cmd[h] \in Exec \cup {"until", "pause"}

ControlInv ==
  \A h \in Handlers :
    /\ pc[h] \in {"ensure", "configuring"} => cmd[h] \in Exec \cup {"pause"}
    /\ pc[h] = "listen" => cmd[h] \in {"listen", "start"}

ConfiguredInv ==
  /\ lastLocation # 0 => ~pendingConfigDone
  /\ \A h \in Handlers : PastEnsure(h) => ~pendingConfigDone

FactsInv ==
  /\ TerminalHasFacts
  /\ \A h \in Handlers : seen[h] \in Terminal => lastTerminal # NoEvent

Inv ==
  /\ ControlInv /\ ConfiguredInv
  /\ WaiterAccounted /\ TerminalReleasesWaiters
  /\ FactsInv /\ ExitCodeAgrees

-----------------------------------------------------------------------------
(* Type correctness.                                                       *)

\* Exit codes are natural numbers.
LEMMA CodesAreNat == Codes \subseteq Nat
BY SessionAssumption

\* The event constructors build events.
LEMMA EventValues ==
  /\ NoEvent \in Event
  /\ \A k \in Kinds, s \in Nat, c \in Nat : Ev(k, s, c) \in Event
  /\ \A s \in Nat, l \in Nat : Paused(s, l) \in Event
  /\ \A k \in {"exited", "terminated", "died"}, c \in Nat : Ev(k, 0, c) \in TerminalEvent
  /\ TerminalEvent \subseteq Event
BY DEF NoEvent, Event, Kinds, Ev, Paused, TerminalEvent

\* The initial state of a launch or attach session is well typed.
LEMMA TypeInit == Init => TypeOK
<1> SUFFICES ASSUME Init PROVE TypeOK
  OBVIOUS
<1>1. TypeSession
  BY DEF Init, TypeSession, States, Terminal
<1>2. TypeWaiters
  BY EventValues DEF Init, TypeWaiters
<1>3. TypeConfig
  BY DEF Init, TypeConfig
<1>4. TypeHandlers
  BY DEF Init, TypeHandlers, Labels, Calling, Commands, Exec, States
<1>5. TypeReplies
  BY EventValues DEF Init, TypeReplies, NoReply, Reply, Commands
<1>6. TypeProgram
  <2>1. events \in Seq(Event)
    BY DEF Init
  <2>2. target \in {"suspended", "running", "stopped", "exiting", "gone"} /\ configs \in Nat
    BY DEF Init
  <2>3. stops \in Nat /\ adapter \in {"up", "down"} /\ watched \in BOOLEAN /\ lost \in BOOLEAN
    BY DEF Init
  <2> QED
    BY <2>1, <2>2, <2>3 DEF TypeProgram
<1>7. TypeCalls
  BY DEF Init, TypeCalls, NoAnswer, Answer
<1> QED
  BY <1>1, <1>2, <1>3, <1>4, <1>5, <1>6, <1>7 DEF TypeOK

\* installStateWaiter, notifyWaiters and the abandoning of a waiter keep the types.
LEMMA InstallType ==
  ASSUME TypeOK, NEW h \in Handlers, NEW b \in BOOLEAN, InstallStateWaiter(h, b)
  PROVE  TypeWaiters' /\ since' \in [Handlers -> Nat]
<1> USE DEF TypeOK, InstallStateWaiter
<1>1. since' \in [Handlers -> Nat]
  BY DEF TypeSession, TypeHandlers
<1>2. CASE lastTerminal # NoEvent
  <2>1. lastTerminal \in Event
    BY EventValues DEF TypeSession
  <2>2. chan' = [chan EXCEPT ![h] = lastTerminal] /\ waiters' = waiters /\ abandoned' = abandoned
    BY <1>2
  <2> QED
    BY <1>1, <2>1, <2>2 DEF TypeWaiters
<1>3. CASE lastTerminal = NoEvent /\ b /\ state = "paused"
  <2>1. Paused(lastPause, lastLocation) \in Event
    BY EventValues DEF TypeSession
  <2> QED
    BY <1>3, <2>1 DEF TypeWaiters, TypeHandlers, TypeSession
<1>4. CASE lastTerminal = NoEvent /\ ~(b /\ state = "paused")
  BY <1>4, EventValues DEF TypeWaiters, TypeHandlers, TypeSession
<1> QED
  BY <1>1, <1>2, <1>3, <1>4

\* notifyWaiters keeps the types of the waiters.
LEMMA NotifyType ==
  ASSUME TypeWaiters, NEW ev \in Event, NotifyWaiters(ev)
  PROVE  TypeWaiters'
BY DEF TypeWaiters, NotifyWaiters

\* So does a handler that leaves its waiter behind.
LEMMA AbandonType ==
  ASSUME TypeWaiters, NEW h \in Handlers, AbandonWaiter(h)
  PROVE  TypeWaiters'
BY EventValues DEF TypeWaiters, AbandonWaiter

\* Returning from a handler keeps the types.
LEMMA FinishType ==
  ASSUME TypeHandlers, NEW h \in Handlers, Finish(h), UNCHANGED cmds
  PROVE  TypeHandlers'
BY DEF TypeHandlers, Finish, Goto, Labels, Commands, States

\* Returning a response keeps the types.
LEMMA ReturnType ==
  ASSUME TypeHandlers, TypeReplies, NEW h \in Handlers, UNCHANGED cmds,
         NEW st \in States \cup {"none", "timeout", "error"}, NEW ev \in Event,
         NEW loc \in Nat, Return(h, st, ev, loc)
  PROVE  TypeHandlers' /\ TypeReplies'
<1>1. TypeHandlers'
  BY FinishType DEF Return
<1>2. TypeReplies'
  BY DEF Return, TypeReplies, TypeHandlers, Reply
<1> QED
  BY <1>1, <1>2

\* A request that is sent empties the place of its answer, or fails at once.
LEMMA SendAnswers ==
  ASSUME NEW h \in Handlers, NEW q, Send(h, q)
  PROVE  \E a \in {NoAnswer, Failure} :
           /\ answer' = [answer EXCEPT ![h] = a]
           /\ a \in Answer /\ a.st # "ok"
           /\ adapter = "up" => a.st = "none"
<1>1. CASE adapter = "up"
  BY <1>1 DEF Send, NoAnswer, Failure, Answer
<1>2. CASE adapter # "up"
  BY <1>2 DEF Send, NoAnswer, Failure, Answer
<1> QED
  BY <1>1, <1>2

\* The end of the stream keeps the type of the answers.
LEMMA ReleaseType ==
  ASSUME answer \in [Handlers -> Answer]
  PROVE  ReleasePending \in [Handlers -> Answer]
BY DEF ReleasePending, Failure, Answer

\* dap.Call keeps the types: sending, receiving, giving up.
LEMMA SendType ==
  ASSUME TypeCalls, NEW h \in Handlers, NEW q \in Requests, Send(h, q)
  PROVE  TypeCalls'
<1>1. [from |-> h, req |-> q] \in Message
  BY DEF Message
<1>2. inbox' \in Seq(Message)
  <2>1. Append(inbox, [from |-> h, req |-> q]) \in Seq(Message)
    BY <1>1 DEF TypeCalls
  <2>2. inbox' = Append(inbox, [from |-> h, req |-> q]) \/ inbox' = inbox
    BY DEF Send
  <2> QED
    BY <2>1, <2>2 DEF TypeCalls
<1>3. answer' \in [Handlers -> Answer]
  BY SendAnswers DEF TypeCalls
<1> QED
  BY <1>2, <1>3 DEF TypeCalls

\* Receiving a response keeps the types of the calls.
LEMMA ReceiveType ==
  ASSUME TypeCalls, NEW h \in Handlers, Receive(h)
  PROVE  TypeCalls'
BY DEF TypeCalls, Receive, NoAnswer, Answer

\* So does giving up on a request.
LEMMA ForgetType ==
  ASSUME TypeCalls, NEW h \in Handlers, Forget(h)
  PROVE  TypeCalls'
<1>1. inbox' \in [1..Len(inbox) -> Message]
  <2>1. DOMAIN inbox = 1..Len(inbox)
    BY DEF TypeCalls
  <2>2. ASSUME NEW i \in 1..Len(inbox)
        PROVE  inbox[i] \in Message /\ [from |-> NoOne, req |-> inbox[i].req] \in Message
    <3>1. inbox[i] \in Message
      BY DEF TypeCalls
    <3> QED
      BY <3>1 DEF Message
  <2>3. inbox' = [i \in 1..Len(inbox) |->
                   IF inbox[i].from = h THEN [from |-> NoOne, req |-> inbox[i].req] ELSE inbox[i]]
    BY <2>1 DEF Forget
  <2> QED
    BY <2>2, <2>3
<1>2. inbox' \in Seq(Message)
  BY <1>1 DEF TypeCalls
<1> QED
  BY <1>2 DEF TypeCalls, Forget, NoAnswer, Answer

\* The stream keeps its type when an event is sent or the pipe is cut.
LEMMA EmitType ==
  ASSUME TypeProgram, NEW ev \in Event, Emit(ev)
  PROVE  events' \in Seq(Event) /\ lost' \in BOOLEAN
<1>1. Append(events, ev) \in Seq(Event)
  BY DEF TypeProgram
<1>2. lost \in BOOLEAN /\ events \in Seq(Event)
  BY DEF TypeProgram
<1> QED
  BY <1>1, <1>2 DEF Emit

\* What is left of a cut stream is a stream.
LEMMA CutType ==
  ASSUME TypeProgram, CutStream
  PROVE  events' \in Seq(Event) /\ lost' \in BOOLEAN
<1>1. PICK n \in 0..Len(events) : events' = SubSeq(events, 1, n) /\ lost' = (lost \/ n < Len(events))
  BY DEF CutStream
<1>2. events' \in Seq(Event)
  BY <1>1 DEF TypeProgram
<1>3. lost' \in BOOLEAN
  BY <1>1 DEF TypeProgram
<1> QED
  BY <1>2, <1>3

\* A wait reports a state of the session.
LEMMA WaitStateType == \A e : WaitState(e) \in States
BY DEF WaitState, States, Terminal

\* handleEvent keeps the types.
LEMMA HandleType ==
  ASSUME TypeSession, TypeWaiters, NEW e \in Event,
         HandleStopped(e) \/ HandleContinued(e) \/ HandleExited(e) \/ HandleTerminated(e)
  PROVE  TypeSession' /\ TypeWaiters'
<1>1. e.stop \in Nat /\ e.code \in Nat
  BY DEF Event
<1>2. CASE HandleStopped(e)
  BY <1>1, <1>2, NotifyType DEF HandleStopped, TypeSession, States
<1>3. CASE HandleContinued(e)
  BY <1>3 DEF HandleContinued, TypeSession, TypeWaiters, waiterVars, States
<1>4. CASE HandleExited(e)
  <2>1. e \in TerminalEvent
    BY <1>4 DEF HandleExited, TerminalEvent
  <2> QED
    BY <1>1, <1>4, <2>1, NotifyType DEF HandleExited, TypeSession, States, Terminal
<1>5. CASE HandleTerminated(e)
  <2>1. e \in TerminalEvent
    BY <1>5 DEF HandleTerminated, TerminalEvent
  <2>2. state' \in States
    BY <1>5 DEF HandleTerminated, TypeSession, States, Terminal
  <2>3. lastTerminal' \in {NoEvent} \cup TerminalEvent
    BY <1>5, <2>1 DEF HandleTerminated, TypeSession
  <2> QED
    BY <1>5, <2>2, <2>3, NotifyType DEF HandleTerminated, TypeSession
<1> QED
  BY <1>2, <1>3, <1>4, <1>5

\* So does the adapter answering a request.
LEMMA RespondType ==
  ASSUME TypeCalls, NEW r \in Message, NEW st \in {"ok", "error"}, NEW stop \in Nat,
         Respond(r, st, stop)
  PROVE  answer' \in [Handlers -> Answer]
<1>1. [st |-> st, stop |-> stop] \in Answer
  BY DEF Answer
<1>2. CASE r.from = NoOne
  BY <1>2 DEF Respond, TypeCalls
<1>3. CASE r.from # NoOne
  <2>1. r.from \in Handlers
    BY <1>3 DEF Message
  <2> QED
    BY <1>1, <1>3, <2>1 DEF Respond, TypeCalls
<1> QED
  BY <1>2, <1>3

\* Every request the adapter serves keeps the types.
LEMMA ServeType ==
  ASSUME TypeProgram, TypeCalls, NEW r \in Message, UNCHANGED <<adapter, watched>>,
         \/ ServeConfigurationDone(r) \/ ServeContinue(r) \/ ServePause(r)
         \/ ServeStackTrace(r) \/ ServeDisconnect(r)
  PROVE  TypeProgram' /\ answer' \in [Handlers -> Answer]
<1>1. ASSUME NEW st \in {"ok", "error"}, Ignored(r, st)
      PROVE  TypeProgram' /\ answer' \in [Handlers -> Answer]
  BY <1>1, RespondType DEF Ignored, TypeProgram
<1>2. ASSUME NEW e \in Event, Emit(e), target' \in {"running", "stopped", "gone"},
             stops' \in Nat, UNCHANGED configs, Respond(r, "ok", 0)
      PROVE  TypeProgram' /\ answer' \in [Handlers -> Answer]
  <2>1. answer' \in [Handlers -> Answer]
    BY <1>2, RespondType
  <2>2. events' \in Seq(Event) /\ lost' \in BOOLEAN
    BY <1>2, EmitType
  <2> QED
    BY <1>2, <2>1, <2>2 DEF TypeProgram
<1>3. CASE ServeConfigurationDone(r)
  <2>1. answer' \in [Handlers -> Answer]
    BY <1>3, RespondType DEF ServeConfigurationDone
  <2> QED
    BY <1>3, <2>1 DEF ServeConfigurationDone, TypeProgram
<1>4. CASE ServeContinue(r)
  <2>1. CASE target = "stopped" /\ target' = "running" /\ Respond(r, "ok", 0)
             /\ UNCHANGED <<stops, configs>> /\ Emit(Ev("continued", 0, 0))
    BY <1>2, <2>1, EventValues DEF TypeProgram, Kinds
  <2>2. CASE target = "stopped" /\ target' = "running" /\ Respond(r, "ok", 0)
             /\ UNCHANGED <<stops, configs>> /\ UNCHANGED <<events, lost>>
    <3>1. answer' \in [Handlers -> Answer]
      BY <2>2, RespondType
    <3> QED
      BY <2>2, <3>1 DEF TypeProgram
  <2>3. CASE \E st \in {"ok", "error"} : Ignored(r, st)
    BY <1>1, <2>3
  <2> QED
    BY <1>4, <2>1, <2>2, <2>3 DEF ServeContinue
<1>5. CASE ServePause(r)
  <2>1. CASE target' = "stopped" /\ stops' = stops + 1 /\ Respond(r, "ok", 0)
             /\ Emit(Ev("stopped", stops + 1, 0)) /\ UNCHANGED configs
    <3>1. Ev("stopped", stops + 1, 0) \in Event /\ stops' \in Nat
      BY <2>1, EventValues DEF TypeProgram, Kinds
    <3> QED
      BY <1>2, <2>1, <3>1
  <2>2. CASE \E st \in {"ok", "error"} : Ignored(r, st)
    BY <1>1, <2>2
  <2> QED
    BY <1>5, <2>1, <2>2 DEF ServePause
<1>6. CASE ServeStackTrace(r)
  <2>1. answer' \in [Handlers -> Answer]
    BY <1>6, RespondType DEF ServeStackTrace, TypeProgram
  <2> QED
    BY <1>6, <2>1 DEF ServeStackTrace, TypeProgram
<1>7. CASE ServeDisconnect(r)
  <2>1. CASE Emit(Ev("terminated", 0, 0))
    BY <1>2, <1>7, <2>1, EventValues DEF ServeDisconnect, TypeProgram, Kinds
  <2>2. CASE UNCHANGED <<events, lost>>
    <3>1. answer' \in [Handlers -> Answer]
      BY <1>7, RespondType DEF ServeDisconnect
    <3> QED
      BY <1>7, <2>2, <3>1 DEF ServeDisconnect, TypeProgram
  <2> QED
    BY <1>7, <2>1, <2>2 DEF ServeDisconnect
<1> QED
  BY <1>3, <1>4, <1>5, <1>6, <1>7

\* Every step of the session keeps the types.
LEMMA TypeNext == TypeOK /\ Next => TypeOK'
<1> SUFFICES ASSUME TypeOK, Next PROVE TypeOK'
  OBVIOUS
<1>1. ASSUME NEW h \in Handlers, ExecBegin(h) PROVE TypeOK'
  <2>1. TypeWaiters'
    BY <1>1, InstallType DEF ExecBegin
  <2>2. PICK c \in Exec : Begin(h, c)
    BY <1>1 DEF ExecBegin
  <2>3. TypeHandlers'
    <3>1. since' \in [Handlers -> Nat]
      BY <1>1, InstallType DEF ExecBegin
    <3>2. cmd' \in [Handlers -> Commands] /\ cmds' \in Nat
      BY <2>2 DEF TypeOK, TypeHandlers, Begin, Accept, Commands
    <3>3. pc' \in [Handlers -> Labels] /\ UNCHANGED <<seen, configured>>
      BY <1>1 DEF TypeOK, TypeHandlers, ExecBegin, Goto, Labels
    <3> QED
      BY <3>1, <3>2, <3>3 DEF TypeOK, TypeHandlers
  <2> QED
    BY <1>1, <2>1, <2>3 DEF TypeOK, TypeSession, TypeConfig, TypeReplies, TypeProgram,
       TypeCalls, sessionVars, configVars, programVars, callVars, ExecBegin
<1>2. ASSUME NEW h \in Handlers, UntilBegin(h) PROVE TypeOK'
  <2>1. TypeHandlers'
    BY <1>2 DEF TypeOK, TypeHandlers, TypeSession, UntilBegin, Accept, Goto, localVars,
       Labels, Calling, Commands, Exec
  <2>2. TypeReplies'
    BY <1>2, EventValues DEF TypeOK, TypeReplies, UntilBegin, Reply, Commands
  <2> QED
    BY <1>2, <2>1, <2>2 DEF TypeOK, TypeSession, TypeWaiters, TypeConfig, TypeProgram,
       TypeCalls, sessionVars, waiterVars, configVars, programVars, callVars, UntilBegin
<1>3. ASSUME NEW h \in Handlers, PauseBegin(h) PROVE TypeOK'
  <2>1. TypeHandlers'
    BY <1>3 DEF TypeOK, TypeHandlers, TypeSession, PauseBegin, Begin, Accept, Goto,
       localVars, Labels, Calling, Commands, Exec
  <2> QED
    BY <1>3, <2>1 DEF TypeOK, TypeSession, TypeWaiters, TypeConfig, TypeReplies,
       TypeProgram, TypeCalls, sessionVars, waiterVars, configVars, programVars,
       callVars, PauseBegin
<1>4. ASSUME NEW h \in Handlers, StateBegin(h) PROVE TypeOK'
  <2>1. TypeHandlers'
    BY <1>4 DEF TypeOK, TypeHandlers, TypeSession, StateBegin, Begin, Accept, Goto,
       localVars, Labels, Calling, Commands, Exec
  <2> QED
    BY <1>4, <2>1 DEF TypeOK, TypeSession, TypeWaiters, TypeConfig, TypeReplies,
       TypeProgram, TypeCalls, sessionVars, waiterVars, configVars, programVars,
       callVars, StateBegin
<1>5. ASSUME NEW h \in Handlers, ListenBegin(h) PROVE TypeOK'
  <2>1. TypeHandlers'
    BY <1>5 DEF TypeOK, TypeHandlers, TypeSession, ListenBegin, Begin, Accept, Goto,
       localVars, Labels, Calling, Commands, Exec
  <2> QED
    BY <1>5, <2>1 DEF TypeOK, TypeSession, TypeWaiters, TypeConfig, TypeReplies,
       TypeProgram, TypeCalls, sessionVars, waiterVars, configVars, programVars,
       callVars, ListenBegin
<1>6. ASSUME NEW h \in Handlers, StopBegin(h) PROVE TypeOK'
  <2>1. TypeHandlers'
    BY <1>6 DEF TypeOK, TypeHandlers, TypeSession, StopBegin, Begin, Accept, Goto,
       localVars, Labels, Calling, Commands, Exec
  <2> QED
    BY <1>6, <2>1 DEF TypeOK, TypeSession, TypeWaiters, TypeConfig, TypeReplies,
       TypeProgram, TypeCalls, sessionVars, waiterVars, configVars, programVars,
       callVars, StopBegin
<1>7. ASSUME NEW h \in Handlers, EnsureNothing(h) PROVE TypeOK'
  <2>1. TypeHandlers'
    BY <1>7 DEF TypeOK, TypeHandlers, TypeSession, EnsureNothing, Goto, localVars,
       Labels, Calling, Commands, Exec
  <2> QED
    BY <1>7, <2>1 DEF TypeOK, TypeSession, TypeWaiters, TypeConfig, TypeReplies,
       TypeProgram, TypeCalls, sessionVars, waiterVars, configVars, programVars,
       callVars, EnsureNothing
<1>8. ASSUME NEW h \in Handlers, EnsureSend(h) PROVE TypeOK'
  <2>1. TypeConfig'
    BY <1>8 DEF TypeOK, TypeConfig, EnsureSend
  <2>2. TypeHandlers'
    BY <1>8 DEF TypeOK, TypeHandlers, TypeSession, EnsureSend, Goto, localVars, Labels,
       Calling, Commands, Exec
  <2>3. TypeCalls'
    BY <1>8, SendType DEF TypeOK, EnsureSend, Requests
  <2> QED
    BY <1>8, <2>1, <2>2, <2>3 DEF TypeOK, TypeSession, TypeWaiters, TypeReplies,
       TypeProgram, sessionVars, waiterVars, programVars, EnsureSend
<1>9. ASSUME NEW h \in Handlers, EnsureOk(h) PROVE TypeOK'
  <2>1. TypeConfig'
    BY <1>9 DEF TypeOK, TypeConfig, EnsureOk
  <2>2. TypeHandlers'
    BY <1>9 DEF TypeOK, TypeHandlers, TypeSession, EnsureOk, Goto, localVars, Labels,
       Calling, Commands, Exec
  <2>3. TypeCalls'
    BY <1>9, ReceiveType DEF TypeOK, EnsureOk
  <2> QED
    BY <1>9, <2>1, <2>2, <2>3 DEF TypeOK, TypeSession, TypeWaiters, TypeReplies,
       TypeProgram, sessionVars, waiterVars, programVars, EnsureOk
<1>10. ASSUME NEW h \in Handlers, EnsureFails(h) PROVE TypeOK'
  <2>1. TypeWaiters'
    BY <1>10, AbandonType DEF TypeOK, TypeWaiters, EnsureFails, waiterVars
  <2>2. TypeConfig'
    BY <1>10 DEF TypeOK, TypeConfig, EnsureFails
  <2>3. TypeHandlers' /\ TypeReplies'
    BY <1>10, EventValues, ReturnType DEF TypeOK, EnsureFails
  <2>4. TypeCalls'
    BY <1>10, ForgetType DEF TypeOK, EnsureFails
  <2> QED
    BY <1>10, <2>1, <2>2, <2>3, <2>4 DEF TypeOK, TypeSession, TypeProgram, sessionVars,
       programVars, EnsureFails
<1>11. ASSUME NEW h \in Handlers, UntilRefused(h) PROVE TypeOK'
  <2>1. TypeHandlers' /\ TypeReplies'
    BY <1>11, EventValues, ReturnType DEF TypeOK, UntilRefused
  <2> QED
    BY <1>11, <2>1 DEF TypeOK, TypeSession, TypeWaiters, TypeConfig, TypeProgram,
       TypeCalls, sessionVars, waiterVars, configVars, programVars, callVars,
       UntilRefused
<1>12. ASSUME NEW h \in Handlers, Arm(h) PROVE TypeOK'
  <2>1. TypeWaiters'
    BY <1>12, InstallType DEF Arm
  <2>2. TypeHandlers'
    BY <1>12, InstallType DEF TypeOK, TypeHandlers, Arm, Goto, Labels, Calling
  <2> QED
    BY <1>12, <2>1, <2>2 DEF TypeOK, TypeSession, TypeConfig, TypeReplies, TypeProgram,
       TypeCalls, sessionVars, configVars, programVars, callVars, Arm
<1>13. ASSUME NEW h \in Handlers, ResumeSend(h) PROVE TypeOK'
  <2>1. TypeHandlers'
    BY <1>13 DEF TypeOK, TypeHandlers, TypeSession, ResumeSend, Goto, localVars, Labels,
       Calling, Commands, Exec
  <2>2. TypeCalls'
    BY <1>13, SendType DEF TypeOK, ResumeSend, Requests
  <2> QED
    BY <1>13, <2>1, <2>2 DEF TypeOK, TypeSession, TypeWaiters, TypeConfig, TypeReplies,
       TypeProgram, sessionVars, waiterVars, configVars, programVars, ResumeSend
<1>14. ASSUME NEW h \in Handlers, ResumeSkip(h) PROVE TypeOK'
  <2>1. TypeHandlers'
    BY <1>14 DEF TypeOK, TypeHandlers, TypeSession, ResumeSkip, Goto, localVars, Labels,
       Calling, Commands, Exec
  <2> QED
    BY <1>14, <2>1 DEF TypeOK, TypeSession, TypeWaiters, TypeConfig, TypeReplies,
       TypeProgram, TypeCalls, sessionVars, waiterVars, configVars, programVars,
       callVars, ResumeSkip
<1>15. ASSUME NEW h \in Handlers, ResumeOk(h) PROVE TypeOK'
  <2>1. TypeHandlers'
    BY <1>15 DEF TypeOK, TypeHandlers, TypeSession, ResumeOk, Goto, localVars, Labels,
       Calling, Commands, Exec
  <2>2. TypeCalls'
    BY <1>15, ReceiveType DEF TypeOK, ResumeOk
  <2> QED
    BY <1>15, <2>1, <2>2 DEF TypeOK, TypeSession, TypeWaiters, TypeConfig, TypeReplies,
       TypeProgram, sessionVars, waiterVars, configVars, programVars, ResumeOk
<1>16. ASSUME NEW h \in Handlers, ResumeFails(h) PROVE TypeOK'
  <2>1. TypeWaiters'
    BY <1>16, AbandonType DEF TypeOK, ResumeFails
  <2>2. TypeHandlers' /\ TypeReplies'
    BY <1>16, EventValues, ReturnType DEF TypeOK, ResumeFails
  <2>3. TypeCalls'
    BY <1>16, ForgetType DEF TypeOK, ResumeFails
  <2> QED
    BY <1>16, <2>1, <2>2, <2>3 DEF TypeOK, TypeSession, TypeConfig, TypeProgram,
       sessionVars, configVars, programVars, ResumeFails
<1>17. ASSUME NEW h \in Handlers, WaitTimeout(h) PROVE TypeOK'
  <2>1. TypeWaiters'
    BY <1>17, AbandonType DEF TypeOK, WaitTimeout
  <2>2. TypeHandlers' /\ TypeReplies'
    <3>1. NoEvent \in Event /\ state \in States
      BY EventValues DEF TypeOK, TypeSession
    <3> QED
      BY <1>17, <3>1, ReturnType DEF TypeOK, WaitTimeout
  <2> QED
    BY <1>17, <2>1, <2>2 DEF TypeOK, TypeSession, TypeConfig, TypeProgram, TypeCalls,
       sessionVars, configVars, programVars, callVars, WaitTimeout
<1>18. ASSUME NEW h \in Handlers, LocateSend(h) PROVE TypeOK'
  <2>1. TypeHandlers'
    BY <1>18 DEF TypeOK, TypeHandlers, TypeSession, LocateSend, Goto, localVars, Labels,
       Calling, Commands, Exec
  <2>2. TypeCalls'
    BY <1>18, SendType DEF TypeOK, LocateSend, Requests
  <2> QED
    BY <1>18, <2>1, <2>2 DEF TypeOK, TypeSession, TypeWaiters, TypeConfig, TypeReplies,
       TypeProgram, sessionVars, waiterVars, configVars, programVars, LocateSend
<1>19. ASSUME NEW h \in Handlers, ListenWait(h) PROVE TypeOK'
  <2>1. TypeWaiters'
    BY <1>19, InstallType DEF ListenWait
  <2>2. TypeHandlers'
    BY <1>19, InstallType DEF TypeOK, TypeHandlers, ListenWait, Goto, Labels
  <2> QED
    BY <1>19, <2>1, <2>2 DEF TypeOK, TypeSession, TypeConfig, TypeReplies, TypeProgram,
       TypeCalls, sessionVars, configVars, programVars, callVars, ListenWait
<1>20. ASSUME NEW h \in Handlers, RemoveSend(h) PROVE TypeOK'
  <2>1. TypeConfig'
    BY <1>20 DEF TypeOK, TypeConfig, RemoveSend, configVars
  <2>2. TypeHandlers'
    BY <1>20 DEF TypeOK, TypeHandlers, TypeSession, RemoveSend, Goto, localVars, Labels,
       Calling, Commands, Exec
  <2>3. TypeCalls'
    BY <1>20, SendType DEF TypeOK, RemoveSend, Requests
  <2> QED
    BY <1>20, <2>1, <2>2, <2>3 DEF TypeOK, TypeSession, TypeWaiters, TypeReplies,
       TypeProgram, sessionVars, waiterVars, programVars, RemoveSend
<1>21. ASSUME NEW h \in Handlers, RemoveNothing(h) PROVE TypeOK'
  <2>1. TypeHandlers'
    BY <1>21, FinishType DEF TypeOK, RemoveNothing
  <2> QED
    BY <1>21, <2>1 DEF TypeOK, TypeSession, TypeWaiters, TypeConfig, TypeReplies,
       TypeProgram, TypeCalls, sessionVars, waiterVars, configVars, programVars,
       callVars, RemoveNothing
<1>22. ASSUME NEW h \in Handlers, WaitEvent(h) PROVE TypeOK'
  <2> DEFINE st == WaitState(chan[h])
  <2>1. TypeSession' /\ TypeConfig' /\ TypeProgram' /\ TypeCalls'
    BY <1>22 DEF WaitEvent, TypeOK, TypeSession, TypeConfig, TypeProgram, TypeCalls,
       sessionVars, configVars, programVars, callVars
  <2>2. st \in States /\ state \in States /\ chan[h] \in Event /\ chan[h].loc \in Nat
    BY WaitStateType DEF TypeOK, TypeWaiters, TypeSession, Event
  <2>3. CASE Goto(h, "locate") /\ UNCHANGED <<reply, waiterVars, localVars>>
    BY <2>1, <2>3 DEF TypeOK, TypeWaiters, TypeReplies, TypeHandlers, Goto, Labels,
       waiterVars, localVars
  <2>4. CASE Goto(h, "remove") /\ AbandonWaiter(h) /\ UNCHANGED <<reply, localVars>>
    <3>1. TypeWaiters'
      BY <2>4, AbandonType DEF TypeOK
    <3> QED
      BY <2>1, <2>4, <3>1 DEF TypeOK, TypeReplies, TypeHandlers, Goto, Labels, localVars
  <2>5. CASE /\ \/ Return(h, "timeout", NoEvent, 0)
                \/ Return(h, st, chan[h], chan[h].loc)
                \/ Return(h, state, NoEvent, 0)
             /\ AbandonWaiter(h) /\ UNCHANGED cmds
    <3>1. TypeWaiters'
      BY <2>5, AbandonType DEF TypeOK
    <3>2. TypeHandlers' /\ TypeReplies'
      BY <2>2, <2>5, EventValues, ReturnType DEF TypeOK
    <3> QED
      BY <2>1, <3>1, <3>2 DEF TypeOK
  <2> QED
    BY <1>22, <2>3, <2>4, <2>5 DEF WaitEvent
<1>23. ASSUME NEW h \in Handlers, LocateOk(h) PROVE TypeOK'
  <2>1. answer[h].stop \in Nat /\ chan[h] \in Event /\ "paused" \in States
    BY DEF TypeOK, TypeCalls, TypeWaiters, Answer, States
  <2>2. TypeSession' /\ TypeWaiters'
    BY <1>23, <2>1, EventValues DEF LocateOk, TypeOK, TypeSession, TypeWaiters
  <2>3. TypeHandlers' /\ TypeReplies'
    BY <1>23, <2>1, ReturnType DEF LocateOk, TypeOK
  <2>4. TypeCalls'
    BY <1>23, ReceiveType DEF LocateOk, TypeOK
  <2> QED
    BY <1>23, <2>2, <2>3, <2>4 DEF LocateOk, TypeOK, TypeConfig, TypeProgram, configVars,
       programVars
<1>24. ASSUME NEW h \in Handlers, LocateFails(h) PROVE TypeOK'
  <2>1. chan[h] \in Event /\ "paused" \in States
    BY DEF TypeOK, TypeWaiters, States
  <2>2. TypeWaiters'
    BY <1>24, EventValues DEF LocateFails, TypeOK, TypeWaiters
  <2>3. TypeHandlers' /\ TypeReplies'
    BY <1>24, <2>1, ReturnType DEF LocateFails, TypeOK
  <2>4. TypeCalls'
    BY <1>24, ForgetType DEF LocateFails, TypeOK
  <2> QED
    BY <1>24, <2>2, <2>3, <2>4 DEF LocateFails, TypeOK, TypeSession, TypeConfig,
       TypeProgram,
       sessionVars, configVars, programVars
<1>25. ASSUME NEW h \in Handlers, Report(h) PROVE TypeOK'
  <2>1. PICK st \in States, ev \in Event, loc \in Nat : Return(h, st, ev, loc)
    <3>1. state \in States /\ seen[h] \in States /\ lastLocation \in Nat
      BY DEF TypeOK, TypeSession, TypeHandlers
    <3>2. NoEvent \in Event /\ lastTerminal \in Event /\ Ev("stopped", lastPause, 0) \in Event
      BY EventValues DEF TypeOK, TypeSession, Kinds
    <3>3. exitCode # NoCode => Ev("exited", 0, exitCode) \in Event
      BY EventValues DEF TypeOK, TypeSession, Kinds
    <3> QED
      BY <1>25, <3>1, <3>2, <3>3 DEF Report
  <2>2. TypeHandlers' /\ TypeReplies'
    BY <1>25, <2>1, ReturnType DEF Report, TypeOK
  <2> QED
    BY <1>25, <2>2 DEF Report, TypeOK, TypeSession, TypeWaiters, TypeConfig, TypeProgram,
       TypeCalls, sessionVars, waiterVars, configVars, programVars, callVars
<1>26. ASSUME NEW h \in Handlers, CloseRest(h) PROVE TypeOK'
  <2>1. TypeHandlers'
    BY <1>26, FinishType DEF CloseRest, TypeOK
  <2>2. TypeProgram'
    <3>1. events' \in Seq(Event) /\ lost' \in BOOLEAN
      BY <1>26, CutType DEF CloseRest, TypeOK
    <3> QED
      BY <1>26, <3>1 DEF CloseRest, TypeOK, TypeProgram
  <2>3. TypeCalls'
    BY <1>26, ReleaseType DEF CloseRest, TypeOK, TypeCalls, NoAnswer, Answer
  <2> QED
    BY <1>26, <2>1, <2>2, <2>3 DEF CloseRest, TypeOK, TypeSession, TypeWaiters,
       TypeConfig,
       TypeReplies, waiterVars, configVars
<1>27. ASSUME Pump PROVE TypeOK'
  <2>1. Head(events) \in Event /\ Tail(events) \in Seq(Event)
    BY <1>27 DEF Pump, TypeOK, TypeProgram
  <2>2. TypeSession' /\ TypeWaiters'
    BY <1>27, <2>1, HandleType DEF Pump, TypeOK
  <2>3. TypeProgram'
    BY <1>27, <2>1 DEF Pump, TypeOK, TypeProgram
  <2> QED
    BY <1>27, <2>2, <2>3 DEF Pump, TypeOK, TypeConfig, TypeHandlers, TypeReplies,
       TypeCalls,
       configVars, localVars, callVars
<1>28. ASSUME WatchAdapterExit PROVE TypeOK'
  <2>1. TypeConfig' /\ TypeHandlers' /\ TypeReplies' /\ TypeProgram' /\ TypeCalls'
    BY <1>28 DEF WatchAdapterExit, TypeOK, TypeConfig, TypeHandlers, TypeReplies,
       TypeProgram,
       TypeCalls, configVars, localVars, callVars
  <2>2. CASE UNCHANGED <<sessionVars, waiterVars>>
    BY <2>1, <2>2 DEF TypeOK, TypeSession, TypeWaiters, sessionVars, waiterVars
  <2>3. ASSUME NEW c \in Codes, state' = "terminated", exitCode' = c,
               lastTerminal' = Ev("died", 0, c), NotifyWaiters(Ev("died", 0, c)),
               UNCHANGED <<lastPause, lastLocation>>
        PROVE  TypeSession' /\ TypeWaiters'
    <3>1. c \in Nat /\ Ev("died", 0, c) \in TerminalEvent /\ Ev("died", 0, c) \in Event
      BY CodesAreNat, EventValues
    <3>2. TypeWaiters'
      BY <2>3, <3>1, NotifyType DEF TypeOK
    <3> QED
      BY <2>3, <3>1, <3>2 DEF TypeOK, TypeSession, States, Terminal
  <2> QED
    BY <1>28, <2>1, <2>2, <2>3 DEF WatchAdapterExit, TypeOK
<1>29. ASSUME TargetStops \/ TargetExits \/ TargetTerminates PROVE TypeOK'
  <2>1. PICK e \in Event : Emit(e)
    <3>1. CASE TargetStops
      BY <3>1, EventValues DEF TargetStops, TypeOK, TypeProgram, Kinds
    <3>2. CASE TargetExits
      BY <3>2, EventValues, CodesAreNat DEF TargetExits, Kinds
    <3>3. CASE TargetTerminates
      BY <3>3, EventValues DEF TargetTerminates, Kinds
    <3> QED
      BY <1>29, <3>1, <3>2, <3>3
  <2>2. events' \in Seq(Event) /\ lost' \in BOOLEAN
    BY <2>1, EmitType DEF TypeOK
  <2>3. TypeProgram'
    BY <1>29, <2>2 DEF TargetStops, TargetExits, TargetTerminates, TypeOK, TypeProgram
  <2>4. UNCHANGED <<sessionVars, waiterVars, configVars, registered, pc, localVars, reply, callVars>>
    BY <1>29 DEF TargetStops, TargetExits, TargetTerminates
  <2> QED
    BY <2>3, <2>4 DEF TypeOK, TypeSession, TypeWaiters, TypeConfig, TypeHandlers,
       TypeReplies,
       TypeCalls, sessionVars, waiterVars, configVars, localVars, callVars
<1>30. ASSUME AdapterDies PROVE TypeOK'
  <2>1. TypeProgram'
    <3>1. events' \in Seq(Event) /\ lost' \in BOOLEAN
      BY <1>30, CutType DEF AdapterDies, TypeOK
    <3> QED
      BY <1>30, <3>1 DEF AdapterDies, TypeOK, TypeProgram
  <2>2. TypeCalls'
    BY <1>30, ReleaseType DEF AdapterDies, TypeOK, TypeCalls
  <2> QED
    BY <1>30, <2>1, <2>2 DEF AdapterDies, TypeOK, TypeSession, TypeWaiters, TypeConfig,
       TypeHandlers, TypeReplies, sessionVars, waiterVars, configVars, localVars
<1>31. ASSUME AdapterServes PROVE TypeOK'
  <2>1. Head(inbox) \in Message /\ Tail(inbox) \in Seq(Message)
    BY <1>31 DEF AdapterServes, TypeOK, TypeCalls
  <2>2. TypeProgram' /\ answer' \in [Handlers -> Answer]
    BY <1>31, <2>1, ServeType DEF AdapterServes, TypeOK
  <2> QED
    BY <1>31, <2>1, <2>2 DEF AdapterServes, TypeOK, TypeSession, TypeWaiters, TypeConfig,
       TypeHandlers, TypeReplies, TypeCalls, sessionVars, waiterVars, configVars, localVars
<1> QED
  BY <1>1, <1>2, <1>3, <1>4, <1>5, <1>6, <1>7, <1>8, <1>9, <1>10, <1>11, <1>12, <1>13,
     <1>14,
     <1>15, <1>16, <1>17, <1>18, <1>19, <1>20, <1>21, <1>22, <1>23, <1>24, <1>25, <1>26,
     <1>27, <1>28, <1>29, <1>30, <1>31 DEF Next, ClientStep, HandlerStep, ProgramStep

\* A stuttering step keeps the types.
LEMMA TypeStutter == TypeOK /\ UNCHANGED vars => TypeOK'
BY DEF vars, TypeOK, TypeSession, TypeWaiters, TypeConfig, TypeHandlers, TypeReplies,
   TypeProgram, TypeCalls, sessionVars, waiterVars, configVars, localVars, programVars, callVars

\* Every variable of the session model keeps its type, whatever the handlers,
\* the adapter and the program do.
THEOREM TypeCorrect == Spec => []TypeOK
BY TypeInit, TypeNext, TypeStutter, PTL DEF Spec

-----------------------------------------------------------------------------
(* The inductive invariant.                                                *)

\* Every step keeps a handler on the path of its command.
LEMMA ControlNext ==
  ASSUME TypeOK, ControlInv, Next
  PROVE  ControlInv'
<1> USE DEF ControlInv, TypeOK, TypeHandlers, Exec, localVars
<1>1. ASSUME NEW h \in Handlers,
             ExecBegin(h)
      PROVE  ControlInv'
  BY <1>1 DEF ExecBegin, Begin, Accept, Goto, InstallStateWaiter
<1>2. ASSUME NEW h \in Handlers,
             UntilBegin(h)
      PROVE  ControlInv'
  BY <1>2 DEF UntilBegin, Accept, Goto
<1>3. ASSUME NEW h \in Handlers,
             PauseBegin(h) \/ StateBegin(h) \/ ListenBegin(h) \/ StopBegin(h)
      PROVE  ControlInv'
  BY <1>3 DEF PauseBegin, Begin, Accept, Goto, StateBegin, ListenBegin, StopBegin
<1>4. ASSUME NEW h \in Handlers,
             EnsureNothing(h) \/ EnsureSend(h) \/ EnsureOk(h)
      PROVE  ControlInv'
  BY <1>4 DEF EnsureNothing, Goto, EnsureSend, EnsureOk
<1>5. ASSUME NEW h \in Handlers,
             EnsureFails(h) \/ ResumeFails(h) \/ WaitTimeout(h)
      PROVE  ControlInv'
  BY <1>5 DEF EnsureFails, AbandonWaiter, Return, Finish, Goto, ResumeFails, WaitTimeout
<1>6. ASSUME NEW h \in Handlers,
             UntilRefused(h) \/ Report(h)
      PROVE  ControlInv'
  BY <1>6 DEF UntilRefused, Return, Finish, Goto, Report
<1>7. ASSUME NEW h \in Handlers,
             Arm(h) \/ ListenWait(h)
      PROVE  ControlInv'
  BY <1>7 DEF Arm, Goto, InstallStateWaiter, ListenWait
<1>8. ASSUME NEW h \in Handlers,
             ResumeSend(h) \/ ResumeSkip(h) \/ ResumeOk(h) \/ LocateSend(h)
      PROVE  ControlInv'
  BY <1>8 DEF ResumeSend, Goto, ResumeSkip, ResumeOk, LocateSend
<1>9. ASSUME NEW h \in Handlers,
             WaitEvent(h)
      PROVE  ControlInv'
  BY <1>9 DEF WaitEvent, AbandonWaiter, Return, Finish, Goto
<1>10. ASSUME NEW h \in Handlers,
             LocateOk(h) \/ LocateFails(h)
      PROVE  ControlInv'
  BY <1>10 DEF LocateOk, Return, Finish, Goto, LocateFails
<1>11. ASSUME NEW h \in Handlers,
             RemoveSend(h) \/ RemoveNothing(h) \/ CloseRest(h)
      PROVE  ControlInv'
  BY <1>11 DEF RemoveSend, Goto, RemoveNothing, Finish, CloseRest
<1>12. ASSUME Pump
      PROVE  ControlInv'
  BY <1>12 DEF Pump, HandleStopped, HandleContinued, HandleExited, HandleTerminated,
     NotifyWaiters
<1>13. ASSUME WatchAdapterExit
      PROVE  ControlInv'
  BY <1>13 DEF WatchAdapterExit, NotifyWaiters
<1>14. ASSUME TargetStops \/ TargetExits \/ TargetTerminates \/ AdapterDies \/ AdapterServes
      PROVE  ControlInv'
  BY <1>14 DEF TargetStops, TargetExits, TargetTerminates, AdapterDies, AdapterServes
<1> QED
  BY <1>1, <1>2, <1>3, <1>4, <1>5, <1>6, <1>7, <1>8, <1>9, <1>10, <1>11, <1>12, <1>13,
     <1>14 DEF Next, ClientStep, HandlerStep, ProgramStep

\* Every step keeps the waiters accounted for: an armed handler is registered or
\* has its event (installStateWaiter, notifyWaiters).
LEMMA WaiterNext ==
  ASSUME TypeOK, ControlInv, WaiterAccounted, Next
  PROVE  WaiterAccounted'
<1> USE DEF WaiterAccounted, ControlInv, Armed, TypeOK, TypeWaiters, TypeHandlers, Exec,
   NoEvent, Ev, Paused, waiterVars, localVars
<1>1. ASSUME NEW h \in Handlers,
             ExecBegin(h)
      PROVE  WaiterAccounted'
  BY <1>1 DEF ExecBegin, Begin, Accept, Goto, InstallStateWaiter
<1>2. ASSUME NEW h \in Handlers,
             UntilBegin(h)
      PROVE  WaiterAccounted'
  BY <1>2 DEF UntilBegin, Accept, Goto
<1>3. ASSUME NEW h \in Handlers,
             PauseBegin(h) \/ StateBegin(h) \/ ListenBegin(h) \/ StopBegin(h)
      PROVE  WaiterAccounted'
  BY <1>3 DEF PauseBegin, Begin, Accept, Goto, StateBegin, ListenBegin, StopBegin
<1>4. ASSUME NEW h \in Handlers,
             EnsureNothing(h) \/ EnsureSend(h) \/ EnsureOk(h)
      PROVE  WaiterAccounted'
  BY <1>4 DEF EnsureNothing, Goto, EnsureSend, EnsureOk
<1>5. ASSUME NEW h \in Handlers,
             EnsureFails(h) \/ ResumeFails(h) \/ WaitTimeout(h)
      PROVE  WaiterAccounted'
  BY <1>5 DEF EnsureFails, AbandonWaiter, Return, Finish, Goto, ResumeFails, WaitTimeout
<1>6. ASSUME NEW h \in Handlers,
             UntilRefused(h) \/ Report(h)
      PROVE  WaiterAccounted'
  BY <1>6 DEF UntilRefused, Return, Finish, Goto, Report
<1>7. ASSUME NEW h \in Handlers,
             Arm(h) \/ ListenWait(h)
      PROVE  WaiterAccounted'
  BY <1>7 DEF Arm, Goto, InstallStateWaiter, ListenWait
<1>8. ASSUME NEW h \in Handlers,
             ResumeSend(h) \/ ResumeSkip(h) \/ ResumeOk(h) \/ LocateSend(h)
      PROVE  WaiterAccounted'
  BY <1>8 DEF ResumeSend, Goto, ResumeSkip, ResumeOk, LocateSend
<1>9. ASSUME NEW h \in Handlers,
             WaitEvent(h)
      PROVE  WaiterAccounted'
  BY <1>9 DEF WaitEvent, AbandonWaiter, Return, Finish, Goto
<1>10. ASSUME NEW h \in Handlers,
             LocateOk(h) \/ LocateFails(h)
      PROVE  WaiterAccounted'
  BY <1>10 DEF LocateOk, Return, Finish, Goto, LocateFails
<1>11. ASSUME NEW h \in Handlers,
             RemoveSend(h) \/ RemoveNothing(h) \/ CloseRest(h)
      PROVE  WaiterAccounted'
  BY <1>11 DEF RemoveSend, Goto, RemoveNothing, Finish, CloseRest
<1>12. ASSUME Pump
      PROVE  WaiterAccounted'
  BY <1>12 DEF Pump, HandleStopped, HandleContinued, HandleExited, HandleTerminated,
     NotifyWaiters
<1>13. ASSUME WatchAdapterExit
      PROVE  WaiterAccounted'
  BY <1>13 DEF WatchAdapterExit, NotifyWaiters
<1>14. ASSUME TargetStops \/ TargetExits \/ TargetTerminates \/ AdapterDies \/ AdapterServes
      PROVE  WaiterAccounted'
  BY <1>14 DEF TargetStops, TargetExits, TargetTerminates, AdapterDies, AdapterServes
<1> QED
  BY <1>1, <1>2, <1>3, <1>4, <1>5, <1>6, <1>7, <1>8, <1>9, <1>10, <1>11, <1>12, <1>13,
     <1>14 DEF Next, ClientStep, HandlerStep, ProgramStep

\* No step registers a waiter once a terminal event is recorded.
LEMMA ReleaseNext ==
  ASSUME TypeOK, TerminalReleasesWaiters, Next
  PROVE  TerminalReleasesWaiters'
<1> USE DEF TerminalReleasesWaiters, TypeOK, TypeWaiters, NoEvent, Ev, sessionVars,
   waiterVars
<1>1. ASSUME NEW h \in Handlers,
             ExecBegin(h)
      PROVE  TerminalReleasesWaiters'
  BY <1>1 DEF ExecBegin, Begin, Accept, Goto, InstallStateWaiter
<1>2. ASSUME NEW h \in Handlers,
             UntilBegin(h)
      PROVE  TerminalReleasesWaiters'
  BY <1>2 DEF UntilBegin, Accept, Goto
<1>3. ASSUME NEW h \in Handlers,
             PauseBegin(h) \/ StateBegin(h) \/ ListenBegin(h) \/ StopBegin(h)
      PROVE  TerminalReleasesWaiters'
  BY <1>3 DEF PauseBegin, Begin, Accept, Goto, StateBegin, ListenBegin, StopBegin
<1>4. ASSUME NEW h \in Handlers,
             EnsureNothing(h) \/ EnsureSend(h) \/ EnsureOk(h)
      PROVE  TerminalReleasesWaiters'
  BY <1>4 DEF EnsureNothing, Goto, EnsureSend, EnsureOk
<1>5. ASSUME NEW h \in Handlers,
             EnsureFails(h) \/ ResumeFails(h) \/ WaitTimeout(h)
      PROVE  TerminalReleasesWaiters'
  BY <1>5 DEF EnsureFails, AbandonWaiter, Return, Finish, Goto, ResumeFails, WaitTimeout
<1>6. ASSUME NEW h \in Handlers,
             UntilRefused(h) \/ Report(h)
      PROVE  TerminalReleasesWaiters'
  BY <1>6 DEF UntilRefused, Return, Finish, Goto, Report
<1>7. ASSUME NEW h \in Handlers,
             Arm(h) \/ ListenWait(h)
      PROVE  TerminalReleasesWaiters'
  BY <1>7 DEF Arm, Goto, InstallStateWaiter, ListenWait
<1>8. ASSUME NEW h \in Handlers,
             ResumeSend(h) \/ ResumeSkip(h) \/ ResumeOk(h) \/ LocateSend(h)
      PROVE  TerminalReleasesWaiters'
  BY <1>8 DEF ResumeSend, Goto, ResumeSkip, ResumeOk, LocateSend
<1>9. ASSUME NEW h \in Handlers,
             WaitEvent(h)
      PROVE  TerminalReleasesWaiters'
  BY <1>9 DEF WaitEvent, AbandonWaiter, Return, Finish, Goto
<1>10. ASSUME NEW h \in Handlers,
             LocateOk(h) \/ LocateFails(h)
      PROVE  TerminalReleasesWaiters'
  BY <1>10 DEF LocateOk, Return, Finish, Goto, LocateFails
<1>11. ASSUME NEW h \in Handlers,
             RemoveSend(h) \/ RemoveNothing(h) \/ CloseRest(h)
      PROVE  TerminalReleasesWaiters'
  BY <1>11 DEF RemoveSend, Goto, RemoveNothing, Finish, CloseRest
<1>12. ASSUME Pump
      PROVE  TerminalReleasesWaiters'
  BY <1>12 DEF Pump, HandleStopped, HandleContinued, HandleExited, HandleTerminated,
     NotifyWaiters
<1>13. ASSUME WatchAdapterExit
      PROVE  TerminalReleasesWaiters'
  BY <1>13 DEF WatchAdapterExit, NotifyWaiters
<1>14. ASSUME TargetStops \/ TargetExits \/ TargetTerminates \/ AdapterDies \/ AdapterServes
      PROVE  TerminalReleasesWaiters'
  BY <1>14 DEF TargetStops, TargetExits, TargetTerminates, AdapterDies, AdapterServes
<1> QED
  BY <1>1, <1>2, <1>3, <1>4, <1>5, <1>6, <1>7, <1>8, <1>9, <1>10, <1>11, <1>12, <1>13,
     <1>14 DEF Next, ClientStep, HandlerStep, ProgramStep

\* The terminal record is in place before a terminal state can be read.
LEMMA FactsNext ==
  ASSUME TypeOK, FactsInv, Next
  PROVE  FactsInv'
<1> USE DEF FactsInv, TerminalHasFacts, TypeOK, TypeHandlers, TypeReplies, TypeSession,
   TypeWaiters, Terminal, NoEvent, Ev, sessionVars, localVars
<1>1. ASSUME NEW h \in Handlers,
             ExecBegin(h)
      PROVE  FactsInv'
  BY <1>1 DEF ExecBegin, Begin, Accept, Goto, InstallStateWaiter
<1>2. ASSUME NEW h \in Handlers,
             UntilBegin(h)
      PROVE  FactsInv'
  BY <1>2 DEF UntilBegin, Accept, Goto
<1>3. ASSUME NEW h \in Handlers,
             PauseBegin(h) \/ StateBegin(h) \/ ListenBegin(h) \/ StopBegin(h)
      PROVE  FactsInv'
  BY <1>3 DEF PauseBegin, Begin, Accept, Goto, StateBegin, ListenBegin, StopBegin
<1>4. ASSUME NEW h \in Handlers,
             EnsureNothing(h) \/ EnsureSend(h) \/ EnsureOk(h)
      PROVE  FactsInv'
  BY <1>4 DEF EnsureNothing, Goto, EnsureSend, EnsureOk
<1>5. ASSUME NEW h \in Handlers,
             EnsureFails(h) \/ ResumeFails(h) \/ WaitTimeout(h)
      PROVE  FactsInv'
  BY <1>5 DEF EnsureFails, AbandonWaiter, Return, Finish, Goto, ResumeFails, WaitTimeout
<1>6. ASSUME NEW h \in Handlers,
             UntilRefused(h) \/ Report(h)
      PROVE  FactsInv'
  BY <1>6 DEF UntilRefused, Return, Finish, Goto, Report
<1>7. ASSUME NEW h \in Handlers,
             Arm(h) \/ ListenWait(h)
      PROVE  FactsInv'
  BY <1>7 DEF Arm, Goto, InstallStateWaiter, ListenWait
<1>8. ASSUME NEW h \in Handlers,
             ResumeSend(h) \/ ResumeSkip(h) \/ ResumeOk(h) \/ LocateSend(h)
      PROVE  FactsInv'
  BY <1>8 DEF ResumeSend, Goto, ResumeSkip, ResumeOk, LocateSend
<1>9. ASSUME NEW h \in Handlers,
             WaitEvent(h)
      PROVE  FactsInv'
  BY <1>9 DEF WaitEvent, AbandonWaiter, Return, Finish, Goto
<1>10. ASSUME NEW h \in Handlers,
             LocateOk(h) \/ LocateFails(h)
      PROVE  FactsInv'
  BY <1>10 DEF LocateOk, Return, Finish, Goto, LocateFails
<1>11. ASSUME NEW h \in Handlers,
             RemoveSend(h) \/ RemoveNothing(h) \/ CloseRest(h)
      PROVE  FactsInv'
  BY <1>11 DEF RemoveSend, Goto, RemoveNothing, Finish, CloseRest
<1>12. ASSUME Pump
      PROVE  FactsInv'
  BY <1>12 DEF Pump, HandleStopped, HandleContinued, HandleExited, HandleTerminated,
     NotifyWaiters
<1>13. ASSUME WatchAdapterExit
      PROVE  FactsInv'
  BY <1>13 DEF WatchAdapterExit, NotifyWaiters
<1>14. ASSUME TargetStops \/ TargetExits \/ TargetTerminates \/ AdapterDies \/ AdapterServes
      PROVE  FactsInv'
  BY <1>14 DEF TargetStops, TargetExits, TargetTerminates, AdapterDies, AdapterServes
<1> QED
  BY <1>1, <1>2, <1>3, <1>4, <1>5, <1>6, <1>7, <1>8, <1>9, <1>10, <1>11, <1>12, <1>13,
     <1>14 DEF Next, ClientStep, HandlerStep, ProgramStep

\* Nothing reaches a resume, or records a location, before configurationDone.
LEMMA ConfiguredNext ==
  ASSUME TypeOK, ControlInv, ConfiguredInv, Next
  PROVE  ConfiguredInv'
<1> USE DEF ConfiguredInv, ControlInv, PastEnsure, TypeOK, TypeHandlers, TypeConfig,
   Exec, sessionVars, configVars, localVars
<1>1. ASSUME NEW h \in Handlers,
             ExecBegin(h)
      PROVE  ConfiguredInv'
  BY <1>1 DEF ExecBegin, Begin, Accept, Goto, InstallStateWaiter
<1>2. ASSUME NEW h \in Handlers,
             UntilBegin(h)
      PROVE  ConfiguredInv'
  BY <1>2 DEF UntilBegin, Accept, Goto
<1>3. ASSUME NEW h \in Handlers,
             PauseBegin(h) \/ StateBegin(h) \/ ListenBegin(h) \/ StopBegin(h)
      PROVE  ConfiguredInv'
  BY <1>3 DEF PauseBegin, Begin, Accept, Goto, StateBegin, ListenBegin, StopBegin
<1>4. ASSUME NEW h \in Handlers,
             EnsureNothing(h) \/ EnsureSend(h) \/ EnsureOk(h)
      PROVE  ConfiguredInv'
  BY <1>4 DEF EnsureNothing, Goto, EnsureSend, EnsureOk
<1>5. ASSUME NEW h \in Handlers,
             EnsureFails(h) \/ ResumeFails(h) \/ WaitTimeout(h)
      PROVE  ConfiguredInv'
  BY <1>5 DEF EnsureFails, AbandonWaiter, Return, Finish, Goto, ResumeFails, WaitTimeout
<1>6. ASSUME NEW h \in Handlers,
             UntilRefused(h) \/ Report(h)
      PROVE  ConfiguredInv'
  BY <1>6 DEF UntilRefused, Return, Finish, Goto, Report
<1>7. ASSUME NEW h \in Handlers,
             Arm(h) \/ ListenWait(h)
      PROVE  ConfiguredInv'
  BY <1>7 DEF Arm, Goto, InstallStateWaiter, ListenWait
<1>8. ASSUME NEW h \in Handlers,
             ResumeSend(h) \/ ResumeSkip(h) \/ ResumeOk(h) \/ LocateSend(h)
      PROVE  ConfiguredInv'
  BY <1>8 DEF ResumeSend, Goto, ResumeSkip, ResumeOk, LocateSend
<1>9. ASSUME NEW h \in Handlers,
             WaitEvent(h)
      PROVE  ConfiguredInv'
  BY <1>9 DEF WaitEvent, AbandonWaiter, Return, Finish, Goto
<1>10. ASSUME NEW h \in Handlers,
             LocateOk(h) \/ LocateFails(h)
      PROVE  ConfiguredInv'
  BY <1>10 DEF LocateOk, Return, Finish, Goto, LocateFails
<1>11. ASSUME NEW h \in Handlers,
             RemoveSend(h) \/ RemoveNothing(h) \/ CloseRest(h)
      PROVE  ConfiguredInv'
  <2>1. CASE RemoveSend(h)
    BY <2>1 DEF RemoveSend, Goto
  <2>2. CASE RemoveNothing(h)
    BY <2>2 DEF RemoveNothing, Finish, Goto
  <2>3. CASE CloseRest(h)
    BY <2>3 DEF CloseRest, Finish, Goto
  <2> QED
    BY <1>11, <2>1, <2>2, <2>3
<1>12. ASSUME Pump
      PROVE  ConfiguredInv'
  BY <1>12 DEF Pump, HandleStopped, HandleContinued, HandleExited, HandleTerminated,
     NotifyWaiters
<1>13. ASSUME WatchAdapterExit
      PROVE  ConfiguredInv'
  BY <1>13 DEF WatchAdapterExit, NotifyWaiters
<1>14. ASSUME TargetStops \/ TargetExits \/ TargetTerminates \/ AdapterDies \/ AdapterServes
      PROVE  ConfiguredInv'
  BY <1>14 DEF TargetStops, TargetExits, TargetTerminates, AdapterDies, AdapterServes
<1> QED
  BY <1>1, <1>2, <1>3, <1>4, <1>5, <1>6, <1>7, <1>8, <1>9, <1>10, <1>11, <1>12, <1>13,
     <1>14 DEF Next, ClientStep, HandlerStep, ProgramStep

\* Only the pump and the process watcher touch the terminal record.
LEMMA RecordSteps ==
  ASSUME Next
  PROVE  UNCHANGED <<state, lastTerminal, exitCode>> \/ Pump \/ WatchAdapterExit
<1>1. ASSUME NEW h \in Handlers, ClientStep(h)
      PROVE  UNCHANGED <<state, lastTerminal, exitCode>>
  BY <1>1 DEF ClientStep, ExecBegin, UntilBegin, PauseBegin, StateBegin, ListenBegin,
     StopBegin, sessionVars
<1>2. ASSUME NEW h \in Handlers, HandlerStep(h)
      PROVE  UNCHANGED <<state, lastTerminal, exitCode>>
  BY <1>2 DEF HandlerStep, EnsureNothing, EnsureSend, EnsureOk, EnsureFails, UntilRefused,
     Arm, ResumeSend, ResumeSkip, ResumeOk, ResumeFails, WaitEvent, WaitTimeout,
     LocateSend, LocateOk, LocateFails, Report, ListenWait, RemoveSend, RemoveNothing,
     CloseRest, sessionVars
<1>3. ASSUME ProgramStep
      PROVE  UNCHANGED <<state, lastTerminal, exitCode>>
  BY <1>3 DEF ProgramStep, TargetStops, TargetExits, TargetTerminates, AdapterDies,
     AdapterServes, sessionVars
<1> QED
  BY <1>1, <1>2, <1>3 DEF Next

\* The pump and the watcher keep ExitCode and LastTerminal in agreement.
LEMMA ExitCodeNext ==
  ASSUME TypeOK, ExitCodeAgrees, Next
  PROVE  ExitCodeAgrees'
<1> USE DEF ExitCodeAgrees, HasCode
<1>1. CASE UNCHANGED <<state, lastTerminal, exitCode>>
  BY <1>1
<1>2. CASE Pump
  BY <1>2 DEF Pump, HandleStopped, HandleContinued, HandleExited, HandleTerminated
<1>3. CASE WatchAdapterExit
  <2>1. CASE UNCHANGED sessionVars
    BY <2>1 DEF sessionVars
  <2>2. CASE \E c \in Codes : lastTerminal' = Ev("died", 0, c) /\ exitCode' = c
    BY <2>2 DEF Ev
  <2> QED
    BY <1>3, <2>1, <2>2 DEF WatchAdapterExit
<1> QED
  BY <1>1, <1>2, <1>3, RecordSteps

\* The initial states satisfy the inductive invariant.
LEMMA InvInit == Init => Inv
<1> SUFFICES ASSUME Init PROVE Inv
  OBVIOUS
<1>1. ControlInv /\ ConfiguredInv
  BY DEF Init, ControlInv, ConfiguredInv, PastEnsure, Exec
<1>2. WaiterAccounted /\ TerminalReleasesWaiters
  BY DEF Init, WaiterAccounted, Armed, TerminalReleasesWaiters, Exec
<1>3. FactsInv /\ ExitCodeAgrees
  BY DEF Init, FactsInv, TerminalHasFacts, ExitCodeAgrees, HasCode, Terminal, NoReply, NoEvent
<1> QED
  BY <1>1, <1>2, <1>3 DEF Inv

\* A stuttering step keeps the inductive invariant.
LEMMA InvStutter == Inv /\ UNCHANGED vars => Inv'
<1> SUFFICES ASSUME Inv, UNCHANGED vars PROVE Inv'
  OBVIOUS
<1> USE DEF Inv, vars, sessionVars, waiterVars, configVars, localVars
<1>1. ControlInv' /\ ConfiguredInv'
  BY DEF ControlInv, ConfiguredInv, PastEnsure
<1>2. WaiterAccounted' /\ TerminalReleasesWaiters'
  BY DEF WaiterAccounted, Armed, TerminalReleasesWaiters
<1>3. FactsInv' /\ ExitCodeAgrees'
  BY DEF FactsInv, TerminalHasFacts, ExitCodeAgrees, HasCode
<1> QED
  BY <1>1, <1>2, <1>3

\* Inv is inductive: the initial states satisfy it and every step keeps it.
THEOREM Invariance == Spec => []Inv
<1>1. TypeOK /\ Inv /\ Next => Inv'
  BY ControlNext, ConfiguredNext, WaiterNext, ReleaseNext, FactsNext, ExitCodeNext DEF Inv
<1> QED
  BY <1>1, InvInit, InvStutter, TypeCorrect, PTL DEF Spec

-----------------------------------------------------------------------------
(* What the invariant gives.                                               *)

\* No wakeup of a stop waiter is lost: a handler about to select on its channel
\* finds its event there or its channel still registered with the session.
THEOREM NoLostWakeup == Spec => []WaiterAccounted
<1>1. Inv => WaiterAccounted
  BY DEF Inv
<1> QED
  BY <1>1, Invariance, PTL

\* After a terminal event no waiter is registered, nor left behind by a handler
\* that gave up.
THEOREM TerminalReleases == Spec => []TerminalReleasesWaiters
<1>1. Inv => TerminalReleasesWaiters
  BY DEF Inv
<1> QED
  BY <1>1, Invariance, PTL

\* state and listen always find the facts of a terminal state they report, though
\* they read the state and the facts under separate acquisitions of the lock.
THEOREM TerminalFacts == Spec => []TerminalHasFacts
<1>1. Inv => TerminalHasFacts
  BY DEF Inv, FactsInv
<1> QED
  BY <1>1, Invariance, PTL

\* The two places that hold the exit code agree.
THEOREM ExitCodesAgree == Spec => []ExitCodeAgrees
<1>1. Inv => ExitCodeAgrees
  BY DEF Inv
<1> QED
  BY <1>1, Invariance, PTL

\* until never resumes a program whose configurationDone is still deferred,
\* although handleUntil does not call EnsureConfigurationDone.
THEOREM UntilConfigured == Spec => []UntilIsConfigured
<1>1. Inv => UntilIsConfigured
  BY DEF Inv, ConfiguredInv, PastEnsure, UntilIsConfigured
<1> QED
  BY <1>1, Invariance, PTL

-----------------------------------------------------------------------------
(* The event stream and the calls.                                         *)
(*                                                                         *)
(* What the adapter, the program and the pipe can do to the stream is      *)
(* collected in five moves (Still .. Ended), so that the facts about the   *)
(* order of events are shown move by move:                                 *)
(*                                                                         *)
(*   - stops arrive in order, and none that the session knows of arrives   *)
(*     again (StopsInv), so a waiter installed at a pause gets a later one *)
(*     (SinceInv);                                                         *)
(*   - nothing but a terminated event follows an exited event (EndInv), so *)
(*     nothing brings the session back and lets the process watcher        *)
(*     replace the exit code.                                              *)
(*                                                                         *)
(* A call is answered once and by its own request (CallsInv).  With that,  *)
(* a resume that was answered has let the program go, and whatever stops   *)
(* it afterwards finds the waiter in the list (FlightInv).                 *)
(*                                                                         *)
(* The lock of EnsureConfigurationDone makes one request out of many       *)
(* (DeferInv) as long as no call is given up while its request is still    *)
(* on its way; a time-out does just that, hence the hypotheses ~Timeouts.  *)

StopsInv ==
  /\ lastPause <= stops
  /\ \A i \in DOMAIN events :
       events[i].kind = "stopped" => lastPause < events[i].stop /\ events[i].stop <= stops
  /\ \A i, j \in DOMAIN events :
       i < j /\ events[i].kind = "stopped" /\ events[j].kind = "stopped"
         => events[i].stop < events[j].stop

SinceInv == \A h \in Handlers : since[h] <= lastPause

Over == target \in {"exiting", "gone"}

EndInv ==
  /\ \A i, j \in DOMAIN events :
       i < j /\ events[i].kind = "exited" => events[j].kind = "terminated"
  /\ \A i \in DOMAIN events : events[i].kind = "exited" => Over
  /\ lastTerminal.kind = "exited" =>
       state = "exited" /\ Over /\ \A i \in DOMAIN events : events[i].kind = "terminated"

\* The request that the handler's call is about.
Asked(h) ==
  CASE pc[h] = "configuring"   -> "configurationDone"
    [] pc[h] = "resuming"      -> IF cmd[h] = "pause" THEN "pause" ELSE "continue"
    [] pc[h] = "locating"      -> "stackTrace"
    [] pc[h] = "disconnecting" -> "disconnect"
    [] OTHER                   -> "none"

CallsInv ==
  /\ \A i \in DOMAIN inbox :
       inbox[i].from # NoOne =>
         inbox[i].req = Asked(inbox[i].from) /\ answer[inbox[i].from].st = "none"
  /\ \A i, j \in DOMAIN inbox :
       inbox[i].from # NoOne /\ inbox[i].from = inbox[j].from => i = j

\* configDoneMu is held exactly during the call, and the call is only made while
\* the request is deferred.
LockInv ==
  \A h \in Handlers :
    /\ pc[h] = "configuring" <=> configDoneMu = h
    /\ pc[h] = "configuring" => pendingConfigDone
    /\ pc[h] = "arm" => cmd[h] \in {"until", "pause"}

Answered == \E h \in Handlers : pc[h] = "configuring" /\ answer[h].st = "ok"

DeferInv ==
  /\ adapter = "down" => inbox = <<>> /\ target = "gone"
  /\ adapter = "up" => \A h \in Handlers : pc[h] = "configuring" => answer[h].st # "error"
  /\ \A i \in DOMAIN inbox : inbox[i].req = "configurationDone" => inbox[i].from # NoOne
  /\ adapter = "up" /\ pendingConfigDone /\ ~Answered => configs = 0 /\ target \in {"suspended", "gone"}
  /\ ConfigurationDoneOnce

\* The handler's resume, or the configurationDone that stands for it, was answered.
Resumed(h) ==
  \/ pc[h] = "wait"
  \/ pc[h] = "resuming" /\ answer[h].st = "ok"
  \/ pc[h] = "resume" /\ SkipsResume(h)
  \/ pc[h] = "configuring" /\ answer[h].st = "ok" /\ Java

FlightInv ==
  \A h \in Handlers :
    /\ Resumed(h) /\ cmd[h] \in Exec \cup {"until"} /\ chan[h] = NoEvent
    /\ target = "stopped" /\ ~lost
    => \E i \in DOMAIN events : events[i] = Ev("stopped", stops, 0)

-----------------------------------------------------------------------------
(* What happens to the stream.                                             *)

\* The program and the stream stay as they are.
Still == UNCHANGED <<target, stops, events, lost>>

\* The program goes on, is stopped, exits; the program, or the adapter, ends.
Ran ==
  /\ target \in {"suspended", "stopped"} /\ target' = "running" /\ UNCHANGED stops
  /\ Emit(Ev("continued", 0, 0)) \/ UNCHANGED <<events, lost>>

Halted ==
  /\ target = "running" /\ target' = "stopped" /\ stops' = stops + 1
  /\ Emit(Ev("stopped", stops + 1, 0))

Exited ==
  /\ target = "running" /\ target' = "exiting" /\ UNCHANGED stops
  /\ \E c \in Codes : Emit(Ev("exited", 0, c))

Ended ==
  /\ target' = "gone" /\ UNCHANGED stops
  /\ Emit(Ev("terminated", 0, 0)) \/ UNCHANGED <<events, lost>> \/ CutStream

Moves == Still \/ Ran \/ Halted \/ Exited \/ Ended

\* A request moves the program in one of these ways.
LEMMA ServeMoves ==
  ASSUME AdapterServes
  PROVE  Moves
<1>1. PICK r : \/ ServeConfigurationDone(r) \/ ServeContinue(r) \/ ServePause(r)
               \/ ServeStackTrace(r) \/ ServeDisconnect(r)
  BY DEF AdapterServes
<1>2. CASE ServeConfigurationDone(r)
  <2>1. CASE target = "suspended"
    BY <1>2, <2>1 DEF ServeConfigurationDone, Moves, Ran
  <2>2. CASE target # "suspended"
    BY <1>2, <2>2 DEF ServeConfigurationDone, Moves, Still
  <2> QED
    BY <2>1, <2>2
<1>3. CASE ServeContinue(r)
  <2>1. CASE \E st : Ignored(r, st)
    BY <2>1 DEF Ignored, Moves, Still
  <2>2. CASE target = "stopped" /\ target' = "running" /\ UNCHANGED stops
             /\ (Emit(Ev("continued", 0, 0)) \/ UNCHANGED <<events, lost>>)
    BY <2>2 DEF Moves, Ran
  <2> QED
    BY <1>3, <2>1, <2>2 DEF ServeContinue
<1>4. CASE ServePause(r)
  <2>1. CASE \E st : Ignored(r, st)
    BY <2>1 DEF Ignored, Moves, Still
  <2>2. CASE Halted
    BY <2>2 DEF Moves
  <2> QED
    BY <1>4, <2>1, <2>2 DEF ServePause, Halted
<1>5. CASE ServeStackTrace(r)
  BY <1>5 DEF ServeStackTrace, Moves, Still
<1>6. CASE ServeDisconnect(r)
  BY <1>6 DEF ServeDisconnect, Moves, Ended
<1> QED
  BY <1>1, <1>2, <1>3, <1>4, <1>5, <1>6

\* So does every step but the pump's, which takes the next event.
LEMMA StreamSteps ==
  ASSUME Next
  PROVE  Pump \/ (UNCHANGED lastPause /\ Moves)
<1>1. ASSUME NEW h \in Handlers, ClientStep(h)
      PROVE  UNCHANGED lastPause /\ Still
  BY <1>1 DEF ClientStep, ExecBegin, UntilBegin, PauseBegin, StateBegin, ListenBegin,
     StopBegin, sessionVars, programVars, Still
<1>2. ASSUME NEW h \in Handlers, HandlerStep(h), ~CloseRest(h)
      PROVE  UNCHANGED lastPause /\ Still
  BY <1>2 DEF HandlerStep, EnsureNothing, EnsureSend, EnsureOk, EnsureFails, UntilRefused,
     Arm, ResumeSend, ResumeSkip, ResumeOk, ResumeFails, WaitEvent, WaitTimeout,
     LocateSend, LocateOk, LocateFails, Report, ListenWait, RemoveSend, RemoveNothing,
     sessionVars, programVars, Still
<1>3. ASSUME NEW h \in Handlers, CloseRest(h)
      PROVE  UNCHANGED lastPause /\ Ended
  BY <1>3 DEF CloseRest, Ended
<1>4. CASE WatchAdapterExit
  BY <1>4 DEF WatchAdapterExit, sessionVars, Still, Moves
<1>5. CASE TargetStops \/ TargetExits
  BY <1>5 DEF TargetStops, TargetExits, sessionVars, Moves, Halted, Exited
<1>6. CASE TargetTerminates \/ AdapterDies
  BY <1>6 DEF TargetTerminates, AdapterDies, sessionVars, Moves, Ended
<1>7. CASE AdapterServes
  BY <1>7, ServeMoves DEF AdapterServes, sessionVars
<1> QED
  BY <1>1, <1>2, <1>3, <1>4, <1>5, <1>6, <1>7 DEF Next, ProgramStep, Moves

\* A stream, entry by entry: an event is appended or dropped.
LEMMA Emitting ==
  ASSUME events \in Seq(Event), NEW e \in Event, Emit(e)
  PROVE  /\ DOMAIN events = 1..Len(events) /\ Len(events) \in Nat
         /\ \/ UNCHANGED events /\ lost'
            \/ /\ DOMAIN events' = 1..(Len(events) + 1) /\ UNCHANGED lost
               /\ events'[Len(events) + 1] = e
               /\ \A i \in DOMAIN events : events'[i] = events[i]
BY DEF Emit

\* The stream of a dead adapter is cut short.
LEMMA Cutting ==
  ASSUME events \in Seq(Event), CutStream
  PROVE  /\ DOMAIN events' \subseteq DOMAIN events
         /\ \A i \in DOMAIN events' : events'[i] = events[i]
         /\ DOMAIN events = 1..Len(events)
<1>1. PICK n \in 0..Len(events) : events' = SubSeq(events, 1, n)
  BY DEF CutStream
<1>2. Len(events) \in Nat /\ DOMAIN events = 1..Len(events)
  OBVIOUS
<1>3. DOMAIN events' = 1..n /\ \A i \in 1..n : events'[i] = events[i]
  BY <1>1, <1>2
<1> QED
  BY <1>2, <1>3

\* The pump takes the first event.
LEMMA Pumping ==
  ASSUME events \in Seq(Event), Pump
  PROVE  /\ Len(events) \in Nat \ {0} /\ DOMAIN events = 1..Len(events)
         /\ 1 \in DOMAIN events /\ Head(events) = events[1] /\ Head(events) \in Event
         /\ DOMAIN events' = 1..(Len(events) - 1)
         /\ \A i \in DOMAIN events' : i + 1 \in DOMAIN events /\ events'[i] = events[i + 1]
<1>1. events # <<>> /\ events' = Tail(events)
  BY DEF Pump
<1> QED
  BY <1>1

-----------------------------------------------------------------------------
(* Stops arrive in order, and after the ones the session knows.            *)

\* Stops keep their order on their way to the pump, and lastPause only grows.
LEMMA StopsNext ==
  ASSUME TypeOK, StopsInv, Next
  PROVE  StopsInv' /\ lastPause <= lastPause'
<1>a. events \in Seq(Event) /\ stops \in Nat /\ lastPause \in Nat
  BY DEF TypeOK, TypeProgram, TypeSession
<1>b. \A i \in DOMAIN events : i \in Nat /\ events[i].stop \in Nat
  <2>1. \A i \in DOMAIN events : i \in Nat /\ events[i] \in Event
    BY <1>a
  <2> QED
    BY <2>1 DEF Event
<1>1. ASSUME UNCHANGED <<stops, lastPause>>, NEW e \in Event, Emit(e), e.kind # "stopped"
      PROVE  StopsInv' /\ lastPause <= lastPause'
  <2>1. CASE UNCHANGED events
    BY <1>1, <1>a, <2>1 DEF StopsInv
  <2>2. CASE events' # events
    <3>1. /\ DOMAIN events = 1..Len(events) /\ Len(events) \in Nat
          /\ DOMAIN events' = 1..(Len(events) + 1) /\ events'[Len(events) + 1] = e
          /\ \A i \in DOMAIN events : events'[i] = events[i]
      BY <1>a, <1>1, <2>2, Emitting
    <3>2. \A i \in DOMAIN events' : events'[i].kind = "stopped" =>
            i \in DOMAIN events /\ events'[i] = events[i]
      BY <1>1, <3>1
    <3> QED
      BY <1>1, <1>a, <1>b, <3>2 DEF StopsInv
  <2> QED
    BY <2>1, <2>2
<1>2. ASSUME UNCHANGED <<stops, lastPause, events>>
      PROVE  StopsInv' /\ lastPause <= lastPause'
  BY <1>2, <1>a DEF StopsInv
<1>3. CASE Pump
  <2>1. UNCHANGED stops
    BY <1>3 DEF Pump
  <2>2. CASE Head(events).kind = "stopped"
    <3>1. lastPause' = events[1].stop
      BY <1>a, <1>3, <2>2, Pumping DEF Pump, HandleStopped, HandleContinued, HandleExited,
         HandleTerminated
    <3>2. /\ 1 \in DOMAIN events /\ events[1].kind = "stopped"
          /\ \A i \in DOMAIN events' : /\ i + 1 \in DOMAIN events /\ 1 < i + 1 /\ i \in Nat
                                       /\ events'[i] = events[i + 1]
      BY <1>a, <1>3, <2>2, Pumping
    <3>3. \A i \in DOMAIN events' : events'[i].kind = "stopped" =>
            lastPause' < events'[i].stop /\ events'[i].stop <= stops'
      BY <2>1, <3>1, <3>2 DEF StopsInv
    <3>4. \A i, j \in DOMAIN events' :
            i < j /\ events'[i].kind = "stopped" /\ events'[j].kind = "stopped"
              => events'[i].stop < events'[j].stop
      BY <3>2 DEF StopsInv
    <3>5. lastPause <= lastPause' /\ lastPause' <= stops'
      BY <1>a, <1>b, <2>1, <3>1, <3>2 DEF StopsInv
    <3> QED
      BY <3>3, <3>4, <3>5 DEF StopsInv
  <2>3. CASE Head(events).kind # "stopped"
    <3>1. UNCHANGED lastPause
      BY <1>3, <2>3 DEF Pump, HandleStopped, HandleContinued, HandleExited, HandleTerminated
    <3>2. \A i \in DOMAIN events' : /\ i + 1 \in DOMAIN events /\ i \in Nat
                                    /\ events'[i] = events[i + 1]
      BY <1>a, <1>3, Pumping
    <3>3. \A i \in DOMAIN events' : events'[i].kind = "stopped" =>
            lastPause < events'[i].stop /\ events'[i].stop <= stops
      BY <3>2 DEF StopsInv
    <3>4. \A i, j \in DOMAIN events' :
            i < j /\ events'[i].kind = "stopped" /\ events'[j].kind = "stopped"
              => events'[i].stop < events'[j].stop
      BY <3>2 DEF StopsInv
    <3> QED
      BY <1>a, <2>1, <3>1, <3>3, <3>4 DEF StopsInv
  <2> QED
    BY <2>2, <2>3
<1>4. CASE UNCHANGED lastPause /\ Still
  BY <1>2, <1>4 DEF Still
<1>5. CASE UNCHANGED lastPause /\ Ran
  <2>1. Ev("continued", 0, 0) \in Event /\ Ev("continued", 0, 0).kind # "stopped"
    BY EventValues DEF Kinds, Ev
  <2> QED
    BY <1>1, <1>2, <1>5, <2>1 DEF Ran
<1>6. CASE UNCHANGED lastPause /\ Halted
  <2>1. Ev("stopped", stops + 1, 0) \in Event
    BY <1>a, EventValues DEF Kinds
  <2>2. Ev("stopped", stops + 1, 0).stop = stops + 1
    BY DEF Ev
  <2>3. stops' = stops + 1 /\ lastPause' = lastPause
    BY <1>6 DEF Halted
  <2>4. CASE UNCHANGED events
    BY <1>a, <1>b, <2>3, <2>4 DEF StopsInv
  <2>5. CASE events' # events
    <3>1. /\ DOMAIN events = 1..Len(events) /\ Len(events) \in Nat
          /\ DOMAIN events' = 1..(Len(events) + 1)
          /\ events'[Len(events) + 1].stop = stops + 1
          /\ \A i \in DOMAIN events : events'[i] = events[i]
      BY <1>a, <1>6, <2>1, <2>2, <2>5, Emitting DEF Halted
    <3>2. \A i \in DOMAIN events' :
            /\ i \in Nat
            /\ \/ i \in DOMAIN events /\ events'[i] = events[i]
               \/ events'[i].stop = stops + 1 /\ \A j \in DOMAIN events' : j <= i
      BY <3>1
    <3> QED
      BY <1>a, <1>b, <2>3, <3>2 DEF StopsInv
  <2> QED
    BY <2>4, <2>5
<1>7. CASE UNCHANGED lastPause /\ Exited
  <2>1. \A c \in Codes : Ev("exited", 0, c) \in Event /\ Ev("exited", 0, c).kind # "stopped"
    BY EventValues, CodesAreNat DEF Kinds, Ev
  <2> QED
    BY <1>1, <1>7, <2>1 DEF Exited
<1>8. CASE UNCHANGED lastPause /\ Ended
  <2>1. Ev("terminated", 0, 0) \in Event /\ Ev("terminated", 0, 0).kind # "stopped"
    BY EventValues DEF Kinds, Ev
  <2>2. CASE CutStream
    BY <1>a, <1>8, <2>2, Cutting DEF StopsInv, Ended
  <2> QED
    BY <1>1, <1>2, <1>8, <2>1, <2>2 DEF Ended
<1> QED
  BY <1>3, <1>4, <1>5, <1>6, <1>7, <1>8, StreamSteps DEF Moves

\* A handler notes the pause of the moment it installs its waiter, or none.
LEMMA SinceSteps ==
  ASSUME TypeOK, Next, NEW h \in Handlers
  PROVE  since'[h] \in {since[h], lastPause, 0}
<1>a. since \in [Handlers -> Nat]
  BY DEF TypeOK, TypeHandlers
<1>1. ASSUME NEW g \in Handlers, ClientStep(g)
      PROVE  since'[h] \in {since[h], lastPause, 0}
  BY <1>a, <1>1 DEF ClientStep, ExecBegin, UntilBegin, PauseBegin, StateBegin, ListenBegin,
     StopBegin, InstallStateWaiter
<1>2. ASSUME NEW g \in Handlers,
             EnsureFails(g) \/ UntilRefused(g) \/ ResumeFails(g) \/ WaitTimeout(g) \/ LocateOk(g)
             \/ LocateFails(g) \/ Report(g) \/ RemoveNothing(g) \/ CloseRest(g)
      PROVE  since'[h] \in {since[h], lastPause, 0}
  BY <1>a, <1>2 DEF EnsureFails, UntilRefused, ResumeFails, WaitTimeout, LocateOk,
     LocateFails, Report, RemoveNothing, CloseRest, Return, Finish
<1>3. ASSUME NEW g \in Handlers,
             EnsureNothing(g) \/ EnsureSend(g) \/ EnsureOk(g) \/ Arm(g) \/ ResumeSend(g)
             \/ ResumeSkip(g) \/ ResumeOk(g) \/ LocateSend(g) \/ ListenWait(g) \/ RemoveSend(g)
      PROVE  since'[h] \in {since[h], lastPause, 0}
  BY <1>a, <1>3 DEF EnsureNothing, EnsureSend, EnsureOk, Arm, ResumeSend, ResumeSkip,
     ResumeOk, LocateSend, ListenWait, RemoveSend, InstallStateWaiter, localVars
<1>4. ASSUME NEW g \in Handlers, WaitEvent(g)
      PROVE  since'[h] \in {since[h], lastPause, 0}
  BY <1>a, <1>4 DEF WaitEvent, Return, Finish, localVars
<1>5. CASE Pump \/ WatchAdapterExit \/ ProgramStep
  BY <1>5 DEF Pump, WatchAdapterExit, ProgramStep, TargetStops, TargetExits,
     TargetTerminates, AdapterDies, AdapterServes, localVars
<1> QED
  BY <1>1, <1>2, <1>3, <1>4, <1>5 DEF Next, HandlerStep

\* What a handler noted lies behind.
LEMMA SinceNext ==
  ASSUME TypeOK, StopsInv, SinceInv, Next
  PROVE  SinceInv'
<1> SUFFICES ASSUME NEW h \in Handlers PROVE since'[h] <= lastPause'
  BY DEF SinceInv
<1>1. lastPause \in Nat /\ since[h] \in Nat
  BY DEF TypeOK, TypeSession, TypeHandlers
<1>2. lastPause' \in Nat
  BY TypeNext DEF TypeOK, TypeSession
<1> QED
  BY <1>1, <1>2, StopsNext, SinceSteps DEF SinceInv

\* The waiters are told of a stop that lies after the pause they began at.
LEMMA FreshNext ==
  ASSUME TypeOK, ControlInv, StopsInv, SinceInv, FreshStop, Next
  PROVE  FreshStop'
<1>a. /\ pc \in [Handlers -> Labels] /\ cmd \in [Handlers -> Commands]
      /\ since \in [Handlers -> Nat] /\ chan \in [Handlers -> Event]
      /\ lastPause \in Nat /\ events \in Seq(Event)
  BY DEF TypeOK, TypeHandlers, TypeWaiters, TypeSession, TypeProgram
<1>b. lastTerminal.kind # "stopped" /\ NoEvent.kind # "stopped"
  BY DEF TypeOK, TypeSession, NoEvent, TerminalEvent
<1> USE DEF FreshStop, Armed, Exec
<1>1. ASSUME NEW g \in Handlers, ExecBegin(g) PROVE FreshStop'
  BY <1>a, <1>b, <1>1 DEF ExecBegin, Begin, Accept, Goto, InstallStateWaiter
<1>2. ASSUME NEW g \in Handlers, UntilBegin(g) PROVE FreshStop'
  BY <1>a, <1>2 DEF UntilBegin, Accept, Goto, waiterVars
<1>3. ASSUME NEW g \in Handlers, PauseBegin(g) \/ StateBegin(g) \/ ListenBegin(g) \/ StopBegin(g)
      PROVE  FreshStop'
  BY <1>a, <1>3 DEF PauseBegin, Begin, Accept, Goto, StateBegin, ListenBegin, StopBegin,
     waiterVars
<1>4. ASSUME NEW g \in Handlers, EnsureNothing(g) \/ EnsureSend(g) \/ EnsureOk(g)
      PROVE  FreshStop'
  BY <1>a, <1>4 DEF EnsureNothing, Goto, EnsureSend, EnsureOk, waiterVars, localVars, ControlInv
<1>5. ASSUME NEW g \in Handlers, EnsureFails(g) \/ ResumeFails(g) \/ WaitTimeout(g)
      PROVE  FreshStop'
  <2>1. /\ pc' = [pc EXCEPT ![g] = "idle"]
        /\ \A h \in Handlers : h # g => cmd'[h] = cmd[h] /\ since'[h] = since[h]
    BY <1>a, <1>5 DEF EnsureFails, ResumeFails, WaitTimeout, Return, Finish, Goto
  <2>2. \A h \in Handlers : h # g => chan'[h] = chan[h]
    BY <1>a, <1>5 DEF EnsureFails, ResumeFails, WaitTimeout, AbandonWaiter, waiterVars
  <2> QED
    BY <1>a, <2>1, <2>2
<1>6. ASSUME NEW g \in Handlers, UntilRefused(g) \/ Report(g) PROVE FreshStop'
  BY <1>a, <1>6 DEF UntilRefused, Return, Finish, Goto, Report, waiterVars
<1>7. ASSUME NEW g \in Handlers, Arm(g) PROVE FreshStop'
  BY <1>a, <1>b, <1>7 DEF Arm, Goto, InstallStateWaiter
<1>8. ASSUME NEW g \in Handlers, ListenWait(g) PROVE FreshStop'
  <2>1. cmd[g] \in {"listen", "start"}
    BY <1>8 DEF ListenWait, ControlInv
  <2> QED
    BY <1>a, <1>8, <2>1 DEF ListenWait, Goto, InstallStateWaiter
<1>9. ASSUME NEW g \in Handlers, ResumeSend(g) \/ ResumeSkip(g) \/ ResumeOk(g) \/ LocateSend(g)
      PROVE  FreshStop'
  BY <1>a, <1>9 DEF ResumeSend, Goto, ResumeSkip, ResumeOk, LocateSend, waiterVars, localVars
<1>10. ASSUME NEW g \in Handlers, WaitEvent(g) PROVE FreshStop'
  BY <1>a, <1>10 DEF WaitEvent, AbandonWaiter, Return, Finish, Goto, waiterVars, localVars
<1>11. ASSUME NEW g \in Handlers, LocateOk(g) \/ LocateFails(g) PROVE FreshStop'
  BY <1>a, <1>11 DEF LocateOk, Return, Finish, Goto, LocateFails
<1>12. ASSUME NEW g \in Handlers, RemoveSend(g) \/ RemoveNothing(g) \/ CloseRest(g)
       PROVE  FreshStop'
  BY <1>a, <1>12 DEF RemoveSend, Goto, RemoveNothing, Finish, CloseRest, waiterVars, localVars
<1>13. CASE Pump
  <2>1. UNCHANGED <<pc, cmd, since>>
    BY <1>13 DEF Pump, localVars
  <2>2. CASE Head(events).kind = "stopped"
    <3>1. /\ 1 \in DOMAIN events /\ Head(events) = events[1] /\ events[1].stop > lastPause
          /\ events[1] \in Event
      BY <1>a, <1>13, <2>2, Pumping DEF StopsInv
    <3>2. chan' = [h \in Handlers |-> IF h \in waiters THEN events[1] ELSE chan[h]]
      BY <1>13, <2>2, <3>1 DEF Pump, HandleStopped, HandleContinued, HandleExited,
         HandleTerminated, NotifyWaiters
    <3>3. events[1].stop \in Nat
      BY <3>1 DEF Event
    <3>4. \A h \in Handlers : since[h] <= lastPause /\ since[h] \in Nat
      BY <1>a DEF SinceInv
    <3> QED
      BY <1>a, <2>1, <3>1, <3>2, <3>3, <3>4
  <2>3. CASE Head(events).kind # "stopped"
    <3>1. \A h \in Handlers : chan'[h] = chan[h] \/ chan'[h].kind # "stopped"
      BY <1>a, <1>13, <2>3 DEF Pump, HandleStopped, HandleContinued, HandleExited,
         HandleTerminated, NotifyWaiters, waiterVars
    <3> QED
      BY <2>1, <3>1
  <2> QED
    BY <2>2, <2>3
<1>14. CASE WatchAdapterExit
  BY <1>a, <1>14 DEF WatchAdapterExit, NotifyWaiters, waiterVars, localVars, Ev
<1>15. CASE ProgramStep
  BY <1>15 DEF ProgramStep, TargetStops, TargetExits, TargetTerminates, AdapterDies,
     AdapterServes, waiterVars, localVars
<1> HIDE DEF FreshStop, Armed, Exec
<1> QED
  BY <1>1, <1>2, <1>3, <1>4, <1>5, <1>6, <1>7, <1>8, <1>9, <1>10, <1>11, <1>12, <1>13,
     <1>14, <1>15 DEF Next, ClientStep, HandlerStep

-----------------------------------------------------------------------------
(* An exited event is the last word.                                       *)

\* Only the end of the program, and nothing of the adapter, comes after it.
LEMMA EndMoves ==
  ASSUME TypeOK, EndInv, Moves, UNCHANGED <<state, lastTerminal>>
  PROVE  EndInv'
<1>a. events \in Seq(Event)
  BY DEF TypeOK, TypeProgram
<1>1. ASSUME UNCHANGED events, Over => Over'
      PROVE  EndInv'
  BY <1>1 DEF EndInv
<1>2. ASSUME NEW e \in Event, Emit(e), Over => Over',
             \/ e.kind = "terminated"
             \/ ~Over /\ e.kind # "exited"
             \/ ~Over /\ e.kind = "exited" /\ Over'
      PROVE  EndInv'
  <2>1. CASE UNCHANGED events
    BY <1>1, <1>2, <2>1
  <2>2. CASE events' # events
    <3>1. /\ DOMAIN events = 1..Len(events) /\ Len(events) \in Nat
          /\ DOMAIN events' = 1..(Len(events) + 1) /\ events'[Len(events) + 1] = e
          /\ \A i \in DOMAIN events : events'[i] = events[i]
      BY <1>a, <1>2, <2>2, Emitting
    <3>2. \A i, j \in DOMAIN events' : i < j => i \in DOMAIN events /\ events'[i] = events[i]
      BY <3>1
    <3>3. \A i \in DOMAIN events' : (i \in DOMAIN events /\ events'[i] = events[i]) \/ events'[i] = e
      BY <3>1
    <3>4. CASE e.kind = "terminated"
      BY <1>2, <3>2, <3>3, <3>4 DEF EndInv
    <3>5. CASE ~Over /\ (e.kind = "exited" => Over')
      <4>1. lastTerminal.kind # "exited" /\ \A i \in DOMAIN events : events[i].kind # "exited"
        BY <3>5 DEF EndInv
      <4> QED
        BY <1>2, <3>2, <3>3, <3>5, <4>1 DEF EndInv
    <3> QED
      BY <1>2, <3>4, <3>5
  <2> QED
    BY <2>1, <2>2
<1>3. CASE Still
  BY <1>1, <1>3 DEF Still, Over
<1>4. CASE Ran
  <2>1. Ev("continued", 0, 0) \in Event /\ Ev("continued", 0, 0).kind = "continued" /\ ~Over
    BY <1>4, EventValues DEF Kinds, Ev, Ran, Over
  <2> QED
    BY <1>1, <1>2, <1>4, <2>1 DEF Ran
<1>5. CASE Halted
  <2>1. /\ Ev("stopped", stops + 1, 0) \in Event /\ Ev("stopped", stops + 1, 0).kind = "stopped"
        /\ ~Over
    BY <1>5, EventValues DEF Kinds, Ev, Halted, Over, TypeOK, TypeProgram
  <2> QED
    BY <1>2, <1>5, <2>1 DEF Halted
<1>6. CASE Exited
  <2>1. \A c \in Codes : Ev("exited", 0, c) \in Event /\ Ev("exited", 0, c).kind = "exited"
    BY EventValues, CodesAreNat DEF Kinds, Ev
  <2>2. ~Over /\ Over'
    BY <1>6 DEF Exited, Over
  <2> QED
    BY <1>2, <1>6, <2>1, <2>2 DEF Exited
<1>7. CASE Ended
  <2>1. Ev("terminated", 0, 0) \in Event /\ Ev("terminated", 0, 0).kind = "terminated" /\ Over'
    BY <1>7, EventValues DEF Kinds, Ev, Ended, Over
  <2>2. CASE CutStream
    BY <1>a, <2>1, <2>2, Cutting DEF EndInv
  <2> QED
    BY <1>1, <1>2, <1>7, <2>1, <2>2 DEF Ended
<1> QED
  BY <1>3, <1>4, <1>5, <1>6, <1>7 DEF Moves

\* The pump and the watcher leave the record of an exited event alone.
LEMMA EndNext ==
  ASSUME TypeOK, EndInv, Next
  PROVE  EndInv' /\ (lastTerminal.kind = "exited" => lastTerminal' = lastTerminal)
<1>a. events \in Seq(Event)
  BY DEF TypeOK, TypeProgram
<1>1. CASE UNCHANGED <<state, lastTerminal>> /\ ~Pump
  BY <1>1, EndMoves, StreamSteps
<1>2. CASE WatchAdapterExit
  <2>1. UNCHANGED <<target, events>>
    BY <1>2 DEF WatchAdapterExit
  <2>2. CASE state \in Terminal
    BY <1>2, <2>1, <2>2 DEF WatchAdapterExit, sessionVars, EndInv, Over
  <2>3. CASE state \notin Terminal
    <3>1. lastTerminal.kind # "exited"
      BY <2>3 DEF EndInv, Terminal
    <3>2. \E c \in Codes : lastTerminal' = Ev("died", 0, c)
      BY <1>2, <2>3 DEF WatchAdapterExit
    <3>3. lastTerminal'.kind = "died"
      BY <3>2 DEF Ev
    <3> QED
      BY <2>1, <3>1, <3>3 DEF EndInv, Over
  <2> QED
    BY <2>2, <2>3
<1>3. CASE Pump
  <2> DEFINE e == Head(events)
  <2>1. /\ 1 \in DOMAIN events /\ e = events[1]
        /\ \A i \in DOMAIN events' : i + 1 \in DOMAIN events /\ 1 < i + 1 /\ i \in Nat
                                     /\ events'[i] = events[i + 1]
    BY <1>a, <1>3, Pumping
  <2>2. HandleStopped(e) \/ HandleContinued(e) \/ HandleExited(e) \/ HandleTerminated(e)
    BY <1>3 DEF Pump
  <2>3. UNCHANGED target
    BY <1>3 DEF Pump
  <2> HIDE DEF e
  <2>4. /\ \A i, j \in DOMAIN events' :
             i < j /\ events'[i].kind = "exited" => events'[j].kind = "terminated"
        /\ \A i \in DOMAIN events' : events'[i].kind = "exited" => Over'
    BY <2>1, <2>3 DEF EndInv, Over
  <2>5. CASE HandleStopped(e) \/ HandleContinued(e)
    <3>1. lastTerminal.kind # "exited" /\ UNCHANGED lastTerminal
      BY <2>1, <2>5 DEF EndInv, HandleStopped, HandleContinued
    <3> QED
      BY <2>4, <3>1 DEF EndInv
  <2>6. CASE HandleExited(e)
    <3>1. lastTerminal.kind # "exited" /\ state' = "exited" /\ e.kind = "exited"
      BY <2>1, <2>6 DEF EndInv, HandleExited
    <3>2. Over' /\ \A i \in DOMAIN events' : events'[i].kind = "terminated"
      BY <2>1, <2>3, <3>1 DEF EndInv, Over
    <3> QED
      BY <2>4, <3>1, <3>2 DEF EndInv
  <2>7. CASE HandleTerminated(e)
    <3>1. CASE lastTerminal.kind = "exited"
      <4>1. lastTerminal' = lastTerminal /\ state' = "exited"
        BY <2>7, <3>1 DEF EndInv, HandleTerminated, NoEvent
      <4> QED
        BY <2>1, <2>3, <2>4, <3>1, <4>1 DEF EndInv, Over
    <3>2. CASE lastTerminal.kind # "exited"
      <4>1. lastTerminal'.kind # "exited"
        BY <2>7, <3>2 DEF HandleTerminated
      <4> QED
        BY <2>4, <3>2, <4>1 DEF EndInv
    <3> QED
      BY <3>1, <3>2
  <2> QED
    BY <2>2, <2>5, <2>6, <2>7
<1> QED
  BY <1>1, <1>2, <1>3, RecordSteps

-----------------------------------------------------------------------------
(* The calls.                                                              *)

\* What a step does to the calls: the other handlers stay where they are, and
\* this one makes no call, makes one, takes the answer or gives up; the
\* adapter's end empties the inbox; the adapter serves a request; or nothing.
Others(h) == \A g \in Handlers : g # h => pc'[g] = pc[g] /\ cmd'[g] = cmd[g]

Between(h) == Others(h) /\ pc[h] \notin Calling /\ UNCHANGED callVars

Sent(h) ==
  /\ Others(h) /\ pc[h] \notin Calling
  /\ \E q \in Requests : Send(h, q) /\ Asked(h)' = q

Taken(h) == Others(h) /\ Receive(h)

Dropped(h) == Others(h) /\ Forget(h)

Served ==
  /\ UNCHANGED <<pc, cmd>> /\ inbox # <<>> /\ inbox' = Tail(inbox)
  /\ \E st \in {"ok", "error"}, n \in Nat : Respond(Head(inbox), st, n)

\* Every step is one of these.
LEMMA CallSteps ==
  ASSUME TypeOK, Next
  PROVE  \/ \E h \in Handlers : Between(h) \/ Sent(h) \/ Taken(h) \/ Dropped(h)
         \/ Served \/ inbox' = <<>> \/ UNCHANGED <<pc, cmd, callVars>>
<1>a. /\ pc \in [Handlers -> Labels] /\ cmd \in [Handlers -> Commands] /\ stops \in Nat
  BY DEF TypeOK, TypeHandlers, TypeProgram
<1>1. ASSUME NEW h \in Handlers, ExecBegin(h) PROVE Between(h)
  BY <1>a, <1>1 DEF ExecBegin, Begin, Accept, Goto, Between, Others, Calling
<1>2. ASSUME NEW h \in Handlers, UntilBegin(h) PROVE Between(h)
  BY <1>a, <1>2 DEF UntilBegin, Accept, Goto, Between, Others, Calling
<1>3. ASSUME NEW h \in Handlers, PauseBegin(h) \/ StateBegin(h) \/ ListenBegin(h) \/ StopBegin(h)
      PROVE  Between(h)
  BY <1>a, <1>3 DEF PauseBegin, StateBegin, ListenBegin, StopBegin, Begin, Accept, Goto,
     Between, Others, Calling
<1>4. ASSUME NEW h \in Handlers, EnsureNothing(h) \/ Arm(h) \/ ResumeSkip(h) \/ ListenWait(h)
      PROVE  Between(h)
  BY <1>a, <1>4 DEF EnsureNothing, Arm, ResumeSkip, ListenWait, Goto, Between, Others,
     Calling, localVars
<1>5. ASSUME NEW h \in Handlers, UntilRefused(h) \/ WaitTimeout(h) \/ Report(h) \/ RemoveNothing(h)
      PROVE  Between(h)
  BY <1>a, <1>5 DEF UntilRefused, WaitTimeout, Report, RemoveNothing, Return, Finish, Goto,
     Between, Others, Calling
<1>6. ASSUME NEW h \in Handlers, WaitEvent(h) PROVE Between(h)
  BY <1>a, <1>6 DEF WaitEvent, Return, Finish, Goto, Between, Others, Calling, localVars
<1>7. ASSUME NEW h \in Handlers, EnsureSend(h) PROVE Sent(h)
  BY <1>a, <1>7 DEF EnsureSend, Goto, Sent, Others, Calling, localVars, Asked, Requests
<1>8. ASSUME NEW h \in Handlers, ResumeSend(h) PROVE Sent(h)
  <2>1. Asked(h)' = IF cmd[h] = "pause" THEN "pause" ELSE "continue"
    BY <1>a, <1>8 DEF ResumeSend, Goto, localVars, Asked
  <2> QED
    BY <1>a, <1>8, <2>1 DEF ResumeSend, Goto, Sent, Others, Calling, localVars, Requests
<1>9. ASSUME NEW h \in Handlers, LocateSend(h) PROVE Sent(h)
  BY <1>a, <1>9 DEF LocateSend, Goto, Sent, Others, Calling, localVars, Asked, Requests
<1>10. ASSUME NEW h \in Handlers, RemoveSend(h) PROVE Sent(h)
  BY <1>a, <1>10 DEF RemoveSend, Goto, Sent, Others, Calling, localVars, Asked, Requests
<1>11. ASSUME NEW h \in Handlers, EnsureOk(h) \/ ResumeOk(h) \/ LocateOk(h) PROVE Taken(h)
  BY <1>a, <1>11 DEF EnsureOk, ResumeOk, LocateOk, Return, Finish, Goto, Taken, Others, localVars
<1>12. ASSUME NEW h \in Handlers, EnsureFails(h) \/ ResumeFails(h) \/ LocateFails(h)
       PROVE  Dropped(h)
  BY <1>a, <1>12 DEF EnsureFails, ResumeFails, LocateFails, Return, Finish, Goto, Dropped, Others
<1>13. ASSUME NEW h \in Handlers, CloseRest(h) PROVE inbox' = <<>>
  BY <1>13 DEF CloseRest
<1>14. CASE AdapterServes
  <2>1. \E st \in {"ok", "error"}, n \in Nat : Respond(Head(inbox), st, n)
    <3>1. PICK r : /\ r = Head(inbox)
                   /\ \/ ServeConfigurationDone(r) \/ ServeContinue(r) \/ ServePause(r)
                      \/ ServeStackTrace(r) \/ ServeDisconnect(r)
      BY <1>14 DEF AdapterServes
    <3>2. CASE ServeConfigurationDone(r) \/ ServeDisconnect(r)
      BY <3>1, <3>2 DEF ServeConfigurationDone, ServeDisconnect
    <3>3. CASE ServeContinue(r) \/ ServePause(r)
      BY <3>1, <3>3 DEF ServeContinue, ServePause, Ignored
    <3>4. CASE ServeStackTrace(r)
      BY <1>a, <3>1, <3>4 DEF ServeStackTrace
    <3> QED
      BY <3>1, <3>2, <3>3, <3>4
  <2> QED
    BY <1>14, <2>1 DEF AdapterServes, Served, localVars
<1>15. CASE Pump \/ WatchAdapterExit \/ TargetStops \/ TargetExits \/ TargetTerminates
  BY <1>15 DEF Pump, WatchAdapterExit, TargetStops, TargetExits, TargetTerminates, localVars
<1>16. CASE AdapterDies
  BY <1>16 DEF AdapterDies
<1> QED
  BY <1>1, <1>2, <1>3, <1>4, <1>5, <1>6, <1>7, <1>8, <1>9, <1>10, <1>11, <1>12, <1>13,
     <1>14, <1>15, <1>16 DEF Next, ClientStep, HandlerStep, ProgramStep

\* Every call has at most one request under way, and no answer before it is served.
LEMMA CallsNext ==
  ASSUME TypeOK, CallsInv, Next
  PROVE  CallsInv'
<1>a. /\ inbox \in Seq(Message) /\ answer \in [Handlers -> Answer]
      /\ DOMAIN inbox = 1..Len(inbox) /\ Len(inbox) \in Nat
  BY DEF TypeOK, TypeCalls
<1>b. \A i \in DOMAIN inbox : inbox[i].from \in Handlers \cup {NoOne} /\ inbox[i].req \in Requests
  <2>1. \A i \in DOMAIN inbox : inbox[i] \in Message
    BY <1>a
  <2> QED
    BY <2>1 DEF Message
<1>c. ASSUME NEW h \in Handlers, pc[h] \notin Calling
      PROVE  \A i \in DOMAIN inbox : inbox[i].from # h
  <2>1. Asked(h) = "none"
    BY <1>c DEF Asked, Calling
  <2> QED
    BY <1>b, <2>1, SessionAssumption DEF CallsInv, Requests, NoOne
<1>d. ASSUME NEW h \in Handlers, Others(h), NEW g \in Handlers, g # h
      PROVE  Asked(g)' = Asked(g)
  BY <1>d DEF Others, Asked
<1>n. NoOne \notin Handlers
  BY SessionAssumption DEF NoOne
<1>1. ASSUME NEW h \in Handlers, Between(h) PROVE CallsInv'
  <2>1. \A i \in DOMAIN inbox : inbox[i].from # h
    BY <1>1, <1>c DEF Between
  <2>2. \A g \in Handlers : g # h => Asked(g)' = Asked(g)
    BY <1>1, <1>d DEF Between
  <2>3. UNCHANGED <<inbox, answer>>
    BY <1>1 DEF Between, callVars
  <2> QED
    BY <1>b, <2>1, <2>2, <2>3 DEF CallsInv
<1>2. ASSUME NEW h \in Handlers, Sent(h) PROVE CallsInv'
  <2>1. \A i \in DOMAIN inbox : inbox[i].from # h
    BY <1>2, <1>c DEF Sent
  <2>2. \A g \in Handlers : g # h => Asked(g)' = Asked(g)
    BY <1>2, <1>d DEF Sent
  <2>3. PICK q \in Requests : Send(h, q) /\ Asked(h)' = q
    BY <1>2 DEF Sent
  <2>4. PICK a \in {NoAnswer, Failure} :
          answer' = [answer EXCEPT ![h] = a] /\ (adapter = "up" => a.st = "none")
    BY <2>3, SendAnswers
  <2>5. CASE inbox' = inbox
    BY <1>a, <1>b, <2>1, <2>2, <2>4, <2>5 DEF CallsInv
  <2>6. CASE adapter = "up" /\ inbox' = Append(inbox, [from |-> h, req |-> q])
    <3>1. /\ DOMAIN inbox' = 1..(Len(inbox) + 1)
          /\ inbox'[Len(inbox) + 1] = [from |-> h, req |-> q]
          /\ \A i \in DOMAIN inbox : inbox'[i] = inbox[i]
      BY <1>a, <2>6
    <3>2. \A i \in DOMAIN inbox' :
             \/ i \in DOMAIN inbox /\ inbox'[i] = inbox[i]
             \/ i = Len(inbox) + 1 /\ inbox'[i].from = h /\ inbox'[i].req = q
      BY <1>a, <3>1
    <3> QED
      BY <1>a, <1>b, <2>1, <2>2, <2>3, <2>4, <2>6, <3>2 DEF CallsInv
  <2> QED
    BY <2>3, <2>5, <2>6 DEF Send
<1>3. ASSUME NEW h \in Handlers, Taken(h) PROVE CallsInv'
  <2>1. \A i \in DOMAIN inbox : inbox[i].from # h
    BY <1>3, <1>n DEF Taken, Receive, CallsInv
  <2>2. \A g \in Handlers : g # h => Asked(g)' = Asked(g)
    BY <1>3, <1>d DEF Taken
  <2>3. UNCHANGED inbox /\ answer' = [answer EXCEPT ![h] = NoAnswer]
    BY <1>3 DEF Taken, Receive
  <2> QED
    BY <1>a, <1>b, <2>1, <2>2, <2>3 DEF CallsInv
<1>4. ASSUME NEW h \in Handlers, Dropped(h) PROVE CallsInv'
  <2>2. \A g \in Handlers : g # h => Asked(g)' = Asked(g)
    BY <1>4, <1>d DEF Dropped
  <2>3. /\ DOMAIN inbox' = DOMAIN inbox /\ answer' = [answer EXCEPT ![h] = NoAnswer]
        /\ \A i \in DOMAIN inbox : inbox'[i].from = NoOne \/ (inbox'[i] = inbox[i] /\ inbox[i].from # h)
    BY <1>4 DEF Dropped, Forget
  <2> QED
    BY <1>a, <1>b, <2>2, <2>3 DEF CallsInv
<1>5. CASE Served
  <2>1. PICK st \in {"ok", "error"}, n \in Nat : Respond(Head(inbox), st, n)
    BY <1>5 DEF Served
  <2>2. /\ 1 \in DOMAIN inbox /\ Head(inbox) = inbox[1]
        /\ \A i \in DOMAIN inbox' : i + 1 \in DOMAIN inbox /\ 1 # i + 1 /\ i \in Nat
                                    /\ inbox'[i] = inbox[i + 1]
    BY <1>a, <1>5 DEF Served
  <2>3. \A g \in Handlers : Asked(g)' = Asked(g)
    BY <1>5 DEF Served, Asked
  <2>4. \A g \in Handlers : g # inbox[1].from => answer'[g] = answer[g]
    BY <1>a, <2>1, <2>2 DEF Respond
  <2> QED
    BY <1>b, <2>2, <2>3, <2>4 DEF CallsInv
<1>6. CASE inbox' = <<>>
  BY <1>6 DEF CallsInv
<1>7. CASE UNCHANGED <<pc, cmd, callVars>>
  BY <1>7 DEF CallsInv, Asked, callVars
<1> QED
  BY <1>1, <1>2, <1>3, <1>4, <1>5, <1>6, <1>7, CallSteps

-----------------------------------------------------------------------------
(* configurationDone is sent once.                                         *)

\* The lock of EnsureConfigurationDone is held over the whole call.
LEMMA LockNext ==
  ASSUME TypeOK, ControlInv, LockInv, Next
  PROVE  LockInv'
<1>a. /\ pc \in [Handlers -> Labels] /\ cmd \in [Handlers -> Commands]
      /\ pendingConfigDone \in BOOLEAN /\ NoOne \notin Handlers
  BY SessionAssumption DEF TypeOK, TypeHandlers, TypeConfig, NoOne
<1> USE DEF LockInv
<1>1. ASSUME NEW g \in Handlers, ExecBegin(g) PROVE LockInv'
  BY <1>a, <1>1 DEF ExecBegin, Begin, Accept, Goto, configVars
<1>2. ASSUME NEW g \in Handlers, UntilBegin(g) PROVE LockInv'
  BY <1>a, <1>2 DEF UntilBegin, Accept, Goto, configVars
<1>3. ASSUME NEW g \in Handlers, PauseBegin(g) \/ StateBegin(g) \/ ListenBegin(g) \/ StopBegin(g)
      PROVE  LockInv'
  BY <1>a, <1>3 DEF PauseBegin, StateBegin, ListenBegin, StopBegin, Begin, Accept, Goto,
     configVars
<1>4. ASSUME NEW g \in Handlers, EnsureNothing(g) PROVE LockInv'
  BY <1>a, <1>4 DEF EnsureNothing, Goto, configVars
<1>5. ASSUME NEW g \in Handlers, EnsureSend(g) PROVE LockInv'
  BY <1>a, <1>5 DEF EnsureSend, Goto, localVars
<1>6. ASSUME NEW g \in Handlers, EnsureOk(g) PROVE LockInv'
  BY <1>a, <1>6 DEF EnsureOk, Goto
<1>7. ASSUME NEW g \in Handlers, EnsureFails(g) PROVE LockInv'
  BY <1>a, <1>7 DEF EnsureFails, Return, Finish, Goto
<1>8. ASSUME NEW g \in Handlers,
             UntilRefused(g) \/ ResumeFails(g) \/ WaitTimeout(g) \/ LocateOk(g) \/ LocateFails(g)
             \/ Report(g) \/ RemoveNothing(g) \/ CloseRest(g)
      PROVE  LockInv'
  BY <1>a, <1>8 DEF UntilRefused, ResumeFails, WaitTimeout, LocateOk, LocateFails, Report,
     RemoveNothing, CloseRest, Return, Finish, Goto, configVars
<1>9. ASSUME NEW g \in Handlers,
             Arm(g) \/ ResumeSend(g) \/ ResumeSkip(g) \/ ResumeOk(g) \/ LocateSend(g)
             \/ ListenWait(g) \/ RemoveSend(g)
      PROVE  LockInv'
  BY <1>a, <1>9 DEF Arm, ResumeSend, ResumeSkip, ResumeOk, LocateSend, ListenWait,
     RemoveSend, Goto, configVars, localVars
<1>10. ASSUME NEW g \in Handlers, WaitEvent(g) PROVE LockInv'
  BY <1>a, <1>10 DEF WaitEvent, Return, Finish, Goto, configVars, localVars
<1>11. CASE Pump \/ WatchAdapterExit \/ ProgramStep
  BY <1>11 DEF Pump, WatchAdapterExit, ProgramStep, TargetStops, TargetExits,
     TargetTerminates, AdapterDies, AdapterServes, configVars, localVars
<1> HIDE DEF LockInv
<1> QED
  BY <1>1, <1>2, <1>3, <1>4, <1>5, <1>6, <1>7, <1>8, <1>9, <1>10, <1>11
     DEF Next, ClientStep, HandlerStep

\* A step that has nothing to do with the deferred request.
Aside ==
  /\ UNCHANGED <<adapter, pendingConfigDone, configs>>
  /\ target \in {"suspended", "gone"} => target' \in {target, "gone"}
  /\ \A h \in Handlers : /\ pc'[h] = "configuring" <=> pc[h] = "configuring"
                         /\ pc[h] = "configuring" => answer'[h] = answer[h]
  /\ adapter = "down" => inbox' = <<>>
  /\ \A i \in DOMAIN inbox' : inbox'[i].req = "configurationDone" => inbox'[i].from # NoOne

\* Such a step keeps DeferInv.
LEMMA AsideKeeps ==
  ASSUME DeferInv, Aside
  PROVE  DeferInv'
<1>1. Answered' <=> Answered
  BY DEF Answered, Aside
<1> QED
  BY <1>1 DEF DeferInv, Aside, ConfigurationDoneOnce

\* Every step of a handler but those of EnsureConfigurationDone and Close is one.
LEMMA AsideSteps ==
  ASSUME TypeOK, CallsInv, DeferInv, NEW g \in Handlers,
         \/ ClientStep(g)
         \/ /\ HandlerStep(g)
            /\ ~(EnsureSend(g) \/ EnsureOk(g) \/ EnsureFails(g) \/ CloseRest(g))
  PROVE  Aside
<1>a. /\ pc \in [Handlers -> Labels] /\ cmd \in [Handlers -> Commands]
      /\ answer \in [Handlers -> Answer] /\ inbox \in Seq(Message)
  BY DEF TypeOK, TypeHandlers, TypeCalls
<1>b. \A i \in DOMAIN inbox : inbox[i].req = "configurationDone" => inbox[i].from # NoOne
  BY DEF DeferInv
<1>c. adapter = "down" => inbox = <<>>
  BY DEF DeferInv
<1>1. ASSUME UNCHANGED <<adapter, pendingConfigDone, configs, target, inbox, answer>>,
             pc[g] # "configuring", pc'[g] # "configuring",
             \A h \in Handlers : h # g => pc'[h] = pc[h]
      PROVE  Aside
  BY <1>1, <1>b, <1>c DEF Aside
<1>2. ASSUME UNCHANGED <<adapter, pendingConfigDone, configs, target>>, pc[g] # "configuring",
             pc'[g] # "configuring", \A h \in Handlers : h # g => pc'[h] = pc[h],
             NEW q \in Requests, q # "configurationDone", Send(g, q)
      PROVE  Aside
  <2>1. \A i \in DOMAIN inbox' : inbox'[i].req = "configurationDone" => inbox'[i].from # NoOne
    <3>1. CASE inbox' = inbox
      BY <1>b, <3>1
    <3>2. CASE inbox' = Append(inbox, [from |-> g, req |-> q])
      <4>1. \A i \in DOMAIN inbox' :
              (i \in DOMAIN inbox /\ inbox'[i] = inbox[i]) \/ inbox'[i] = [from |-> g, req |-> q]
        BY <1>a, <3>2
      <4> QED
        BY <1>2, <1>b, <4>1
    <3> QED
      BY <1>2, <3>1, <3>2 DEF Send
  <2>2. adapter = "down" => inbox' = <<>>
    BY <1>2, <1>c DEF Send
  <2>3. \A h \in Handlers : h # g => answer'[h] = answer[h]
    BY <1>a, <1>2 DEF Send
  <2> QED
    BY <1>2, <2>1, <2>2, <2>3 DEF Aside
<1>3. ASSUME UNCHANGED <<adapter, pendingConfigDone, configs, target>>, pc[g] # "configuring",
             pc'[g] # "configuring", \A h \in Handlers : h # g => pc'[h] = pc[h],
             Receive(g) \/ Forget(g)
      PROVE  Aside
  <2>1. Asked(g) # "configurationDone" /\ g # NoOne
    BY <1>3, SessionAssumption DEF Asked, NoOne
  <2>2. \A i \in DOMAIN inbox' : inbox'[i].req = "configurationDone" => inbox'[i].from # NoOne
    BY <1>3, <1>b, <2>1 DEF Receive, Forget, CallsInv
  <2>3. adapter = "down" => inbox' = <<>>
    BY <1>3, <1>c DEF Receive, Forget
  <2>4. \A h \in Handlers : h # g => answer'[h] = answer[h]
    BY <1>a, <1>3 DEF Receive, Forget
  <2> QED
    BY <1>3, <2>2, <2>3, <2>4 DEF Aside
<1>4. CASE ExecBegin(g)
  BY <1>a, <1>1, <1>4 DEF ExecBegin, Begin, Accept, Goto, configVars, programVars, callVars
<1>5. CASE UntilBegin(g)
  BY <1>a, <1>1, <1>5 DEF UntilBegin, Accept, Goto, configVars, programVars, callVars
<1>6. CASE PauseBegin(g) \/ StateBegin(g) \/ ListenBegin(g) \/ StopBegin(g)
  BY <1>a, <1>1, <1>6 DEF PauseBegin, StateBegin, ListenBegin, StopBegin, Begin, Accept,
     Goto, configVars, programVars, callVars
<1>7. CASE EnsureNothing(g) \/ Arm(g) \/ ResumeSkip(g) \/ ListenWait(g)
  BY <1>a, <1>1, <1>7 DEF EnsureNothing, Arm, ResumeSkip, ListenWait, Goto, configVars,
     programVars, callVars
<1>8. CASE UntilRefused(g) \/ WaitTimeout(g) \/ Report(g) \/ RemoveNothing(g)
  BY <1>a, <1>1, <1>8 DEF UntilRefused, WaitTimeout, Report, RemoveNothing, Return, Finish,
     Goto, configVars, programVars, callVars
<1>9. CASE WaitEvent(g)
  BY <1>a, <1>1, <1>9 DEF WaitEvent, Return, Finish, Goto, configVars, programVars, callVars
<1>10. CASE ResumeSend(g)
  <2>1. PICK q \in {"pause", "continue"} : Send(g, q)
    BY <1>10 DEF ResumeSend
  <2> QED
    BY <1>a, <1>2, <1>10, <2>1 DEF ResumeSend, Goto, configVars, programVars, Requests
<1>11. CASE LocateSend(g)
  BY <1>a, <1>2, <1>11 DEF LocateSend, Goto, configVars, programVars, Requests
<1>12. CASE RemoveSend(g)
  BY <1>a, <1>2, <1>12 DEF RemoveSend, Goto, configVars, programVars, Requests
<1>13. CASE ResumeOk(g) \/ LocateOk(g)
  BY <1>a, <1>3, <1>13 DEF ResumeOk, LocateOk, Return, Finish, Goto, configVars, programVars
<1>14. CASE ResumeFails(g) \/ LocateFails(g)
  BY <1>a, <1>3, <1>14 DEF ResumeFails, LocateFails, Return, Finish, Goto, configVars,
     programVars
<1> QED
  BY <1>4, <1>5, <1>6, <1>7, <1>8, <1>9, <1>10, <1>11, <1>12, <1>13, <1>14
     DEF ClientStep, HandlerStep

\* Serving a request: the one handler that waits for configurationDone gets it, once.
LEMMA DeferServes ==
  ASSUME TypeOK, CallsInv, LockInv, DeferInv, AdapterServes
  PROVE  DeferInv'
<1>a. /\ answer \in [Handlers -> Answer] /\ inbox \in Seq(Message) /\ configs \in Nat
      /\ target \in {"suspended", "running", "stopped", "exiting", "gone"}
  BY DEF TypeOK, TypeCalls, TypeProgram
<1>b. /\ adapter = "up" /\ adapter' = "up" /\ UNCHANGED <<pc, cmd, pendingConfigDone>>
      /\ inbox # <<>> /\ inbox' = Tail(inbox)
  BY DEF AdapterServes, configVars, localVars
<1> DEFINE r == inbox[1]
<1>c. /\ 1 \in DOMAIN inbox /\ r = Head(inbox) /\ r \in Message
      /\ \A i \in DOMAIN inbox' : i + 1 \in DOMAIN inbox /\ inbox'[i] = inbox[i + 1]
  BY <1>a, <1>b
<1>d. \A i \in DOMAIN inbox' : inbox'[i].req = "configurationDone" => inbox'[i].from # NoOne
  BY <1>c DEF DeferInv
<1>e. /\ r.from \in Handlers \cup {NoOne} /\ r.req \in Requests
      /\ r.from # NoOne => r.req = Asked(r.from) /\ answer[r.from].st = "none"
  BY <1>c DEF Message, CallsInv
<1>f. \/ ServeConfigurationDone(r) \/ ServeContinue(r) \/ ServePause(r)
      \/ ServeStackTrace(r) \/ ServeDisconnect(r)
  BY <1>c DEF AdapterServes
<1> HIDE DEF r
<1>1. CASE ServeConfigurationDone(r)
  <2>1. r.from \in Handlers /\ r.req = "configurationDone" /\ answer[r.from].st = "none"
    BY <1>c, <1>e, <1>1 DEF ServeConfigurationDone, DeferInv, r
  <2>2. pc[r.from] = "configuring"
    BY <1>e, <2>1, SessionAssumption DEF Asked, NoOne
  <2>3. \A h \in Handlers : pc[h] = "configuring" => h = r.from
    BY <2>1, <2>2 DEF LockInv
  <2>4. pendingConfigDone /\ ~Answered
    BY <2>1, <2>2, <2>3 DEF LockInv, Answered
  <2>5. configs = 0
    BY <1>b, <2>4 DEF DeferInv
  <2>6. answer' = [answer EXCEPT ![r.from] = [st |-> "ok", stop |-> 0]]
    BY <1>1, <2>1, SessionAssumption DEF ServeConfigurationDone, Respond, NoOne
  <2>7. Answered'
    BY <1>a, <1>b, <2>1, <2>2, <2>6 DEF Answered
  <2>8. \A h \in Handlers : pc'[h] = "configuring" => answer'[h].st # "error"
    BY <1>a, <1>b, <2>1, <2>3, <2>6
  <2>9. configs' = 1
    BY <1>1, <2>5 DEF ServeConfigurationDone
  <2> QED
    BY <1>b, <1>d, <2>7, <2>8, <2>9 DEF DeferInv, ConfigurationDoneOnce
<1>2. CASE ~ServeConfigurationDone(r)
  <2>1. \E st, n : Respond(r, st, n)
    BY <1>2, <1>f DEF ServeContinue, ServePause, ServeStackTrace, ServeDisconnect, Ignored
  <2>2. r.req # "configurationDone" /\ configs' = configs
    BY <1>2, <1>f DEF ServeContinue, ServePause, ServeStackTrace, ServeDisconnect, Ignored
  <2>3. target \in {"suspended", "gone"} => target' \in {target, "gone"}
    BY <1>2, <1>f DEF ServeContinue, ServePause, ServeStackTrace, ServeDisconnect, Ignored
  <2>4. \A h \in Handlers : pc[h] = "configuring" => answer'[h] = answer[h]
    <3>1. r.from \in Handlers => pc[r.from] # "configuring"
      BY <1>e, <2>2, SessionAssumption DEF Asked, NoOne
    <3> QED
      BY <1>a, <1>e, <2>1, <3>1 DEF Respond
  <2>5. Aside
    BY <1>b, <1>d, <2>2, <2>3, <2>4 DEF Aside
  <2> QED
    BY <2>5, AsideKeeps
<1> QED
  BY <1>1, <1>2

\* While no call times out, configurationDone is served for the handler that
\* holds the lock, or not at all.
LEMMA DeferNext ==
  ASSUME ~Timeouts, TypeOK, CallsInv, LockInv, DeferInv, Next
  PROVE  DeferInv'
<1>a. /\ pc \in [Handlers -> Labels] /\ answer \in [Handlers -> Answer]
      /\ inbox \in Seq(Message)
  BY DEF TypeOK, TypeHandlers, TypeCalls
<1>1. ASSUME NEW g \in Handlers, EnsureSend(g) PROVE DeferInv'
  <2>1. UNCHANGED <<adapter, target, configs, pendingConfigDone>>
    BY <1>1 DEF EnsureSend, programVars
  <2>2. \A h \in Handlers : pc[h] # "configuring"
    BY <1>1, SessionAssumption DEF EnsureSend, LockInv, NoOne
  <2>3. /\ answer'[g].st # "ok" /\ (adapter = "up" => answer'[g].st = "none")
        /\ \A h \in Handlers : h # g => pc'[h] # "configuring"
    <3>1. PICK a \in {NoAnswer, Failure} :
            /\ answer' = [answer EXCEPT ![g] = a] /\ a.st # "ok"
            /\ adapter = "up" => a.st = "none"
      BY <1>1, SendAnswers DEF EnsureSend
    <3> QED
      BY <1>a, <1>1, <2>2, <3>1 DEF EnsureSend, Goto
  <2>4. ~Answered /\ ~Answered'
    BY <2>2, <2>3 DEF Answered
  <2>5. \A i \in DOMAIN inbox' : inbox'[i].req = "configurationDone" => inbox'[i].from # NoOne
    <3>1. CASE inbox' = inbox
      BY <3>1 DEF DeferInv
    <3>2. CASE inbox' = Append(inbox, [from |-> g, req |-> "configurationDone"])
      <4>1. \A i \in DOMAIN inbox' :
              (i \in DOMAIN inbox /\ inbox'[i] = inbox[i]) \/ inbox'[i].from = g
        BY <1>a, <3>2
      <4> QED
        BY <4>1, SessionAssumption DEF DeferInv, NoOne
    <3> QED
      BY <1>1, <3>1, <3>2 DEF EnsureSend, Send
  <2>6. adapter = "down" => inbox' = <<>>
    BY <1>1 DEF EnsureSend, Send, DeferInv
  <2> QED
    BY <2>1, <2>3, <2>4, <2>5, <2>6 DEF DeferInv, ConfigurationDoneOnce
<1>2. ASSUME NEW g \in Handlers, EnsureOk(g) PROVE DeferInv'
  <2>1. UNCHANGED <<adapter, target, configs, inbox>> /\ ~pendingConfigDone'
    BY <1>2 DEF EnsureOk, Receive, programVars
  <2>2. \A h \in Handlers : pc'[h] # "configuring"
    BY <1>a, <1>2 DEF EnsureOk, Goto, LockInv
  <2> QED
    BY <2>1, <2>2 DEF DeferInv, ConfigurationDoneOnce
<1>3. ASSUME NEW g \in Handlers, EnsureFails(g) PROVE DeferInv'
  <2>1. UNCHANGED <<adapter, target, configs, pendingConfigDone>> /\ adapter = "down"
    BY <1>3 DEF EnsureFails, CallFails, CallTimer, programVars, DeferInv, TypeOK, TypeProgram
  <2>2. inbox' = <<>>
    BY <1>3, <2>1 DEF EnsureFails, Forget, DeferInv
  <2>3. \A h \in Handlers : pc'[h] # "configuring"
    BY <1>a, <1>3 DEF EnsureFails, Return, Finish, Goto, LockInv
  <2> QED
    BY <2>1, <2>2, <2>3 DEF DeferInv, ConfigurationDoneOnce
<1>4. ASSUME NEW g \in Handlers, CloseRest(g) PROVE DeferInv'
  <2>1. adapter' = "down" /\ target' = "gone" /\ inbox' = <<>> /\ UNCHANGED configs
    BY <1>4 DEF CloseRest
  <2> QED
    BY <2>1 DEF DeferInv, ConfigurationDoneOnce
<1>5. CASE AdapterDies
  <2>1. /\ adapter' = "down" /\ target' = "gone" /\ inbox' = <<>>
        /\ UNCHANGED configs
    BY <1>5 DEF AdapterDies
  <2> QED
    BY <2>1 DEF DeferInv, ConfigurationDoneOnce
<1>6. CASE Pump \/ WatchAdapterExit \/ TargetStops \/ TargetExits \/ TargetTerminates
  <2>1. Aside
    BY <1>6 DEF Pump, WatchAdapterExit, TargetStops, TargetExits, TargetTerminates, configVars,
       callVars, Aside, DeferInv
  <2> QED
    BY <2>1, AsideKeeps
<1> QED
  BY <1>1, <1>2, <1>3, <1>4, <1>5, <1>6, AsideSteps, AsideKeeps, DeferServes
     DEF Next, ProgramStep, HandlerStep

-----------------------------------------------------------------------------
(* The waiter precedes the resume.                                         *)

\* While the program stands at its stop nobody's resume gets answered, and no
\* handler empties its channel and goes on waiting.
LEMMA FlightStill ==
  ASSUME ~(Java /\ Timeouts), TypeOK, ControlInv, CallsInv, LockInv, ~Timeouts => DeferInv, Next,
         target = "stopped", target' = "stopped", ~Pump, NEW h \in Handlers,
         Resumed(h)', cmd'[h] \in Exec \cup {"until"}, chan'[h] = NoEvent
  PROVE  Resumed(h) /\ cmd[h] \in Exec \cup {"until"} /\ chan[h] = NoEvent
<1> DEFINE Goal == Resumed(h) /\ cmd[h] \in Exec \cup {"until"} /\ chan[h] = NoEvent
<1> SUFFICES Goal
  OBVIOUS
<1> HIDE DEF Goal
<1>a. /\ pc \in [Handlers -> Labels] /\ cmd \in [Handlers -> Commands]
      /\ answer \in [Handlers -> Answer] /\ inbox \in Seq(Message)
      /\ chan \in [Handlers -> Event] /\ configured \in [Handlers -> BOOLEAN]
  BY DEF TypeOK, TypeHandlers, TypeCalls, TypeWaiters
<1>b. ASSUME UNCHANGED <<pc[h], cmd[h], configured[h], chan[h], answer[h]>>
      PROVE  Goal
  BY <1>b DEF Goal, Resumed, SkipsResume
<1>1. ASSUME NEW g \in Handlers, ExecBegin(g) PROVE Goal
  BY <1>a, <1>1 DEF ExecBegin, Begin, Accept, Goto, InstallStateWaiter, callVars, Goal, Resumed,
     SkipsResume
<1>2. ASSUME NEW g \in Handlers, UntilBegin(g) PROVE Goal
  BY <1>a, <1>2 DEF UntilBegin, Accept, Goto, waiterVars, callVars, Goal, Resumed, SkipsResume
<1>3. ASSUME NEW g \in Handlers, PauseBegin(g) \/ StateBegin(g) \/ ListenBegin(g) \/ StopBegin(g)
      PROVE  Goal
  BY <1>a, <1>3 DEF PauseBegin, StateBegin, ListenBegin, StopBegin, Begin, Accept, Goto,
     waiterVars, callVars, Goal, Resumed, SkipsResume
<1>4. ASSUME NEW g \in Handlers, EnsureNothing(g) PROVE Goal
  BY <1>a, <1>4 DEF EnsureNothing, Goto, waiterVars, callVars, Goal, Resumed, SkipsResume
<1>5. ASSUME NEW g \in Handlers, EnsureSend(g) PROVE Goal
  <2>1. PICK a \in {NoAnswer, Failure} : answer' = [answer EXCEPT ![g] = a] /\ a.st # "ok"
    BY <1>5, SendAnswers DEF EnsureSend
  <2> QED
    BY <1>a, <1>5, <2>1 DEF EnsureSend, Goto, waiterVars, localVars, Goal, Resumed, SkipsResume
<1>6. ASSUME NEW g \in Handlers, EnsureOk(g) PROVE Goal
  BY <1>a, <1>6 DEF EnsureOk, Receive, Goto, waiterVars, Goal, Resumed, SkipsResume
<1>7. ASSUME NEW g \in Handlers, EnsureFails(g) \/ ResumeFails(g) PROVE Goal
  BY <1>a, <1>7 DEF EnsureFails, ResumeFails, Forget, AbandonWaiter, Return, Finish, Goto,
     waiterVars, Goal, Resumed, SkipsResume
<1>8. ASSUME NEW g \in Handlers, UntilRefused(g) \/ WaitTimeout(g) \/ Report(g) \/ RemoveNothing(g)
      PROVE  Goal
  BY <1>a, <1>8 DEF UntilRefused, WaitTimeout, Report, RemoveNothing, AbandonWaiter, Return,
     Finish, Goto, waiterVars, callVars, Goal, Resumed, SkipsResume
<1>9. ASSUME NEW g \in Handlers, Arm(g) PROVE Goal
  BY <1>a, <1>9 DEF Arm, InstallStateWaiter, Goto, callVars, LockInv, Goal, Resumed, SkipsResume
<1>10. ASSUME NEW g \in Handlers, ListenWait(g) PROVE Goal
  BY <1>a, <1>10 DEF ListenWait, InstallStateWaiter, Goto, callVars, ControlInv, Exec, Goal,
     Resumed, SkipsResume
<1>11. ASSUME NEW g \in Handlers, ResumeSend(g) \/ LocateSend(g) \/ RemoveSend(g) PROVE Goal
  <2>1. PICK a \in {NoAnswer, Failure} : answer' = [answer EXCEPT ![g] = a] /\ a.st # "ok"
    BY <1>11, SendAnswers DEF ResumeSend, LocateSend, RemoveSend
  <2> QED
    BY <1>a, <1>11, <2>1 DEF ResumeSend, LocateSend, RemoveSend, Goto, waiterVars, localVars,
       Goal, Resumed, SkipsResume
<1>12. ASSUME NEW g \in Handlers, ResumeSkip(g) PROVE Goal
  BY <1>a, <1>12 DEF ResumeSkip, Goto, waiterVars, localVars, callVars, Goal, Resumed,
     SkipsResume
<1>13. ASSUME NEW g \in Handlers, ResumeOk(g) PROVE Goal
  BY <1>a, <1>13 DEF ResumeOk, Receive, Goto, waiterVars, localVars, Goal, Resumed, SkipsResume
<1>14. ASSUME NEW g \in Handlers, LocateOk(g) \/ LocateFails(g) PROVE Goal
  BY <1>a, <1>14 DEF LocateOk, LocateFails, Receive, Forget, Return, Finish, Goto, Goal,
     Resumed, SkipsResume
<1>15. ASSUME NEW g \in Handlers, WaitEvent(g) PROVE Goal
  BY <1>a, <1>15 DEF WaitEvent, AbandonWaiter, Return, Finish, Goto, waiterVars, localVars,
     callVars, Goal, Resumed, SkipsResume
<1>16. ASSUME NEW g \in Handlers, CloseRest(g) PROVE FALSE
  BY <1>16 DEF CloseRest
<1>17. CASE WatchAdapterExit
  <2>1. chan[h] = NoEvent
    BY <1>a, <1>17 DEF WatchAdapterExit, NotifyWaiters, waiterVars, Ev, NoEvent
  <2> QED
    BY <1>17, <2>1 DEF WatchAdapterExit, localVars, callVars, Goal, Resumed, SkipsResume
<1>18. CASE TargetStops \/ TargetExits \/ TargetTerminates \/ AdapterDies
  BY <1>18 DEF TargetStops, TargetExits, TargetTerminates, AdapterDies
<1>19. CASE AdapterServes
  <2>1. UNCHANGED <<pc, cmd, configured, chan, pendingConfigDone>> /\ adapter = "up" /\ inbox # <<>>
    BY <1>19 DEF AdapterServes, localVars, waiterVars, configVars
  <2>2. CASE answer'[h] = answer[h]
    BY <1>b, <2>1, <2>2
  <2>3. CASE answer'[h] # answer[h]
    <3> DEFINE r == inbox[1]
    <3>1. 1 \in DOMAIN inbox /\ r = Head(inbox)
      BY <1>a, <2>1
    <3>2. \/ ServeConfigurationDone(r) \/ ServeContinue(r) \/ ServePause(r)
          \/ ServeStackTrace(r) \/ ServeDisconnect(r)
      BY <1>19, <3>1 DEF AdapterServes
    <3>3. \E st, n : Respond(r, st, n)
      BY <3>2 DEF ServeConfigurationDone, ServeContinue, ServePause, ServeStackTrace,
         ServeDisconnect, Ignored
    <3>4. r.from = h /\ h # NoOne
      BY <1>a, <2>3, <3>3, SessionAssumption DEF Respond, NoOne
    <3>5. r.req = Asked(h) /\ answer[h].st = "none"
      BY <3>1, <3>4 DEF CallsInv
    <3> HIDE DEF r
    <3>6. ~ServeContinue(r) /\ ~ServeDisconnect(r)
      BY DEF ServeContinue, ServeDisconnect, Ignored
    <3>7. CASE ServePause(r) \/ ServeStackTrace(r)
      <4>1. r.req \in {"pause", "stackTrace"}
        BY <3>7 DEF ServePause, ServeStackTrace
      <4>2. pc[h] \notin {"configuring", "resume", "wait"} /\ (pc[h] = "resuming" => cmd[h] = "pause")
        BY <3>5, <4>1 DEF Asked
      <4> QED
        BY <2>1, <4>2 DEF Resumed, Exec
    <3>8. CASE ServeConfigurationDone(r)
      <4>1. pc[h] = "configuring"
        BY <3>5, <3>8 DEF ServeConfigurationDone, Asked
      <4>2. Java /\ ~Timeouts
        BY <2>1, <4>1 DEF Resumed
      <4>3. pendingConfigDone /\ ~Answered
        BY <3>5, <4>1 DEF LockInv, Answered
      <4> QED
        BY <2>1, <4>2, <4>3 DEF DeferInv
    <3> QED
      BY <3>2, <3>6, <3>7, <3>8
  <2> QED
    BY <2>2, <2>3
<1> QED
  BY <1>1, <1>2, <1>3, <1>4, <1>5, <1>6, <1>7, <1>8, <1>9, <1>10, <1>11, <1>12, <1>13,
     <1>14, <1>15, <1>16, <1>17, <1>18, <1>19 DEF Next, ClientStep, HandlerStep, ProgramStep

\* A stop is on its way to every resumed handler that has not been told of it.
LEMMA FlightNext ==
  ASSUME ~(Java /\ Timeouts), TypeOK, ControlInv, WaiterAccounted, CallsInv, LockInv,
         ~Timeouts => DeferInv, FlightInv, Next
  PROVE  FlightInv'
<1> SUFFICES ASSUME NEW h \in Handlers, Resumed(h)', cmd'[h] \in Exec \cup {"until"},
                    chan'[h] = NoEvent, target' = "stopped", ~lost'
             PROVE  \E i \in DOMAIN events' : events'[i] = Ev("stopped", stops', 0)
  BY DEF FlightInv
<1>a. /\ events \in Seq(Event) /\ lost \in BOOLEAN /\ stops \in Nat
      /\ pc \in [Handlers -> Labels] /\ chan \in [Handlers -> Event]
  BY DEF TypeOK, TypeHandlers, TypeProgram, TypeWaiters
<1>1. CASE Halted
  <2>1. Ev("stopped", stops + 1, 0) \in Event
    BY <1>a, EventValues DEF Kinds
  <2>2. /\ DOMAIN events' = 1..(Len(events) + 1) /\ Len(events) \in Nat
        /\ events'[Len(events) + 1] = Ev("stopped", stops + 1, 0)
    BY <1>a, <1>1, <2>1, Emitting DEF Halted
  <2> QED
    BY <1>1, <2>2 DEF Halted
<1>2. CASE Still /\ ~Pump
  BY <1>2, FlightStill DEF Still, FlightInv
<1>3. CASE Ran \/ Exited \/ Ended
  BY <1>3 DEF Ran, Exited, Ended
<1>4. CASE Pump
  <2>1. UNCHANGED <<target, stops, lost, pc, cmd, configured, answer>>
    BY <1>4 DEF Pump, localVars, callVars
  <2>2. Resumed(h) /\ cmd[h] \in Exec \cup {"until"} /\ target = "stopped" /\ ~lost
    BY <2>1 DEF Resumed, SkipsResume
  <2>3. Armed(h)
    BY <2>2 DEF Resumed, Armed, ControlInv, Exec
  <2>4. /\ \A i \in DOMAIN events' : i + 1 \in DOMAIN events /\ events'[i] = events[i + 1]
        /\ \A i \in DOMAIN events : i = 1 \/ (i - 1 \in DOMAIN events' /\ events'[i - 1] = events[i])
        /\ Head(events) = events[1]
    BY <1>a, <1>4, Pumping
  <2>5. CASE HandleContinued(Head(events))
    <3>1. chan[h] = NoEvent
      BY <2>5 DEF HandleContinued, waiterVars
    <3>2. PICK i \in DOMAIN events : events[i] = Ev("stopped", stops, 0)
      BY <2>2, <3>1 DEF FlightInv
    <3>3. i # 1
      BY <2>4, <2>5, <3>2 DEF HandleContinued, Ev
    <3> QED
      BY <2>1, <2>4, <3>2, <3>3
  <2>6. CASE ~HandleContinued(Head(events))
    <3>1. /\ chan' = [g \in Handlers |-> IF g \in waiters THEN Head(events) ELSE chan[g]]
          /\ Head(events).kind # "none"
      BY <1>4, <2>6 DEF Pump, HandleStopped, HandleExited, HandleTerminated, NotifyWaiters
    <3>2. h \notin waiters /\ chan[h] = NoEvent
      BY <3>1 DEF NoEvent
    <3> QED
      BY <2>3, <3>2 DEF WaiterAccounted
  <2> QED
    BY <2>5, <2>6
<1> QED
  BY <1>1, <1>2, <1>3, <1>4, StreamSteps DEF Moves

-----------------------------------------------------------------------------
(* The invariant and what it gives.                                        *)

StreamInv == StopsInv /\ SinceInv /\ FreshStop /\ EndInv /\ CallsInv /\ LockInv

\* The initial states satisfy every part.
LEMMA StreamInit == Init => StreamInv /\ DeferInv /\ FlightInv
<1> SUFFICES ASSUME Init PROVE StreamInv /\ DeferInv /\ FlightInv
  OBVIOUS
<1>1. StopsInv /\ SinceInv /\ CallsInv
  BY DEF Init, StopsInv, SinceInv, CallsInv
<1>2. FreshStop /\ EndInv
  BY DEF Init, FreshStop, EndInv, NoEvent
<1>3. LockInv
  BY SessionAssumption DEF Init, LockInv, NoOne
<1>4. DeferInv
  BY DEF Init, DeferInv, Answered, ConfigurationDoneOnce
<1>5. FlightInv
  BY DEF Init, FlightInv
<1> QED
  BY <1>1, <1>2, <1>3, <1>4, <1>5 DEF StreamInv

\* A stuttering step keeps them.
LEMMA StreamStutter ==
  ASSUME UNCHANGED vars
  PROVE  /\ StreamInv => StreamInv'
         /\ DeferInv => DeferInv'
         /\ FlightInv => FlightInv'
<1> USE DEF vars, sessionVars, waiterVars, configVars, localVars, programVars, callVars
<1>1. (StopsInv => StopsInv') /\ (SinceInv => SinceInv')
  BY DEF StopsInv, SinceInv
<1>2. (FreshStop => FreshStop') /\ (EndInv => EndInv')
  BY DEF FreshStop, Armed, EndInv, Over
<1>3. (CallsInv => CallsInv') /\ (LockInv => LockInv')
  BY DEF CallsInv, Asked, LockInv
<1>4. DeferInv => DeferInv'
  BY DEF DeferInv, Answered, ConfigurationDoneOnce
<1>5. FlightInv => FlightInv'
  BY DEF FlightInv, Resumed, SkipsResume
<1> QED
  BY <1>1, <1>2, <1>3, <1>4, <1>5 DEF StreamInv

\* StreamInv is inductive, with the invariant of SessionProofs.
THEOREM StreamInvariance == Spec => []StreamInv
<1>1. TypeOK /\ Inv /\ StreamInv /\ Next => StreamInv'
  BY StopsNext, SinceNext, FreshNext, EndNext, CallsNext, LockNext DEF Inv, StreamInv
<1>2. StreamInv /\ UNCHANGED vars => StreamInv'
  BY StreamStutter
<1> QED
  BY <1>1, <1>2, StreamInit, TypeCorrect, Invariance, PTL DEF Spec

\* No resuming or pausing command answers with a pause the session already had
\* on record when its waiter was installed.
THEOREM StopsAreFresh == Spec => []FreshStop
<1>1. StreamInv => FreshStop
  BY DEF StreamInv
<1> QED
  BY <1>1, StreamInvariance, PTL

\* The record of an exited event is final: neither the terminated event after it
\* nor the process watcher replaces the exit code of the program.
THEOREM ExitIsFinal == Spec => ExitedIsFinal
<1>1. TypeOK /\ StreamInv /\ [Next]_vars =>
        [lastTerminal.kind = "exited" => lastTerminal' = lastTerminal]_vars
  BY EndNext DEF StreamInv
<1> QED
  BY <1>1, TypeCorrect, StreamInvariance, PTL DEF Spec, ExitedIsFinal

\* Where no call times out, however many commands race to send the deferred
\* configurationDone, the adapter is configured at most once.
THEOREM DeferInvariance == ~Timeouts => (Spec => []DeferInv)
<1> SUFFICES ASSUME ~Timeouts PROVE Spec => []DeferInv
  OBVIOUS
<1>1. TypeOK /\ StreamInv /\ DeferInv /\ Next => DeferInv'
  BY DeferNext DEF StreamInv
<1>2. DeferInv /\ UNCHANGED vars => DeferInv'
  BY StreamStutter
<1> QED
  BY <1>1, <1>2, StreamInit, TypeCorrect, StreamInvariance, PTL DEF Spec

\* EnsureConfigurationDone sends configurationDone once, if no call is given up.
THEOREM ConfiguredOnce == ~Timeouts => (Spec => []ConfigurationDoneOnce)
<1> SUFFICES ASSUME ~Timeouts PROVE Spec => []ConfigurationDoneOnce
  OBVIOUS
<1>1. DeferInv => ConfigurationDoneOnce
  BY DEF DeferInv
<1>2. Spec => []DeferInv
  BY DeferInvariance
<1> QED
  BY <1>1, <1>2, PTL

\* The waiter is installed before the resume, so a stop of the program is in the
\* stream for every resumed command that has not been told of it.  A Java session
\* whose configurationDone timed out is the exception: its continue takes the
\* second configurationDone for a resume although the program stands at a stop.
THEOREM StopsInFlight == ~(Java /\ Timeouts) => (Spec => []StopInFlight)
<1> SUFFICES ASSUME ~(Java /\ Timeouts) PROVE Spec => []StopInFlight
  OBVIOUS
<1>1. TypeOK /\ Inv /\ StreamInv /\ (~Timeouts => DeferInv) /\ FlightInv /\ Next => FlightInv'
  BY FlightNext DEF Inv, StreamInv
<1>2. FlightInv /\ UNCHANGED vars => FlightInv'
  BY StreamStutter
<1>3. FlightInv => StopInFlight
  BY DEF FlightInv, StopInFlight, Resumed
<1>4. CASE Timeouts
  <2>1. ~Timeouts => DeferInv
    BY <1>4
  <2>2. TypeOK /\ Inv /\ StreamInv /\ FlightInv /\ Next => FlightInv'
    BY <1>1, <2>1
  <2> QED
    BY <1>2, <1>3, <2>2, StreamInit, TypeCorrect, Invariance, StreamInvariance, PTL DEF Spec
<1>5. CASE ~Timeouts
  <2>1. TypeOK /\ Inv /\ StreamInv /\ DeferInv /\ FlightInv /\ Next => FlightInv'
    BY <1>1
  <2>2. Spec => []DeferInv
    BY <1>5, DeferInvariance
  <2> QED
    BY <1>2, <1>3, <2>1, <2>2, StreamInit, TypeCorrect, Invariance, StreamInvariance, PTL
       DEF Spec
<1> QED
  BY <1>4, <1>5

=============================================================================
