----------------------------- MODULE DapClient -----------------------------
(***************************************************************************)
(* The DAP client of dap/client.go: concurrent calls that share one stream *)
(* to the adapter, the table of pending requests, the reader goroutine     *)
(* that routes responses to calls and everything else to the event         *)
(* subscription, and Close.                                                *)
(*                                                                         *)
(* Client.mu is held for one step at a time; what the code does between    *)
(* two acquisitions (send on a channel, write to the stream) is a step of  *)
(* its own.  A response is identified by the request it answers.  The      *)
(* adapter is external: it answers requests in any order, sends events,    *)
(* may send something unreadable and may die.                              *)
(***************************************************************************)
EXTENDS Naturals, Sequences, FiniteSets

CONSTANTS
  Callers,      \* goroutines that issue DAP requests
  Timeouts,     \* TRUE when the timers of Call may fire
  SubCap,       \* capacity of the subscription (64 in Subscribe)
  MaxSeq,       \* bound: requests
  MaxEvents     \* bound: events

ASSUME DapAssumption ==
  /\ Timeouts \in BOOLEAN
  /\ SubCap \in Nat \ {0} /\ MaxSeq \in Nat /\ MaxEvents \in Nat

VARIABLES
  seq, pending, closed,     \* Client
  filled, shut,             \* response channels that hold a message, that are closed
  sub, queue,               \* the event subscription and what it holds
  at, mine, result,         \* per caller: control, its request, what Call returned
  reader, msg,              \* the reader goroutine and the message in its hands
  alive, inbox, stream,     \* the adapter: requests it has, messages on the wire
  sent,                     \* events sent so far
  panicked                  \* a send on, or close of, a closed channel

clientVars  == <<seq, pending, closed>>
channelVars == <<filled, shut, sub, queue>>
callVars    == <<at, mine, result>>
readerVars  == <<reader, msg>>
adapterVars == <<alive, inbox, stream, sent>>
vars == <<clientVars, channelVars, callVars, readerVars, adapterVars, panicked>>

\* req = 0 for an event, the sequence number answered for a response.
Seqs    == 1..MaxSeq
Event   == 0
Message == Seqs \cup {Event}

\* What a Call returned: nothing yet, the response to request req, or an error.
Outcome == [st : {"none", "ok", "error"}, req : Nat]
NoOutcome == [st |-> "none", req |-> 0]
Failed    == [st |-> "error", req |-> 0]

Init ==
  /\ seq = 0 /\ pending = {} /\ closed = FALSE
  /\ filled = {} /\ shut = {} /\ sub = "open" /\ queue = <<>>
  /\ at = [c \in Callers |-> "idle"] /\ mine = [c \in Callers |-> 0]
  /\ result = [c \in Callers |-> NoOutcome]
  /\ reader = "read" /\ msg = Event
  /\ alive = TRUE /\ inbox = {} /\ stream = <<>> /\ sent = 0
  /\ panicked = FALSE

-----------------------------------------------------------------------------
(* Call.                                                                   *)

Return(c, r) ==
  /\ at' = [at EXCEPT ![c] = "idle"]
  /\ mine' = [mine EXCEPT ![c] = 0]
  /\ result' = [result EXCEPT ![c] = r]

\* A faulty variant: the request is only entered once it has been written.
SendUnregistered(c) ==
  /\ at[c] = "idle" /\ seq < MaxSeq
  /\ seq' = seq + 1
  /\ at' = [at EXCEPT ![c] = "writing"]
  /\ mine' = [mine EXCEPT ![c] = seq + 1]
  /\ UNCHANGED <<pending, closed, channelVars, result, readerVars, adapterVars, panicked>>

\* send: a sequence number and, unless the client is closed, an entry in the
\* table before the request goes out.
Send(c) ==
  /\ at[c] = "idle" /\ seq < MaxSeq
  /\ seq' = seq + 1
  /\ IF closed
     THEN Return(c, Failed) /\ UNCHANGED pending
     ELSE /\ pending' = pending \cup {seq + 1}
          /\ at' = [at EXCEPT ![c] = "writing"]
          /\ mine' = [mine EXCEPT ![c] = seq + 1]
          /\ result' = [result EXCEPT ![c] = NoOutcome]
  /\ UNCHANGED <<closed, channelVars, readerVars, adapterVars, panicked>>

\* WriteProtocolMessage, outside the lock.  A socket may take what a dead adapter
\* will never read.
Write(c) ==
  /\ at[c] = "writing" /\ ~closed
  /\ inbox' = IF alive THEN inbox \cup {mine[c]} ELSE inbox
  /\ at' = [at EXCEPT ![c] = "waiting"]
  /\ UNCHANGED <<clientVars, channelVars, mine, result, readerVars, alive, stream, sent,
                 panicked>>

\* A faulty variant: the entry stays behind.
WriteFailsLeaking(c) ==
  /\ at[c] = "writing" /\ (~alive \/ closed)
  /\ Return(c, Failed)
  /\ UNCHANGED <<clientVars, channelVars, readerVars, adapterVars, panicked>>

WriteFails(c) ==
  /\ at[c] = "writing" /\ (~alive \/ closed)
  /\ pending' = pending \ {mine[c]}
  /\ Return(c, Failed)
  /\ UNCHANGED <<seq, closed, channelVars, readerVars, adapterVars, panicked>>

\* The response channel yields a message, or is closed and empty.
CallReturns(c) ==
  /\ at[c] = "waiting" /\ mine[c] \in filled \cup shut
  /\ Return(c, IF mine[c] \in filled THEN [st |-> "ok", req |-> mine[c]] ELSE Failed)
  /\ filled' = filled \ {mine[c]}
  /\ UNCHANGED <<clientVars, shut, sub, queue, readerVars, adapterVars, panicked>>

\* The timer or the context, even if the response is there.
CallTimesOut(c) ==
  /\ at[c] = "waiting" /\ Timeouts
  /\ pending' = pending \ {mine[c]}
  /\ Return(c, Failed)
  /\ UNCHANGED <<seq, closed, channelVars, readerVars, adapterVars, panicked>>

-----------------------------------------------------------------------------
(* The reader goroutine.                                                   *)

\* A faulty variant: the entry stays in the table while its response is sent.
ReadKeeping ==
  /\ reader = "read" /\ stream # <<>>
  /\ msg' = Head(stream) /\ stream' = Tail(stream)
  /\ reader' = IF Head(stream) \in pending THEN "deliver" ELSE "subs"
  /\ UNCHANGED <<clientVars, channelVars, callVars, alive, inbox, sent, panicked>>

\* dispatch: a response to a pending request takes its entry; a response nobody
\* waits for any more goes the way of an event.
Read ==
  /\ reader = "read" /\ stream # <<>>
  /\ msg' = Head(stream) /\ stream' = Tail(stream)
  /\ IF Head(stream) \in pending
     THEN pending' = pending \ {Head(stream)} /\ reader' = "deliver"
     ELSE reader' = "subs" /\ UNCHANGED pending
  /\ UNCHANGED <<seq, closed, channelVars, callVars, alive, inbox, sent, panicked>>

\* A faulty variant: a channel without a buffer and a send that does not block, which
\* drops the response unless the caller is at its receive.
DeliverUnbuffered ==
  /\ reader = "deliver"
  /\ filled' \in {filled, filled \cup {msg}} /\ shut' = shut \cup {msg}
  /\ panicked' = (panicked \/ msg \in shut)
  /\ reader' = "read"
  /\ UNCHANGED <<clientVars, sub, queue, callVars, msg, adapterVars>>

\* ch <- msg; close(ch), after the unlock.
Deliver ==
  /\ reader = "deliver"
  /\ filled' = filled \cup {msg} /\ shut' = shut \cup {msg}
  /\ panicked' = (panicked \/ msg \in shut)
  /\ reader' = "read"
  /\ UNCHANGED <<clientVars, sub, queue, callVars, msg, adapterVars>>

\* The subscriptions are copied under the lock ...
CopySubs ==
  /\ reader = "subs"
  /\ reader' = IF sub = "open" THEN "publish" ELSE "read"
  /\ UNCHANGED <<clientVars, channelVars, callVars, msg, adapterVars, panicked>>

\* ... and sent to after it, non-blocking; a full one drops the message.
Publish ==
  /\ reader = "publish"
  /\ panicked' = (panicked \/ sub = "closed")
  /\ queue' = IF sub = "open" /\ Len(queue) < SubCap THEN Append(queue, msg) ELSE queue
  /\ reader' = "read"
  /\ UNCHANGED <<clientVars, filled, shut, sub, callVars, msg, adapterVars>>

\* End of the stream, or something that is not DAP: every pending call is
\* released and the reader ends; the client stays open for new calls.
ReadFails ==
  /\ reader = "read" /\ stream = <<>>
  /\ reader' = "done"
  /\ shut' = shut \cup pending /\ pending' = {}
  /\ panicked' = (panicked \/ pending \cap shut # {})
  /\ UNCHANGED <<seq, closed, filled, sub, queue, callVars, msg, adapterVars>>

-----------------------------------------------------------------------------
(* Close, and the subscriber taking what it was sent.                      *)

\* A faulty variant: the table is dropped without closing its channels.
CloseSilently ==
  /\ ~closed
  /\ closed' = TRUE /\ pending' = {} /\ sub' = "closed"
  /\ UNCHANGED <<seq, filled, shut, queue, callVars, readerVars, adapterVars, panicked>>

Close ==
  /\ ~closed
  /\ closed' = TRUE
  /\ shut' = shut \cup pending /\ pending' = {}
  /\ panicked' = (panicked \/ pending \cap shut # {})
  /\ sub' = "closed"
  /\ UNCHANGED <<seq, filled, queue, callVars, readerVars, adapterVars>>

Take ==
  /\ queue # <<>>
  /\ queue' = Tail(queue)
  /\ UNCHANGED <<clientVars, filled, shut, sub, callVars, readerVars, adapterVars, panicked>>

-----------------------------------------------------------------------------
(* The adapter (external).                                                 *)

Respond ==
  /\ alive
  /\ \E n \in inbox : stream' = Append(stream, n) /\ inbox' = inbox \ {n}
  /\ UNCHANGED <<clientVars, channelVars, callVars, readerVars, alive, sent, panicked>>

SendEvent ==
  /\ alive /\ sent < MaxEvents
  /\ stream' = Append(stream, Event) /\ sent' = sent + 1
  /\ UNCHANGED <<clientVars, channelVars, callVars, readerVars, alive, inbox, panicked>>

Die ==
  /\ alive
  /\ alive' = FALSE
  /\ UNCHANGED <<clientVars, channelVars, callVars, readerVars, inbox, stream, sent, panicked>>

-----------------------------------------------------------------------------
CallStep(c)  == Write(c) \/ WriteFails(c) \/ CallReturns(c)
ReaderStep   == Read \/ Deliver \/ CopySubs \/ Publish \/ ReadFails
AdapterStep  == Respond \/ SendEvent \/ Die

Next ==
  \/ \E c \in Callers : Send(c) \/ CallStep(c) \/ CallTimesOut(c)
  \/ ReaderStep \/ Close \/ Take \/ AdapterStep

Spec == Init /\ [][Next]_vars

\* Goroutines are scheduled; the adapter owes nothing and no timer is counted on.
FairSpec == Spec /\ WF_vars(Read \/ Deliver \/ CopySubs \/ Publish)
                 /\ \A c \in Callers : WF_vars(CallStep(c))

-----------------------------------------------------------------------------
(* Properties.                                                             *)

\* Every variable has its type.
TypeOK ==
  /\ seq \in 0..MaxSeq /\ pending \subseteq Seqs /\ closed \in BOOLEAN
  /\ filled \subseteq Seqs /\ shut \subseteq Seqs
  /\ sub \in {"open", "closed"} /\ queue \in Seq(Message) /\ Len(queue) <= SubCap
  /\ at \in [Callers -> {"idle", "writing", "waiting"}]
  /\ mine \in [Callers -> Seqs \cup {0}] /\ result \in [Callers -> Outcome]
  /\ reader \in {"read", "deliver", "subs", "publish", "done"} /\ msg \in Message
  /\ alive \in BOOLEAN /\ inbox \subseteq Seqs /\ stream \in Seq(Message)
  /\ sent \in Nat /\ panicked \in BOOLEAN

\* A call that waits is never forgotten: its entry is in the table, its response
\* is in the reader's hands, or its channel is ready.  In particular Close and the
\* end of the stream release every call, also one whose response is half delivered.
CallAccounted ==
  \A c \in Callers :
    at[c] = "waiting" =>
      \/ mine[c] \in pending \cup filled \cup shut
      \/ reader = "deliver" /\ msg = mine[c]

\* The table does not leak: an entry belongs to a call in progress.
PendingOwned ==
  \A n \in pending : \E c \in Callers : at[c] # "idle" /\ mine[c] = n

\* A response channel is closed once and never sent to afterwards, although the
\* reader delivers outside the lock under which Close and the end of the stream
\* close what is pending.
ResponsesSafe ==
  /\ pending \cap shut = {}
  /\ reader = "deliver" => msg \notin shut \cup pending

\* Answers on their way: on the wire, in the reader's hands or in a channel.
OnStream == {stream[i] : i \in DOMAIN stream} \ {Event}
InHand   == IF reader = "deliver" THEN {msg} ELSE {}
Whole    == ~closed /\ alive /\ reader # "done"

Service == INSTANCE CallService WITH
  call <- mine, got <- result, last <- seq, asked <- inbox,
  answers <- OnStream \cup InHand \cup filled, whole <- Whole

\* The table, the channels and the reader together are the call service that the
\* handlers rely on: a call gets the answer to its own request, no answer is lost on
\* the way to a call that waits for it while the connection is whole, and without
\* timers no call fails then.
ImplementsService == Service!ServiceSpec

\* Close releases everybody without the help of a timer: calls that wait, that
\* are about to write, that begin later, and one whose response is half delivered.
CloseReleases ==
  closed ~> \A c \in Callers : at[c] = "idle"

\* "Avoid panics outside of init(). Panics inside goroutines must be recovered to
\* the daemon log" (CONTRIBUTING.md): no goroutine sends on a closed channel.
NoPanic == ~panicked

\* "Per-session request mutex (DAP is sequential within a session)" (DESIGN.md).
Sequential == Cardinality(pending) <= 1

=============================================================================
