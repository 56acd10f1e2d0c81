-------------------------------- MODULE Mcp --------------------------------
(***************************************************************************)
(* The MCP server: the stdio loop of mcp/server.go, its tools, the         *)
(* composite tools of composites.go, argument validation, the allowlist,   *)
(* resources and prompts.                                                  *)
(*                                                                         *)
(* It is one client of the daemon among others, so it is composed with the *)
(* session table that the manager promises (SessionTable, which            *)
(* SessionManager implements): between any two of its calls another client *)
(* may start, stop, choose or resume a session, and the debugged programs  *)
(* run.  Daemon commands are abstracted to what they do to that table and  *)
(* to the program of a session.  Its stops are numbered; the daemon learns *)
(* of them, and of its end, by events that come later, and of a resumption *)
(* by an event that need not come, so the recorded state may be stale.     *)
(***************************************************************************)
EXTENDS SessionTable, Integers, Sequences, FiniteSets

CONSTANTS
  Fenced,        \* is any root given with --allow-cwd?
  MaxRequests,   \* bound: requests on stdin
  MaxMoves,      \* bound: steps of other clients, and programs that end
  MaxStops,      \* bound: stops of each session
  MaxExprs       \* bound: expressions in one inspect_at

ASSUME McpAssumption ==
  /\ MaxRequests \in Nat /\ MaxMoves \in Nat /\ MaxStops \in [Ids -> Nat] /\ MaxExprs \in Nat
  /\ Fenced \in BOOLEAN /\ NoId \notin Ids

VARIABLES
  prog, stop,        \* per session: its program, the number of the last stop
  st, seen,          \* per session: the state recorded, the last stop recorded
  readOnly,          \* the option --read-only
  pc, tool, pinned,  \* the request in progress: control, tool, session
  dflt,              \* what DefaultID gave; later, the session a call waits on
  todo, got,         \* its daemon calls: those to come, the answers so far
  heard,             \* the stop its waiter was told of, 0 for none
  cur,               \* its id, or 0 for a notification
  asked, replies,    \* how many messages had an id; the ids of the replies
  mute,              \* ids that came with initialized or exit
  disturbed,         \* since the request was read, has another client moved,
                     \* or was a stop on its way to the daemon at a resumption?
  moves              \* steps of other clients and ends of programs so far

sessionVars == <<live, default, prog, stop, st, seen>>
serverVars  == <<pc, tool, pinned, dflt, todo, got, heard, cur>>
readVars    == <<asked, mute>>
vars == <<sessionVars, readOnly, serverVars, readVars, replies, disturbed, moves>>

\* over: exited or terminated, of which the server makes the same.
States  == {"initializing", "paused", "running", "over"}
Results == States \cup {"ok", "error", "verified", "unverified"}

-----------------------------------------------------------------------------
(* The tools.  A simple tool has the name of its daemon command.  mutating *)
(* hides it from a read-only server; required: its schema demands some     *)
(* argument; strict: arguments that do not decode are an error rather than *)
(* ignored; routed: the session argument selects an existing session.      *)

Tool(n, m, r, s) == [name |-> n, mutating |-> m, required |-> r, strict |-> s,
                     routed |-> n \notin {"start", "attach", "sessions", "adapters"}]

StartTools == {Tool(n, TRUE, TRUE, TRUE) : n \in {"start", "attach"}}

BreakTools == {Tool(n, TRUE, TRUE, TRUE) : n \in {"break", "break_fn", "break_ex"}}

RunTools ==
  {Tool(n, TRUE, FALSE, FALSE) : n \in {"continue", "step", "next", "finish", "pause"}}
  \cup {Tool("until", TRUE, TRUE, TRUE)}

FrameTools ==
  {Tool(n, FALSE, FALSE, FALSE) : n \in {"stack", "threads", "breaks"}}
  \cup {Tool("unbreak", TRUE, FALSE, FALSE), Tool("set", TRUE, TRUE, TRUE)}

DataTools ==
  {Tool(n, FALSE, FALSE, FALSE) : n \in {"locals", "globals", "output", "events"}}
  \cup {Tool("fields", FALSE, TRUE, TRUE), Tool("source", FALSE, FALSE, TRUE),
        Tool("eval", TRUE, TRUE, TRUE), Tool("watch", TRUE, FALSE, TRUE)}

StateTools ==
  {Tool(n, FALSE, FALSE, FALSE) : n \in {"listen", "snapshot", "state", "sessions", "adapters"}}
  \cup {Tool(n, TRUE, FALSE, FALSE) : n \in {"restart", "stop"}}
  \cup {Tool("print", TRUE, FALSE, TRUE)}

\* A faulty variant: inspect_at is taken for an inspection tool.
CompositeToolsLenient ==
  {Tool("run_until_break", TRUE, TRUE, TRUE), Tool("inspect_at", FALSE, TRUE, TRUE),
   Tool("explain_pause", FALSE, FALSE, FALSE), Tool("snapshot_compact", FALSE, FALSE, FALSE)}

\* Tools with a Handler of their own, of several daemon calls.
CompositeTools ==
  {Tool("run_until_break", TRUE, TRUE, TRUE), Tool("inspect_at", TRUE, TRUE, TRUE),
   Tool("explain_pause", FALSE, FALSE, FALSE), Tool("snapshot_compact", FALSE, FALSE, FALSE)}

ToolRegistry == StartTools \cup BreakTools \cup RunTools \cup FrameTools \cup DataTools
                  \cup StateTools \cup CompositeTools

\* The daemon calls of the composite tools, if all goes well.
RunUntilBreakCalls == <<"break", "continue">>

\* n expressions to evaluate, and possibly a resumption at the end.
InspectAtCalls(n, resume) ==
  <<"break", "continue", "locals">> \o [i \in 1..n |-> "eval"]
    \o IF resume THEN <<"continue">> ELSE <<>>

ExplainPauseCalls == <<"state", "stack", "locals", "watch list">>

\* What it trims off the snapshot is left out.
SnapshotCompactCalls == <<"snapshot">>

Calls(t, n, resume) ==
  CASE t = "run_until_break"  -> RunUntilBreakCalls
    [] t = "inspect_at"       -> InspectAtCalls(n, resume)
    [] t = "explain_pause"    -> ExplainPauseCalls
    [] t = "snapshot_compact" -> SnapshotCompactCalls
    [] OTHER                  -> <<t>>

\* Arguments: absent, {} or null, as the schema wants them, against the schema,
\* or within the schema and yet not decodable (a key that differs in case).
Arguments == {"absent", "empty", "good", "wrong", "odd"}

ValidateArgs(t, a) ==
  /\ a # "wrong"
  /\ t.required => a \in {"good", "odd"}

Decodes(t, a) == t.strict => a \in {"empty", "good"}

\* Where a program to start lies: under an allowed root, outside, on the deny
\* list, or unknown as for attach.
EnforceAllowlist(place) ==
  /\ place # "denied"
  /\ Fenced => place # "outside"

Places(t) ==
  CASE t.name = "start" -> {"inside", "outside", "denied"}
    [] OTHER            -> {"unknown"}

Callable(t) == ~(readOnly /\ t.mutating)

-----------------------------------------------------------------------------
(* The loop.                                                               *)

Init ==
  /\ live \in SUBSET Ids /\ IsFiniteSet(live)
  /\ default \in Ids \cup {NoId} /\ DefaultIsLive
  /\ prog = [x \in Ids |-> IF x \in live THEN "runs" ELSE "ended"]
  /\ st = [x \in Ids |-> IF x \in live THEN "running" ELSE "over"]
  /\ stop = [x \in Ids |-> 0] /\ seen = [x \in Ids |-> 0]
  /\ readOnly \in BOOLEAN
  /\ pc = "read" /\ tool = "none" /\ pinned = NoId /\ dflt = NoId
  /\ todo = <<>> /\ got = <<>> /\ heard = 0 /\ cur = 0
  /\ asked = 0 /\ mute = {} /\ replies = <<>>
  /\ disturbed = FALSE /\ moves = 0

\* Nothing is in progress; the next message may be read.
Done ==
  /\ pc' = "read"
  /\ tool' = "none" /\ pinned' = NoId /\ dflt' = NoId
  /\ todo' = <<>> /\ got' = <<>> /\ heard' = 0 /\ cur' = 0

\* A reply is written.  One without an id (to an initialize that has none) is
\* not recorded.
Write(id) ==
  /\ replies' = IF id = 0 THEN replies ELSE Append(replies, id)
  /\ Done

\* The ids are numbered; 0 stands for none, or null.
Received(id) ==
  /\ pc = "read"
  /\ \/ id = 0 /\ UNCHANGED asked
     \/ id = asked + 1 /\ id <= MaxRequests /\ asked' = id
  /\ disturbed' = FALSE
  /\ UNCHANGED <<sessionVars, readOnly, moves>>

\* initialize is answered with or without an id.
HandleInitialize(id) ==
  /\ Received(id) /\ UNCHANGED mute
  /\ Write(id)

\* initialized is not answered, even if it has an id.
HandleInitialized(id) ==
  /\ Received(id) /\ mute' = mute \cup ({id} \ {0})
  /\ UNCHANGED <<serverVars, replies>>

\* A list, a call, a read or an unknown method without an id is dropped before
\* anything is done for it.
HandleNotification ==
  /\ Received(0) /\ UNCHANGED mute
  /\ UNCHANGED <<serverVars, replies>>

\* The lists of tools, resources and prompts, and an unknown method.
HandleList(id) ==
  /\ id # 0 /\ Received(id) /\ UNCHANGED mute
  /\ Write(id)

\* A prompt, or an error for bad params or a name that is none.
HandlePromptGet(id) ==
  /\ id # 0 /\ Received(id) /\ UNCHANGED mute
  /\ Write(id)

Leave ==
  /\ pc' = "gone"
  /\ UNCHANGED <<tool, pinned, dflt, todo, got, heard, cur>>

\* shutdown answers if it has an id and exits, exit exits without an answer.
HandleExit(id) ==
  /\ Received(id)
  /\ \/ /\ replies' = IF id = 0 THEN replies ELSE Append(replies, id)
        /\ UNCHANGED mute
     \/ mute' = mute \cup ({id} \ {0}) /\ UNCHANGED replies
  /\ Leave

\* Run returns at the end of stdin, or of what can be decoded of it.
RunReturns ==
  /\ pc = "read"
  /\ Leave
  /\ UNCHANGED <<sessionVars, readOnly, readVars, replies, disturbed, moves>>

\* A request that needs the daemon: resolveSession first when it has no session.
Engage(id, t, s, calls) ==
  /\ tool' = t /\ pinned' = s /\ todo' = calls /\ cur' = id
  /\ pc' = IF s = NoId THEN "sessions" ELSE "call"
  /\ UNCHANGED <<dflt, got, heard, replies>>

\* The tool is unknown to this client, its arguments are refused, or the
\* program it would start is.
Refuse(id, t, a, place) ==
  /\ Callable(t) => ~(ValidateArgs(t, a) /\ Decodes(t, a) /\ EnforceAllowlist(place))
  /\ Write(id)

HandleToolCall(id) ==
  /\ id # 0 /\ Received(id) /\ UNCHANGED mute
  /\ \/ Write(id)     \* no such tool, or params that are not an object
     \/ \E t \in ToolRegistry, a \in Arguments :
          \E place \in Places(t) :
            \/ Refuse(id, t, a, place)
            \/ /\ Callable(t) /\ ValidateArgs(t, a) /\ Decodes(t, a) /\ EnforceAllowlist(place)
               /\ \E s \in Ids \cup {NoId}, n \in 0..MaxExprs, resume \in BOOLEAN :
                    /\ ~t.routed => s = NoId
                    /\ Engage(id, t.name, s, Calls(t.name, n, resume))

\* Only the events belong to a session; the other calls go out at once.
HandleResourceRead(id) ==
  /\ id # 0 /\ Received(id) /\ UNCHANGED mute
  /\ \/ Write(id)     \* bad params or an unknown uri
     \/ Engage(id, "resource", NoId, <<"events">>)
     \/ \E c \in {"sessions", "adapters"} :
          /\ tool' = "resource" /\ todo' = <<c>> /\ cur' = id /\ pc' = "call"
          /\ UNCHANGED <<pinned, dflt, got, heard, replies>>

-----------------------------------------------------------------------------
(* resolveSession: the daemon's answer to "sessions" is its default id and *)
(* then its list, not both at once.                                        *)

ServerOnly == UNCHANGED <<sessionVars, readOnly, heard, readVars, disturbed, moves>>

DefaultID ==
  /\ pc = "sessions"
  /\ ServerOnly
  /\ \/ dflt' = default /\ pc' = "list"
     \/ pc' = "call" /\ UNCHANGED dflt     \* the call fails
  /\ UNCHANGED <<tool, pinned, todo, got, cur, replies>>

Only(S) == CHOOSE x \in S : S = {x}

\* The declared default, or the only live session, or the only one.
ResolveSession ==
  LET alive == {x \in live : st[x] # "over"}
  IN  IF dflt \in live               THEN dflt
      ELSE IF Cardinality(alive) = 1 THEN Only(alive)
      ELSE IF Cardinality(live) = 1  THEN Only(live)
      ELSE NoId

List ==
  /\ pc = "list"
  /\ ServerOnly
  /\ pinned' = ResolveSession /\ dflt' = NoId
  /\ pc' = "call"
  /\ UNCHANGED <<tool, todo, got, cur, replies>>

-----------------------------------------------------------------------------
(* The calls.                                                              *)

Resuming == {"continue", "step", "next", "finish", "until"}
Waiting  == Resuming \cup {"pause", "listen"}
Opening  == {"start", "attach"}
Global   == Opening \cup {"sessions", "adapters"}

\* Commands that only read what the debugger knows (globals, in a Java session, by
\* evaluating the name of the frame's class); "watch list", which evaluates the
\* watches of a paused session; and those that change the debugger or the program.
Observing == {"sessions", "adapters", "stack", "threads", "breaks", "locals", "globals",
              "output", "events", "fields", "source", "listen", "snapshot", "state"}
Evaluating == {"watch list"}
Changing == Resuming \cup Opening \cup
            {"break", "break_fn", "break_ex", "unbreak", "pause", "set", "eval", "watch",
             "restart", "stop", "print"}
Commands == Changing \cup Observing \cup Evaluating

\* A faulty variant: the daemon's default of the moment is taken.
TargetDefault == default

\* Manager.Get: no id is the default.
Target == IF pinned = NoId THEN default ELSE pinned

\* A faulty variant: inspect_at goes on after a continue that timed out.
InspectAtEndsRarely(k, result) ==
  k <= 2 /\ result \in {"error", "over"}

\* inspect_at gives up on an error of its first two calls, on an unverified
\* breakpoint and when the program did not pause; the rest it takes as it comes.
InspectAtEnds(k, result) ==
  \/ k = 1 /\ result # "verified"
  \/ k = 2 /\ result # "paused"

\* Does a handler return after the k-th answer?  run_until_break,
\* snapshot_compact and the simple tools on an error, explain_pause never.
Ends(t, k, result) ==
  CASE t = "explain_pause" -> FALSE
    [] t = "inspect_at"    -> InspectAtEnds(k, result)
    [] OTHER               -> result = "error"

\* The stop at which the program of x stands, 0 if it does not stand at one.
Stands(x) == IF prog[x] = "halted" THEN stop[x] ELSE 0

\* The answer to a call, with the stop it tells of: the handler goes on or replies.
Answer(x, result, told) ==
  LET answers == Append(got, [cmd |-> Head(todo), on |-> x, result |-> result, told |-> told])
  IN  IF Ends(tool, Len(answers), result) \/ Len(todo) = 1
      THEN pc' = "reply" /\ todo' = <<>> /\ got' = answers
      ELSE pc' = "call" /\ todo' = Tail(todo) /\ got' = answers

OwnCall ==
  UNCHANGED <<readOnly, tool, pinned, dflt, heard, cur, readVars, replies, disturbed, moves>>

\* The daemon answers with an error, or not at all.
CallFails ==
  /\ pc = "call"
  /\ UNCHANGED sessionVars
  /\ Answer(NoId, "error", 0)
  /\ OwnCall

\* A command that changes neither the table nor the program.
CallPlain ==
  /\ pc = "call" /\ Head(todo) \notin Waiting \cup Opening \cup {"restart", "stop", "state"}
  /\ UNCHANGED sessionVars
  /\ \/ Head(todo) \in Global /\ Answer(NoId, "ok", 0)
     \/ /\ Head(todo) \notin Global /\ Target \in live
        /\ \/ /\ Head(todo) = "break"
              /\ \E result \in {"verified", "unverified"} : Answer(Target, result, 0)
           \/ Head(todo) # "break" /\ Answer(Target, "ok", Stands(Target))
  /\ OwnCall

Settled == {"paused", "over"}

\* The pause recorded is where the program still is.
Current(x) == st[x] = "paused" /\ prog[x] # "runs" /\ seen[x] = stop[x]

\* state answers what is recorded; pause and listen do when there is nothing to
\* wait for, by the same record.
CallState ==
  /\ pc = "call" /\ Target \in live
  /\ \/ Head(todo) = "state"
     \/ Head(todo) \in {"pause", "listen"} /\ st[Target] \in Settled
  /\ UNCHANGED sessionVars
  /\ Answer(Target, st[Target], IF Current(Target) THEN seen[Target] ELSE 0)
  /\ OwnCall

\* The program of x begins, or is gone.
Enters(x) ==
  /\ prog' = [prog EXCEPT ![x] = "runs"] /\ st' = [st EXCEPT ![x] = "initializing"]
  /\ stop' = [stop EXCEPT ![x] = 0] /\ seen' = [seen EXCEPT ![x] = 0]

\* Manager.Remove; the state of a session that is gone does not matter.
Discard(x) ==
  /\ Drop(x)
  /\ prog' = [prog EXCEPT ![x] = "ended"] /\ st' = [st EXCEPT ![x] = "over"]
  /\ stop' = [stop EXCEPT ![x] = 0] /\ seen' = [seen EXCEPT ![x] = 0]

\* A new session is the default and may still be initializing when the answer
\* comes.
CallStart ==
  /\ pc = "call" /\ Head(todo) \in Opening
  /\ \E x \in Ids \ live : Add(x) /\ Enters(x) /\ Answer(x, "ok", 0)
  /\ OwnCall

CallStop ==
  /\ pc = "call" /\ Head(todo) = "stop"
  /\ Discard(Target)
  /\ Answer(Target, "ok", 0)
  /\ OwnCall

\* The adapter lets the program go on; what the daemon has recorded stays.
Resumes(x) ==
  /\ prog' = [prog EXCEPT ![x] = IF @ = "halted" THEN "runs" ELSE @]
  /\ UNCHANGED <<live, default, stop, st, seen>>

\* restart answers "running" without recording it.
CallRestart ==
  /\ pc = "call" /\ Head(todo) = "restart" /\ Target \in live
  /\ Resumes(Target)
  /\ Answer(Target, "running", 0)
  /\ OwnCall

\* continue, the steps and until install a waiter, resume the program and wait;
\* pause and listen wait for a stop.  The daemon holds on to the session that it
\* found.
CallAndWait ==
  /\ pc = "call" /\ Target \in live
  /\ \/ /\ Head(todo) \in Resuming
        /\ Resumes(Target)
        /\ disturbed' = (disturbed \/ seen[Target] # stop[Target])
     \/ /\ Head(todo) \in {"pause", "listen"} /\ st[Target] \notin Settled
        /\ UNCHANGED <<sessionVars, disturbed>>
  /\ dflt' = Target /\ heard' = 0
  /\ pc' = "await"
  /\ UNCHANGED <<readOnly, tool, pinned, todo, got, cur, readVars, replies, moves>>

\* A faulty variant: there is no timeout.
AwaitedForEver ==
  /\ pc = "await"
  /\ UNCHANGED sessionVars
  /\ \/ heard # 0 /\ Answer(dflt, "paused", heard)
     \/ prog[dflt] = "ended" /\ Answer(dflt, "over", 0)
  /\ OwnCall

\* The wait ends with the stop that the waiter was told of, with the program's end,
\* with the timer, which is taken for running, or with an error, which is also what
\* pause makes of anything but a stop.
Awaited ==
  /\ pc = "await"
  /\ UNCHANGED sessionVars
  /\ \/ heard # 0 /\ Answer(dflt, "paused", heard)
     \/ prog[dflt] = "ended" /\ Head(todo) # "pause" /\ Answer(dflt, "over", 0)
     \/ Head(todo) # "pause" /\ Answer(dflt, "running", 0)
     \/ Answer(dflt, "error", 0)
  /\ OwnCall

\* A faulty variant: nothing is written for a handler that failed.
ReplySilent ==
  /\ pc = "reply"
  /\ IF got[Len(got)].result = "error"
     THEN Done /\ UNCHANGED replies
     ELSE Write(cur)
  /\ disturbed' = FALSE
  /\ UNCHANGED <<sessionVars, readOnly, readVars, moves>>

Reply ==
  /\ pc = "reply"
  /\ Write(cur)
  /\ disturbed' = FALSE
  /\ UNCHANGED <<sessionVars, readOnly, readVars, moves>>

-----------------------------------------------------------------------------
(* Other clients of the daemon, the debugged programs, and their events.   *)

OtherClient ==
  /\ moves < MaxMoves /\ moves' = moves + 1
  /\ disturbed' = (pc # "read")
  /\ \E x \in Ids :
       \/ x \notin live /\ Add(x) /\ Enters(x)
       \/ Discard(x)
       \/ Choose(x) /\ UNCHANGED <<prog, stop, st, seen>>
       \/ x \in live /\ prog[x] = "halted" /\ Resumes(x)
  /\ UNCHANGED <<readOnly, serverVars, readVars, replies>>

\* A program comes to a stop, or it ends; the number of its stops does not matter
\* then, unless one is still to be recorded.
Program ==
  /\ \E x \in live :
       \/ /\ prog[x] = "runs" /\ stop[x] < MaxStops[x]
          /\ prog' = [prog EXCEPT ![x] = "halted"] /\ stop' = [stop EXCEPT ![x] = @ + 1]
          /\ UNCHANGED <<seen, moves>>
       \/ /\ prog[x] # "ended" /\ moves < MaxMoves /\ moves' = moves + 1
          /\ prog' = [prog EXCEPT ![x] = "ended"]
          /\ IF seen[x] = stop[x]
             THEN stop' = [stop EXCEPT ![x] = 0] /\ seen' = [seen EXCEPT ![x] = 0]
             ELSE UNCHANGED <<stop, seen>>
  /\ UNCHANGED <<live, default, st, readOnly, serverVars, readVars, replies, disturbed>>

\* handleEvent: stops are recorded in their order, and told to the waiter; that
\* the program went on, if the adapter says so; its end, which the watcher of the
\* adapter may record before a stop that is still to be handled.
HandleEvent(x) ==
  \/ /\ seen[x] < stop[x]
     /\ st' = [st EXCEPT ![x] = "paused"] /\ seen' = [seen EXCEPT ![x] = @ + 1]
     /\ heard' = IF pc = "await" /\ dflt = x /\ heard = 0 THEN seen[x] + 1 ELSE heard
  \/ /\ \/ st[x] = "paused" /\ (seen[x] < stop[x] \/ prog[x] = "runs")
        \/ st[x] = "initializing"
     /\ st' = [st EXCEPT ![x] = "running"] /\ UNCHANGED <<seen, heard>>
  \/ /\ prog[x] = "ended" /\ st[x] # "over"
     /\ st' = [st EXCEPT ![x] = "over"] /\ UNCHANGED <<seen, heard>>

Events ==
  /\ \E x \in live : HandleEvent(x)
  /\ UNCHANGED <<live, default, prog, stop, readOnly, pc, tool, pinned, dflt, todo, got, cur,
                 readVars, replies, disturbed, moves>>

-----------------------------------------------------------------------------
Receive ==
  \/ \E id \in 0..MaxRequests :
       \/ HandleInitialize(id) \/ HandleInitialized(id) \/ HandleList(id) \/ HandlePromptGet(id)
       \/ HandleToolCall(id) \/ HandleResourceRead(id) \/ HandleExit(id)
  \/ HandleNotification
  \/ RunReturns

Serve ==
  \/ DefaultID \/ List
  \/ CallFails \/ CallPlain \/ CallState \/ CallStart \/ CallStop \/ CallRestart
  \/ CallAndWait \/ Awaited
  \/ Reply

Next == Receive \/ Serve \/ OtherClient \/ Program \/ Events

Spec == Init /\ [][Next]_vars

\* The server's own code goes on, and the daemon answers every call: its waits
\* have a timeout.  Nothing is assumed of the programs and the other clients.
FairSpec == Spec /\ WF_vars(Serve)

-----------------------------------------------------------------------------
(* Properties.                                                             *)

\* The answer to a call: the command, the session it reached and the stop it is
\* about, 0 for none or, for state, one that the program has left.
Entry == [cmd : Commands, on : Ids \cup {NoId}, result : Results, told : Nat]

\* Every variable has its type.
TypeOK ==
  /\ live \subseteq Ids /\ IsFiniteSet(live) /\ default \in Ids \cup {NoId}
  /\ prog \in [Ids -> {"runs", "halted", "ended"}] /\ stop \in [Ids -> Nat]
  /\ st \in [Ids -> States] /\ seen \in [Ids -> Nat]
  /\ readOnly \in BOOLEAN /\ disturbed \in BOOLEAN
  /\ pc \in {"read", "sessions", "list", "call", "await", "reply", "gone"}
  /\ tool \in {t.name : t \in ToolRegistry} \cup {"none", "resource"}
  /\ pinned \in Ids \cup {NoId} /\ dflt \in Ids \cup {NoId}
  /\ todo \in Seq(Commands) /\ got \in Seq(Entry) /\ heard \in Nat
  /\ cur \in 0..MaxRequests /\ moves \in 0..MaxMoves
  /\ asked \in 0..MaxRequests /\ mute \subseteq 1..MaxRequests /\ replies \in Seq(Nat)

\* On every path through handle and the tools' handlers each message with an id
\* gets exactly one reply, in the order of the messages: none is lost behind a
\* daemon error and none is written twice.  Only initialized and exit get none,
\* even when they come with an id, which JSON-RPC wants answered.
RepliesInOrder ==
  /\ \A i, j \in DOMAIN replies : i < j => replies[i] < replies[j]
  /\ \A i \in DOMAIN replies : replies[i] \in 1..asked
  /\ \A id \in 1..asked :
       (\E i \in DOMAIN replies : replies[i] = id) <=> id # cur /\ id \notin mute
  /\ cur = 0 <=> pc \in {"read", "gone"}

\* --read-only: whatever tool is called, composites included, the daemon commands
\* that go out only read, with one exception: explain_pause lists the watches, and
\* the daemon evaluates those in a paused program.  So "can observe but never
\* perturb the target" (mcp/server.go:330) is not quite what the option gives.
ReadsOrLists ==
  readOnly =>
    \A c \in {got[i].cmd : i \in DOMAIN got} \cup {todo[i] : i \in DOMAIN todo} :
      c \in Observing \/ (c = "watch list" /\ tool = "explain_pause")

\* The answer on which the rest of a composite rests.
Basis == IF tool = "inspect_at" THEN 2 ELSE 1

\* What inspect_at and explain_pause read call by call is of one stop, unless
\* another client interferes.  inspect_at reads after a pause its own continue
\* reported, in that session, and at that stop, except if a stop was on its way to
\* the daemon when the continue went out: that one answers it, and the program
\* has already left it.  explain_pause reads at the stop that state told of if the
\* program stood there; after a resume that was not reported it may not.
OneStopShown ==
  ~disturbed =>
    \A i \in DOMAIN got :
      /\ i > Basis
      /\ tool \in {"inspect_at", "explain_pause"}
      /\ got[i].result = "ok"
      /\ tool = "explain_pause" => got[1].result = "paused" /\ got[1].told # 0
      => /\ got[Basis].result = "paused"
         /\ got[i].on = got[Basis].on
         /\ got[i].told \in {0, got[Basis].told}

\* Once resolveSession has named a session, every call of the request that
\* reaches one reaches that one, whatever becomes of the default meanwhile.
StaysWithSession ==
  pinned # NoId =>
    \A i \in DOMAIN got : got[i].on \in {NoId, pinned} \/ got[i].cmd \in Opening

\* handleExplainPause has a one-line answer for these three states only.
SaysPaused ==
  /\ pc = "reply" /\ tool = "explain_pause"
  /\ got[1].result \notin {"over", "running"}

\* explain_pause "returns the matching one-liner instead of fabricating a pause"
\* (AGENT-GUIDE.md): its summary says Paused only of a session that was.
NoPhantomPause == SaysPaused => got[1].result = "paused"

\* Every request is answered: the server handles one at a time, so one that
\* waits for a stop holds up those behind it, but never for ever.  (That the
\* server is done with a request means that its reply is out: RepliesInOrder.)
Answered == cur # 0 ~> cur = 0

=============================================================================
