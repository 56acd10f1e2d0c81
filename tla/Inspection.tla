----------------------------- MODULE Inspection -----------------------------
(***************************************************************************)
(* The commands that look into a stopped program: stack, threads, locals,  *)
(* globals, fields, eval, set, print, snapshot, watch and source.  Each is *)
(* a chain of requests to the adapter, in which a request uses the frame   *)
(* id or the variables reference that an earlier one returned, while other *)
(* handlers inspect, resume the program, change the default session or     *)
(* stop a session.  runInspect puts most chains under the session's        *)
(* inspectMu; watch, source and the execution commands run without it.     *)
(*                                                                         *)
(* A request and its answer are one step: DapClient has the exchange.  A   *)
(* frame id is the number of the stop it was issued at, a reference the    *)
(* epoch it was issued in; Reuse says that the adapter hands out the same  *)
(* numbers again after a resume.  The adapters and programs are external.  *)
(***************************************************************************)
EXTENDS Naturals, Sequences, FiniteSets

CONSTANTS
  Handlers,     \* connections with a request
  Executors,    \* those that may resume a program
  Sessions,
  Java,         \* sessions with a Java program
  ReadOnly,     \* sessions started with --read-only
  AllowEval,    \* SL_DBG_ALLOW_EVAL
  Kinds,        \* the commands issued
  Wants,        \* the sessions they name; NoSess is the default
  Reuse,        \* do adapters use frame ids and references again?
  Invalidates,  \* requests that make an adapter drop its references
  LineArgs, Arounds, FileLengths,   \* of source
  MaxStops,     \* bound: stops of a program
  MaxCmds,      \* bound: commands
  NoSess, NoHandler

Commands == {"stack", "threads", "locals", "globals", "fields", "set", "eval", "print",
              "printref", "snapshot", "watch", "source", "exec"}

ASSUME InspectionAssumption ==
  /\ IsFiniteSet(Handlers) /\ Kinds \subseteq Commands
  /\ Executors \subseteq Handlers /\ Java \subseteq Sessions /\ ReadOnly \subseteq Sessions
  /\ NoSess \notin Sessions /\ Wants \subseteq Sessions \cup {NoSess}
  /\ NoHandler \notin Handlers
  /\ AllowEval \in BOOLEAN /\ Reuse \in BOOLEAN
  /\ LineArgs \cup Arounds \cup FileLengths \subseteq Nat
  /\ MaxStops \in Nat \ {0} /\ MaxCmds \in Nat

VARIABLES
  live, defID,                \* Manager: the table and its default
  stop, running, gen, evq,    \* adapters: last stop, running?, epoch, events on their way
  paused, loc,                \* Session: state is paused?, lastLocation
  lock,                       \* Session.inspectMu
  job,                        \* handlers
  kept,                       \* the last reference each client was given
  cmds

mgrVars  == <<live, defID>>
dapVars  == <<stop, running, gen, evq>>
sessVars == <<paused, loc>>
vars == <<mgrVars, dapVars, sessVars, lock, job, kept, cmds>>

None == 0

-----------------------------------------------------------------------------
(* The chains.                                                             *)

\* stackTrace, for the frames, for a frame id, a class name or a location.
Traces == {"trace", "frame", "class", "top", "locate"}
\* evaluate, at first, with the name qualified, of a class, of a watch.
Evals == {"evaluate", "retry", "statics", "watch"}
\* variables and setVariable; "extra" ones may fail.
Reads == {"vars", "extra", "setvar"}

\* A faulty variant: the snapshot looks up the top frame for every scope.
HandleSnapshotRetracing == <<"trace", "scopes", "extra", "trace", "scopes", "extra">>

\* The requests of each command, in order.
HandleStack == <<"trace">>
HandleThreads == <<"threads">>
HandleLocals == <<"frame", "scopes", "vars">>
HandleGlobals(s) ==
  IF s \in Java THEN <<"frame", "scopes", "class", "statics", "extra">>
  ELSE <<"frame", "scopes", "vars">>
HandleFields == <<"vars">>
HandleSet == <<"frame", "scopes", "setvar">>
HandleEval == <<"frame", "evaluate">>
HandleSnapshot == <<"trace", "scopes", "extra", "extra">>
HandleExec == <<"resume", "wait", "locate", "record">>

\* print expands two levels: of an expression, or of a reference.
HandlePrint(expr) ==
  IF expr THEN <<"frame", "evaluate", "vars", "extra">> ELSE <<"vars", "extra">>

\* Two watches.
EvaluateWatches == <<"frame", "watch", "watch">>

\* The command's chain; that of source is in SourcePlan.
Plan(k, s) ==
  CASE k = "stack"    -> HandleStack
    [] k = "threads"  -> HandleThreads
    [] k = "locals"   -> HandleLocals
    [] k = "globals"  -> HandleGlobals(s)
    [] k = "fields"   -> HandleFields
    [] k = "set"      -> HandleSet
    [] k = "eval"     -> HandleEval
    [] k = "print"    -> HandlePrint(TRUE)
    [] k = "printref" -> HandlePrint(FALSE)
    [] k = "snapshot" -> HandleSnapshot
    [] k = "watch"    -> EvaluateWatches
    [] k = "exec"     -> HandleExec

\* runInspect serves them.
Locked(k) == k \notin {"watch", "source", "exec"}

NoWindow == [start |-> 0, end |-> 0, center |-> 0, around |-> 0, n |-> 0]

Idle == [pc |-> "idle", kind |-> "none", want |-> NoSess, via |-> NoSess, sess |-> NoSess,
         plan |-> <<>>, frame |-> None, ref |-> None, data |-> {}, win |-> NoWindow]

Init ==
  /\ live = Sessions /\ defID \in Sessions
  /\ stop = [s \in Sessions |-> 1] /\ running = [s \in Sessions |-> FALSE]
  /\ gen = [s \in Sessions |-> 1] /\ evq = [s \in Sessions |-> <<>>]
  /\ paused = [s \in Sessions |-> TRUE] /\ loc = [s \in Sessions |-> 1]
  /\ lock = [s \in Sessions |-> NoHandler]
  /\ job = [h \in Handlers |-> Idle]
  /\ kept = [h \in Handlers |-> [sess |-> NoSess, stop |-> None, ref |-> None]]
  /\ cmds = 0

-----------------------------------------------------------------------------
(* Programs, events and the table of sessions.                             *)

TargetStops(s) ==
  /\ running[s] /\ stop[s] < MaxStops
  /\ stop' = [stop EXCEPT ![s] = @ + 1]
  /\ running' = [running EXCEPT ![s] = FALSE]
  /\ evq' = [evq EXCEPT ![s] = Append(@, "stopped")]
  /\ UNCHANGED <<mgrVars, gen, sessVars, lock, job, kept, cmds>>

\* A faulty variant: the location of the previous stop stays.
HandleStoppedKeeping(s) ==
  /\ evq[s] # <<>> /\ Head(evq[s]) = "stopped"
  /\ evq' = [evq EXCEPT ![s] = Tail(@)]
  /\ paused' = [paused EXCEPT ![s] = TRUE]
  /\ UNCHANGED <<mgrVars, stop, running, gen, loc, lock, job, kept, cmds>>

\* handleEvent: the location is looked up later.
HandleStopped(s) ==
  /\ evq[s] # <<>> /\ Head(evq[s]) = "stopped"
  /\ evq' = [evq EXCEPT ![s] = Tail(@)]
  /\ paused' = [paused EXCEPT ![s] = TRUE]
  /\ loc' = [loc EXCEPT ![s] = None]
  /\ UNCHANGED <<mgrVars, stop, running, gen, lock, job, kept, cmds>>

HandleContinued(s) ==
  /\ evq[s] # <<>> /\ Head(evq[s]) = "continued"
  /\ evq' = [evq EXCEPT ![s] = Tail(@)]
  /\ paused' = [paused EXCEPT ![s] = FALSE]
  /\ UNCHANGED <<mgrVars, stop, running, gen, loc, lock, job, kept, cmds>>

\* SetDefault
Use(s) ==
  /\ s \in live /\ s # defID /\ cmds < MaxCmds
  /\ cmds' = cmds + 1 /\ defID' = s
  /\ UNCHANGED <<live, dapVars, sessVars, lock, job, kept>>

\* Remove, which promotes another session, and Close.
StopSession(s) ==
  /\ s \in live /\ cmds < MaxCmds
  /\ cmds' = cmds + 1
  /\ live' = live \ {s}
  /\ defID' \in IF defID # s THEN {defID} ELSE IF live = {s} THEN {NoSess} ELSE live \ {s}
  /\ UNCHANGED <<dapVars, sessVars, lock, job, kept>>

-----------------------------------------------------------------------------
(* A command, up to its first request.                                     *)

Set(h, j) == job' = [job EXCEPT ![h] = j]

\* Manager.Get
Get(want) ==
  LET s == IF want = NoSess THEN defID ELSE want IN IF s \in live THEN s ELSE NoSess

\* The response, after the deferred Unlock of Inspect.
Reply(h) ==
  /\ Set(h, Idle)
  /\ IF job[h].via = NoSess THEN UNCHANGED lock
     ELSE lock' = [lock EXCEPT ![job[h].via] = NoHandler]

Issues(h, k) == k \in Kinds /\ (k = "exec" => h \in Executors)

\* runInspect looks the session up for its lock; without a session it takes none.
Begin(h, k, want) ==
  /\ job[h].pc = "idle" /\ cmds < MaxCmds /\ Issues(h, k)
  /\ k \in {"fields", "printref"} => kept[h].ref # None
  /\ cmds' = cmds + 1
  /\ LET via == IF Locked(k) THEN Get(want) ELSE NoSess
     IN  Set(h, [Idle EXCEPT !.kind = k, !.want = want, !.via = via,
                             !.pc = IF via = NoSess THEN "get" ELSE "lock"])
  /\ UNCHANGED <<mgrVars, dapVars, sessVars, lock, kept>>

\* A faulty variant: nobody waits.
InspectUnlocked(h) ==
  /\ job[h].pc = "lock"
  /\ lock' = [lock EXCEPT ![job[h].via] = h]
  /\ Set(h, [job[h] EXCEPT !.pc = "get"])
  /\ UNCHANGED <<mgrVars, dapVars, sessVars, kept, cmds>>

\* Inspect
Inspect(h) ==
  /\ job[h].pc = "lock" /\ lock[job[h].via] = NoHandler
  /\ lock' = [lock EXCEPT ![job[h].via] = h]
  /\ Set(h, [job[h] EXCEPT !.pc = "get"])
  /\ UNCHANGED <<mgrVars, dapVars, sessVars, kept, cmds>>

\* refuseIfReadOnly and EvalEnabled; print evaluates without asking them.
Refused(k, s) == k \in {"eval", "set"} /\ (s \in ReadOnly \/ ~AllowEval)

\* snapshot and watch answer at once when the session does not look paused.
NothingToSee(k, s) == k \in {"snapshot", "watch"} /\ ~paused[s]

\* source takes the recorded location, or asks for the top frame; with a file
\* argument it needs neither.
SourcePlan(s) ==
  IF loc[s] # None THEN {<<"read">>}
  ELSE IF paused[s] THEN {<<"read">>, <<"top", "read">>} ELSE {<<"read">>, <<>>}

\* The handler looks the session up again.
Lookup(h) ==
  LET k == job[h].kind  s == Get(job[h].want)
  IN  /\ job[h].pc = "get"
      /\ IF s = NoSess \/ Refused(k, s) \/ NothingToSee(k, s) THEN Reply(h)
         ELSE /\ \E p \in IF k = "source" THEN SourcePlan(s) ELSE {Plan(k, s)} :
                   Set(h, [job[h] EXCEPT
                             !.pc = "run", !.want = NoSess, !.sess = s, !.plan = p,
                             !.frame = IF k = "source" THEN loc[s] ELSE None,
                             !.ref = IF k \in {"fields", "printref"} THEN kept[h].ref ELSE None,
                             !.data = IF k \in {"fields", "printref"}
                                      THEN {<<kept[h].sess, kept[h].stop>>} ELSE {}])
              /\ UNCHANGED lock
      /\ UNCHANGED <<mgrVars, dapVars, sessVars, kept, cmds>>

-----------------------------------------------------------------------------
(* One request of a chain.                                                 *)

At(h, steps) == job[h].pc = "run" /\ job[h].plan # <<>> /\ Head(job[h].plan) \in steps

\* The adapter can serve the request.
Stopped(s) == s \in live /\ ~running[s]
FrameValid(h) == Stopped(job[h].sess) /\ (Reuse \/ job[h].frame = stop[job[h].sess])
RefValid(h) == Stopped(job[h].sess) /\ (Reuse \/ job[h].ref = gen[job[h].sess])

Seen(h) == job[h].data \cup {<<job[h].sess, stop[job[h].sess]>>}

\* The next request of j, the job with what was learnt.
Advance(h, j) == Set(h, [j EXCEPT !.plan = Tail(@)])

\* The adapter drops its references with some requests.
NextGen(s, request) == IF request \in Invalidates THEN gen[s] + 1 ELSE gen[s]

\* stackTrace: resolveFrameID, javaClassFromFrame, currentTopFrame, fetchTopLocation.
Trace(h) ==
  /\ At(h, Traces) /\ Stopped(job[h].sess)
  /\ LET s == job[h].sess  step == Head(job[h].plan)
     IN  /\ gen' = [gen EXCEPT ![s] = NextGen(s, "trace")]
         /\ Advance(h, [job[h] EXCEPT !.frame = IF step = "class" THEN @ ELSE stop[s],
                                       !.data = IF step = "frame" THEN @ ELSE Seen(h)])
  /\ UNCHANGED <<mgrVars, stop, running, evq, sessVars, lock, kept, cmds>>

Scopes(h) ==
  /\ At(h, {"scopes"}) /\ FrameValid(h)
  /\ Advance(h, [job[h] EXCEPT !.ref = gen[job[h].sess]])
  /\ UNCHANGED <<mgrVars, dapVars, sessVars, lock, kept, cmds>>

Evaluate(h) ==
  /\ At(h, Evals) /\ FrameValid(h)
  /\ LET s == job[h].sess
     IN  /\ gen' = [gen EXCEPT ![s] = NextGen(s, "evaluate")]
         /\ Advance(h, [job[h] EXCEPT !.ref = NextGen(s, "evaluate"), !.data = Seen(h)])
  /\ UNCHANGED <<mgrVars, stop, running, evq, sessVars, lock, kept, cmds>>

\* variables, for a scope, a reference or one level of expandRefFiltered, and
\* setVariable.
Variables(h) ==
  /\ At(h, Reads) /\ RefValid(h)
  /\ Advance(h, [job[h] EXCEPT !.data = Seen(h)])
  /\ UNCHANGED <<mgrVars, dapVars, sessVars, lock, kept, cmds>>

Threads(h) ==
  /\ At(h, {"threads"}) /\ job[h].sess \in live
  /\ Advance(h, [job[h] EXCEPT !.data = Seen(h)])
  /\ UNCHANGED <<mgrVars, dapVars, sessVars, lock, kept, cmds>>

\* A request whose failure is left out of the answer: a scope of snapshot, a level
\* below the first of print, one watch.
Skipped(step) == step \in {"extra", "watch"}

\* One that ends the chain, which is answered with what there is: snapshot, watch,
\* the statics of globals, the wait and the location of an execution command.
Tolerated(k, step) ==
  \/ k \in {"snapshot", "watch"}
  \/ step \in {"statics", "locate", "wait"}
  \/ k = "globals" /\ step = "class"

\* The request fails: its id is not valid any more, or the adapter says no.  eval
\* retries a Java name once, qualified with the class of the frame.
Fails(h) ==
  /\ At(h, Traces \cup Evals \cup Reads \cup {"scopes", "threads", "resume", "wait"})
  /\ LET k == job[h].kind  step == Head(job[h].plan)
     IN  \/ Skipped(step) /\ Advance(h, job[h]) /\ UNCHANGED lock
         \/ /\ k = "eval" /\ step = "evaluate" /\ job[h].sess \in Java
            /\ Set(h, [job[h] EXCEPT !.plan = <<"class", "retry">>]) /\ UNCHANGED lock
         \/ /\ ~Skipped(step) /\ Tolerated(k, step)
            /\ Set(h, [job[h] EXCEPT !.plan = <<>>]) /\ UNCHANGED lock
         \/ ~Skipped(step) /\ ~Tolerated(k, step) /\ Reply(h)
  /\ UNCHANGED <<mgrVars, dapVars, sessVars, kept, cmds>>

\* The chain is complete and about to be answered.
Answering(h) == job[h].pc = "run" /\ job[h].plan = <<>>

\* The client keeps the reference it was given last.
Answer(h) ==
  /\ Answering(h)
  /\ Reply(h)
  /\ kept' = [kept EXCEPT ![h] =
                IF job[h].ref = None THEN @
                ELSE [sess |-> job[h].sess, stop |-> stop[job[h].sess], ref |-> job[h].ref]]
  /\ UNCHANGED <<mgrVars, dapVars, sessVars, cmds>>

-----------------------------------------------------------------------------
(* handleExec and handleUntil, as far as inspection meets them.            *)

\* The adapter resumes; it may leave out the ContinuedEvent.
Resume(h) ==
  /\ At(h, {"resume"}) /\ Stopped(job[h].sess)
  /\ LET s == job[h].sess
     IN  /\ running' = [running EXCEPT ![s] = TRUE]
         /\ gen' = [gen EXCEPT ![s] = @ + 1]
         /\ evq' \in {evq, [evq EXCEPT ![s] = Append(@, "continued")]}
         /\ Advance(h, [job[h] EXCEPT !.frame = stop[s]])
  /\ UNCHANGED <<mgrVars, stop, sessVars, lock, kept, cmds>>

\* The stop event reaches the waiter that was armed before the resume.
Wait(h) ==
  /\ At(h, {"wait"})
  /\ LET s == job[h].sess IN stop[s] > job[h].frame /\ evq[s] = <<>>
  /\ Advance(h, job[h])
  /\ UNCHANGED <<mgrVars, dapVars, sessVars, lock, kept, cmds>>

\* SetLastLocation
SetLastLocation(h) ==
  /\ At(h, {"record"})
  /\ loc' = [loc EXCEPT ![job[h].sess] = job[h].frame]
  /\ Advance(h, job[h])
  /\ UNCHANGED <<mgrVars, dapVars, paused, lock, kept, cmds>>

-----------------------------------------------------------------------------
(* source                                                                  *)

\* windowOf: the lines [start, end) around a center, both counted from the first.
WindowOf(center, around, n) ==
  LET whole == around = 0 \/ center = 0
  IN  [start |-> IF whole \/ center < around + 1 THEN 0 ELSE center - around - 1,
       end |-> IF whole \/ center + around > n THEN n ELSE center + around,
       center |-> center, around |-> around, n |-> n]

\* The file is read, from the disk or from the adapter, unless the policy denies it.
ReadSource(h) ==
  /\ At(h, {"read"})
  /\ \/ /\ \E center \in LineArgs, around \in Arounds, n \in FileLengths :
             Advance(h, [job[h] EXCEPT
                           !.win = WindowOf(center, around, n),
                           !.data = IF job[h].frame = None THEN {}
                                    ELSE {<<job[h].sess, job[h].frame>>}])
        /\ UNCHANGED lock
     \/ Reply(h)
  /\ UNCHANGED <<mgrVars, dapVars, sessVars, kept, cmds>>

-----------------------------------------------------------------------------
HandlerStep(h) ==
  \/ Inspect(h) \/ Lookup(h) \/ Trace(h) \/ Scopes(h) \/ Evaluate(h) \/ Variables(h)
  \/ Threads(h) \/ Fails(h) \/ Answer(h) \/ Resume(h) \/ Wait(h) \/ SetLastLocation(h)
  \/ ReadSource(h)

Pump(s) == HandleStopped(s) \/ HandleContinued(s)

Next ==
  \/ \E h \in Handlers, k \in Kinds, want \in Wants : Begin(h, k, want)
  \/ \E h \in Handlers : HandlerStep(h)
  \/ \E s \in Sessions : TargetStops(s) \/ Pump(s) \/ Use(s) \/ StopSession(s)

Spec == Init /\ [][Next]_vars

-----------------------------------------------------------------------------
(* Properties.                                                             *)

Steps == Traces \cup Evals \cup Reads
         \cup {"scopes", "threads", "resume", "wait", "record", "read"}

Jobs ==
  [pc : {"idle", "lock", "get", "run"}, kind : Kinds \cup {"none"},
   want : Sessions \cup {NoSess}, via : Sessions \cup {NoSess}, sess : Sessions \cup {NoSess},
   plan : Seq(Steps), frame : 0..MaxStops, ref : Nat, data : SUBSET (Sessions \X (0..MaxStops)),
   win : [start : Nat, end : Nat, center : Nat, around : Nat, n : Nat]]

\* Every variable has its type, and the default is a session of the table.
TypeOK ==
  /\ live \subseteq Sessions /\ defID \in live \cup {NoSess}
  /\ stop \in [Sessions -> 1..MaxStops] /\ running \in [Sessions -> BOOLEAN]
  /\ gen \in [Sessions -> Nat \ {0}] /\ evq \in [Sessions -> Seq({"stopped", "continued"})]
  /\ paused \in [Sessions -> BOOLEAN] /\ loc \in [Sessions -> 0..MaxStops]
  /\ lock \in [Sessions -> Handlers \cup {NoHandler}]
  /\ job \in [Handlers -> Jobs]
  /\ kept \in [Handlers -> [sess : Sessions \cup {NoSess}, stop : 0..MaxStops, ref : Nat]]
  /\ cmds \in 0..MaxCmds

\* An answer shows one stop of one session: with an adapter that never uses an
\* id twice, no answer combines frames, variables, classes or results of two
\* stops, although programs are resumed, sessions removed and defaults changed
\* between the requests of a chain, and although snapshot, watch, globals and
\* print go on after a request has failed.  A reference that the client brings
\* must come from this session: two adapters hand out the same numbers.
OneStop ==
  ~Reuse => \A h \in Handlers :
    Answering(h) /\ (\A d \in job[h].data : d[1] = job[h].sess)
      => Cardinality(job[h].data) <= 1

\* A chain of runInspect on the session whose lock it took.
OwnLock(h) == job[h].pc = "run" /\ job[h].via # NoSess /\ job[h].via = job[h].sess

\* "concurrent inspection chains serialize and don't race the variablesReference
\* lifecycle" (server.go, runInspect): the references of a chain that has its
\* session's lock are made invalid only by itself or by a handler without that
\* lock (watch, source, an execution command, a chain under another session's lock).
Undisturbed ==
  [][\A h \in Handlers :
       LET s == job[h].sess
       IN  OwnLock(h) /\ OwnLock(h)' /\ job'[h].ref = job[h].ref
           /\ job[h].ref = gen[s] /\ job[h].ref # gen'[s]
           => \E g \in Handlers : job'[g] # job[g] /\ (g = h \/ ~OwnLock(g))]_vars

\* What source and state show as the current location is that of the last stop the
\* session has heard of, when one client at a time executes: HandleStopped forgets
\* the old one before SetLastLocation can record the new.
LocationCurrent ==
  Cardinality(Executors) <= 1 =>
    \A s \in Sessions : evq[s] = <<>> /\ loc[s] # None => loc[s] = stop[s]

\* The window of source lines is a legal slice lines[start:end] of the file, and
\* for a line of the file it has exactly the lines that are at most `around` away.
SourceWindow ==
  \A h \in Handlers :
    LET w == job[h].win
    IN  /\ w.start <= w.end /\ w.end <= w.n
        /\ w.around > 0 /\ w.center \in 1..w.n =>
             \A l \in 1..w.n : (w.start < l /\ l <= w.end)
                               <=> (l + w.around >= w.center /\ l <= w.center + w.around)

\* runInspect "dispatches an inspection-class handler under the session's
\* per-session inspectMu" (server.go).
UnderOwnLock ==
  \A h \in Handlers : job[h].pc = "run" /\ Locked(job[h].kind) => OwnLock(h)

=============================================================================
