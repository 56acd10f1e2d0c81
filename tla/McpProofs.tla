----------------------------- MODULE McpProofs -----------------------------
(***************************************************************************)
(* Proofs about Mcp, for any set of sessions, any number of requests,      *)
(* moves of other clients and expressions.                                 *)
(*                                                                         *)
(* The inductive invariant says, request by request, where the server is:  *)
(*                                                                         *)
(*   - a request has its calls before it and its answers behind it         *)
(*     (StageInv), and the calls of a composite come in their order        *)
(*     (ShapeInv);                                                         *)
(*   - a waiting call waits on the session it was meant for (AwaitInv);    *)
(*   - what a waiter is told after a resumption is the stop where the      *)
(*     program then stands, unless a stop was on its way before (WaitInv); *)
(*   - from the answer on which a composite rests until its last call, the *)
(*     program stays where that answer found it, or ends (HoldInv).  It    *)
(*     cannot leave a stop by itself and the server does not resume it     *)
(*     before that call; only another client could;                        *)
(*   - the request in progress is the last that was read (CountInv).       *)
(***************************************************************************)
EXTENDS Mcp, FiniteSetTheorems, TLAPS

StageInv ==
  /\ pc \in {"sessions", "list", "call", "await"} => todo # <<>>
  /\ pc \in {"read", "sessions", "list", "gone"} => got = <<>>
  /\ pc \in {"read", "gone"} => tool = "none" /\ todo = <<>>
  /\ pc = "await" => Head(todo) \in Waiting

\* The place of the i-th call to come among the calls of the request.
Place(i) == Len(got) + i

Reads == {"locals", "eval", "stack", "watch list"}

ShapeInv ==
  \A i \in DOMAIN todo :
    /\ tool = "inspect_at" =>
         /\ Place(i) = 1 => todo[i] = "break"
         /\ Place(i) = 2 => todo[i] = "continue"
         /\ Place(i) > 2 => todo[i] \in Reads \/ (todo[i] = "continue" /\ i = Len(todo))
    /\ tool = "explain_pause" =>
         IF Place(i) = 1 THEN todo[i] = "state" ELSE todo[i] \in Reads

AwaitInv ==
  pc = "await" =>
    /\ dflt \in Ids
    /\ pinned # NoId => dflt = pinned
    /\ tool = "inspect_at" /\ ~disturbed => dflt = Target

\* The program of x stands at stop n, or has ended.
Held(x, n) == prog[x] # "runs" /\ (prog[x] = "halted" => stop[x] = n)

\* A program that was resumed when all its stops were recorded has come to one
\* more at most.
Ahead(x) ==
  /\ prog[x] = "runs" => seen[x] = stop[x]
  /\ seen[x] <= stop[x] /\ stop[x] <= seen[x] + 1

WaitInv ==
  pc = "await" /\ Head(todo) \in Resuming /\ ~disturbed =>
    IF heard = 0 THEN Ahead(dflt) ELSE Held(dflt, heard)

\* The stop that the composite has found is where the program still stands.
Holds ==
  LET e == got[Basis]
  IN  e.on \in Ids /\ e.on = Target /\ Held(e.on, e.told)

HoldInv ==
  /\ tool \in {"inspect_at", "explain_pause"} /\ ~disturbed /\ pc = "call"
  /\ Len(got) >= Basis
  /\ tool = "explain_pause" => got[Basis].result = "paused" /\ got[Basis].told # 0
  => got[Basis].result = "paused" /\ Holds

CountInv == cur \in {0, asked} /\ mute \subseteq 1..asked /\ cur \notin mute

Inv ==
  /\ StageInv /\ ShapeInv /\ AwaitInv /\ WaitInv /\ HoldInv /\ CountInv
  /\ RepliesInOrder /\ ReadsOrLists /\ StaysWithSession /\ OneStopShown

-----------------------------------------------------------------------------
(* The tools and their calls.                                              *)

Composite == {"run_until_break", "inspect_at", "explain_pause", "snapshot_compact"}

\* A tool is a composite or a daemon command, and one that is not marked as
\* mutating is an observing command or a composite of such.
LEMMA Tools ==
  ASSUME NEW t \in ToolRegistry
  PROVE  /\ t.name \in Commands \cup Composite
         /\ ~t.mutating => t.name \in Observing \cup {"explain_pause", "snapshot_compact"}
<1>1. CASE t \in StartTools \cup BreakTools
  BY <1>1 DEF StartTools, BreakTools, Tool, Commands, Changing, Opening
<1>2. CASE t \in RunTools
  <2>1. t.mutating /\ t.name \in Resuming \cup {"pause"}
    BY <1>2 DEF RunTools, Tool, Resuming
  <2> QED
    BY <2>1 DEF Commands, Changing
<1>3. CASE t \in FrameTools
  <2>1. \/ t.name \in {"stack", "threads", "breaks"}
        \/ t.mutating /\ t.name \in {"unbreak", "set"}
    BY <1>3 DEF FrameTools, Tool
  <2> QED
    BY <2>1 DEF Commands, Changing, Observing
<1>4. CASE t \in DataTools
  <2>1. \/ t.name \in {"locals", "globals", "output", "events", "fields", "source"}
        \/ t.mutating /\ t.name \in {"eval", "watch"}
    BY <1>4 DEF DataTools, Tool
  <2> QED
    BY <2>1 DEF Commands, Changing, Observing
<1>5. CASE t \in StateTools
  <2>1. \/ t.name \in {"listen", "snapshot", "state", "sessions", "adapters"}
        \/ t.mutating /\ t.name \in {"restart", "stop", "print"}
    BY <1>5 DEF StateTools, Tool
  <2> QED
    BY <2>1 DEF Commands, Changing, Observing
<1>6. CASE t \in CompositeTools
  BY <1>6 DEF CompositeTools, Tool, Composite
<1> QED
  BY <1>1, <1>2, <1>3, <1>4, <1>5, <1>6 DEF ToolRegistry

\* Concatenation, entry by entry.
LEMMA Concatenation ==
  ASSUME NEW s \in Seq(Commands), NEW t \in Seq(Commands)
  PROVE  /\ s \o t \in Seq(Commands) /\ Len(s \o t) = Len(s) + Len(t)
         /\ \A i \in 1..(Len(s) + Len(t)) :
              (s \o t)[i] = IF i <= Len(s) THEN s[i] ELSE t[i - Len(s)]
OBVIOUS

\* inspect_at sets its breakpoint, continues, reads, and continues at most at the end.
LEMMA InspectAt ==
  ASSUME NEW n \in Nat, NEW r \in BOOLEAN
  PROVE  LET c == InspectAtCalls(n, r)
         IN  /\ c \in Seq(Commands) /\ c # <<>>
             /\ c[1] = "break" /\ c[2] = "continue"
             /\ \A i \in DOMAIN c : i > 2 => c[i] \in Reads \/ (c[i] = "continue" /\ i = Len(c))
<1> DEFINE a == <<"break", "continue", "locals">>
           b == [i \in 1..n |-> "eval"]
           d == IF r THEN <<"continue">> ELSE <<>>
           c == (a \o b) \o d
<1>0. {"break", "continue", "locals", "eval"} \subseteq Commands
  BY DEF Commands, Changing, Resuming, Observing
<1>1. a \in Seq(Commands) /\ Len(a) = 3 /\ a[1] = "break" /\ a[2] = "continue" /\ a[3] = "locals"
  BY <1>0
<1>2. b \in Seq(Commands) /\ Len(b) = n /\ \A i \in 1..n : b[i] = "eval"
  BY <1>0
<1>3. /\ d \in Seq(Commands) /\ Len(d) \in Nat /\ Len(d) <= 1
      /\ Len(d) = 1 => d[1] = "continue"
  BY <1>0
<1> HIDE DEF a, b, d
<1>4. /\ a \o b \in Seq(Commands) /\ Len(a \o b) = 3 + n
      /\ \A i \in 1..(3 + n) : (a \o b)[i] = IF i <= 3 THEN a[i] ELSE b[i - 3]
  <2>1. /\ a \o b \in Seq(Commands) /\ Len(a \o b) = Len(a) + Len(b)
        /\ \A i \in 1..(Len(a) + Len(b)) :
             (a \o b)[i] = IF i <= Len(a) THEN a[i] ELSE b[i - Len(a)]
    BY <1>1, <1>2, Concatenation
  <2> QED
    BY <1>1, <1>2, <2>1
<1>5. /\ c \in Seq(Commands) /\ Len(c) = 3 + n + Len(d)
      /\ \A i \in 1..(3 + n + Len(d)) : c[i] = IF i <= 3 + n THEN (a \o b)[i] ELSE d[i - (3 + n)]
  BY <1>3, <1>4, Concatenation
<1>6. InspectAtCalls(n, r) = c
  BY DEF InspectAtCalls, a, b, d
<1> HIDE DEF c
<1>7. \A i \in 1..(3 + n + Len(d)) :
        \/ i \in {1, 2, 3} /\ c[i] = a[i]
        \/ i \in 4..(3 + n) /\ c[i] = "eval"
        \/ i = 3 + n + 1 /\ Len(d) = 1 /\ c[i] = "continue"
  <2> TAKE i \in 1..(3 + n + Len(d))
  <2>1. CASE i <= 3
    <3>1. i \in 1..(3 + n) /\ i <= 3 + n /\ i \in {1, 2, 3}
      BY <2>1, <1>3
    <3> QED
      BY <1>4, <1>5, <2>1, <3>1
  <2>2. CASE i > 3 /\ i <= 3 + n
    <3>0. i \in 1..(3 + n) /\ i - 3 \in 1..n
      BY <1>3, <2>2
    <3>1. c[i] = b[i - 3]
      <4>1. i \in 1..(3 + n + Len(d))
        OBVIOUS
      <4>2. c[i] = (a \o b)[i]
        BY <1>5, <2>2, <4>1
      <4> QED
        BY <1>4, <2>2, <3>0, <4>2
    <3> QED
      BY <1>2, <2>2, <3>0, <3>1
  <2>3. CASE i > 3 + n
    <3>1. Len(d) = 1 /\ i = 3 + n + 1
      BY <1>3, <2>3
    <3>2. c[i] = d[i - (3 + n)]
      BY <1>5, <2>3
    <3> QED
      BY <1>3, <3>1, <3>2
  <2> QED
    BY <2>1, <2>2, <2>3
<1>8. c # <<>> /\ c[1] = "break" /\ c[2] = "continue"
  <2>1. 1 \in 1..(3 + n + Len(d)) /\ 2 \in 1..(3 + n + Len(d))
    BY <1>3
  <2>2. c[1] = a[1] /\ c[2] = a[2]
    BY <1>7, <2>1
  <2> QED
    BY <1>1, <1>3, <1>5, <2>2
<1>9. \A i \in DOMAIN c : i > 2 => c[i] \in Reads \/ (c[i] = "continue" /\ i = Len(c))
  <2>1. DOMAIN c = 1..(3 + n + Len(d))
    BY <1>5
  <2>2. \A i \in DOMAIN c : i > 2 =>
          c[i] \in {"locals", "eval"} \/ (c[i] = "continue" /\ i = 3 + n + 1 /\ Len(d) = 1)
    BY <1>1, <1>7, <2>1
  <2> QED
    BY <1>5, <2>2 DEF Reads
<1> QED
  BY <1>5, <1>6, <1>8, <1>9

\* What is asked of the calls of a request.
Fit(t, calls) ==
  /\ t \in {u.name : u \in ToolRegistry} \cup {"resource"}
  /\ calls \in Seq(Commands) /\ calls # <<>>
  /\ readOnly => \A i \in DOMAIN calls :
                   calls[i] \in Observing \/ (calls[i] = "watch list" /\ t = "explain_pause")
  /\ \A i \in DOMAIN calls :
       /\ t = "inspect_at" =>
            /\ i = 1 => calls[i] = "break"
            /\ i = 2 => calls[i] = "continue"
            /\ i > 2 => calls[i] \in Reads \/ (calls[i] = "continue" /\ i = Len(calls))
       /\ t = "explain_pause" => IF i = 1 THEN calls[i] = "state" ELSE calls[i] \in Reads

\* Every tool the client may call meets it.
LEMMA CallsFit ==
  ASSUME NEW t \in ToolRegistry, Callable(t), NEW n \in Nat, NEW r \in BOOLEAN
  PROVE  Fit(t.name, Calls(t.name, n, r))
<1>a. /\ t.name \in Commands \cup Composite
      /\ readOnly => t.name \in Observing \cup {"explain_pause", "snapshot_compact"}
  BY Tools DEF Callable
<1>b. t.name \in {u.name : u \in ToolRegistry} \cup {"resource"}
  OBVIOUS
<1>1. CASE t.name = "inspect_at"
  <2>1. Calls(t.name, n, r) = InspectAtCalls(n, r)
    BY <1>1 DEF Calls
  <2>2. ~readOnly
    BY <1>a, <1>1 DEF Observing
  <2> QED
    BY <1>1, <1>b, <2>1, <2>2, InspectAt DEF Fit
<1>2. CASE t.name = "explain_pause"
  <2> DEFINE c == <<"state", "stack", "locals", "watch list">>
  <2>1. Calls(t.name, n, r) = c
    BY <1>2 DEF Calls, ExplainPauseCalls
  <2>2. c \in Seq(Commands) /\ c # <<>>
    BY DEF Commands, Observing, Evaluating
  <2>3. c[1] = "state" /\ c[2] = "stack" /\ c[3] = "locals" /\ c[4] = "watch list"
    OBVIOUS
  <2>d. DOMAIN c = 1..4
    OBVIOUS
  <2> HIDE DEF c
  <2>4. \A i \in DOMAIN c : /\ c[i] \in Observing \/ c[i] = "watch list"
                            /\ IF i = 1 THEN c[i] = "state" ELSE c[i] \in Reads
    <3> TAKE i \in DOMAIN c
    <3>0. i \in 1..4
      BY <2>d
    <3>1. i = 1 \/ i = 2 \/ i = 3 \/ i = 4
      BY <3>0
    <3> QED
      BY <2>3, <3>1 DEF Observing, Reads
  <2> QED
    BY <1>2, <1>b, <2>1, <2>2, <2>4 DEF Fit
<1>3. CASE t.name = "run_until_break"
  <2> DEFINE c == Calls(t.name, n, r)
  <2>1. c = <<"break", "continue">>
    BY <1>3 DEF Calls, RunUntilBreakCalls
  <2>2. ~readOnly
    BY <1>a, <1>3 DEF Observing
  <2>3. c \in Seq(Commands) /\ c # <<>>
    BY <2>1 DEF Commands, Changing, Resuming
  <2> HIDE DEF c
  <2> QED
    BY <1>3, <1>b, <2>2, <2>3 DEF Fit, c
<1>4. CASE t.name = "snapshot_compact"
  <2> DEFINE c == <<"snapshot">>
  <2>1. Calls(t.name, n, r) = c
    BY <1>4 DEF Calls, SnapshotCompactCalls
  <2>2. c \in Seq(Commands) /\ c # <<>>
    BY DEF Commands, Observing
  <2>d. DOMAIN c = 1..1 /\ c[1] = "snapshot"
    OBVIOUS
  <2> HIDE DEF c
  <2>3. \A i \in DOMAIN c : c[i] \in Observing
    <3> TAKE i \in DOMAIN c
    <3>1. i = 1
      BY <2>d
    <3> QED
      BY <2>d, <3>1 DEF Observing
  <2> QED
    BY <1>4, <1>b, <2>1, <2>2, <2>3 DEF Fit
<1>5. CASE t.name \notin Composite
  <2>1. Calls(t.name, n, r) = <<t.name>>
    BY <1>5 DEF Calls, Composite
  <2>2. readOnly => t.name \in Observing
    BY <1>a, <1>5 DEF Composite
  <2>3. t.name \notin {"inspect_at", "explain_pause"}
    BY <1>5 DEF Composite
  <2>4. t.name \in Commands
    BY <1>a, <1>5
  <2> DEFINE c == <<t.name>>
  <2>5. c \in Seq(Commands) /\ c # <<>> /\ DOMAIN c = 1..1 /\ c[1] = t.name
    BY <2>4
  <2>6. \A i \in DOMAIN c : c[i] = t.name
    BY <2>5
  <2> HIDE DEF c
  <2>7. Fit(t.name, c)
    BY <1>b, <2>2, <2>3, <2>5, <2>6 DEF Fit
  <2> QED
    BY <2>1, <2>7 DEF c
<1> QED
  BY <1>1, <1>2, <1>3, <1>4, <1>5 DEF Composite

-----------------------------------------------------------------------------
(* The steps, as far as the request in progress is concerned.              *)

Engages(id, t, s, calls) ==
  /\ Received(id) /\ UNCHANGED mute /\ id # 0 /\ Fit(t, calls) /\ s \in Ids \cup {NoId}
  /\ tool' = t /\ pinned' = s /\ todo' = calls /\ cur' = id
  /\ pc' \in {"sessions", "call"}
  /\ UNCHANGED <<dflt, got, heard, replies>>

\* A message is answered at once.
Replies(id) == Received(id) /\ UNCHANGED mute /\ Write(id)

\* Nothing is in progress, and nothing is begun.
Idle ==
  /\ pc = "read" /\ pc' \in {"read", "gone"}
  /\ UNCHANGED <<tool, pinned, dflt, todo, got, heard, cur>>

\* A message is not answered: it has no id, or is initialized or exit.
Silent(id) ==
  /\ Received(id) /\ mute' = mute \cup ({id} \ {0}) /\ UNCHANGED replies
  /\ Idle

\* shutdown.
Quits(id) ==
  /\ Received(id) /\ UNCHANGED mute /\ Idle
  /\ replies' = IF id = 0 THEN replies ELSE Append(replies, id)
  /\ pc' = "gone"

\* A message is answered at once, or not at all, makes the server exit, or needs the
\* daemon.
LEMMA ReceiveSteps ==
  ASSUME TypeOK, Receive
  PROVE  \/ \E id \in 0..MaxRequests : Replies(id) \/ Silent(id) \/ Quits(id)
         \/ RunReturns
         \/ \E id \in 0..MaxRequests : \E t, s, calls : Engages(id, t, s, calls)
<1>0. 0 \in 0..MaxRequests
  BY McpAssumption
<1>1. CASE HandleNotification
  <2>1. Silent(0)
    BY <1>1 DEF HandleNotification, Silent, Idle, serverVars, Received
  <2> QED
    BY <1>0, <2>1
<1>2. ASSUME NEW id \in 0..MaxRequests, HandleInitialized(id) \/ HandleExit(id)
      PROVE  Silent(id) \/ Quits(id)
  <2>1. CASE HandleInitialized(id)
    BY <2>1 DEF HandleInitialized, Silent, Idle, serverVars, Received
  <2>2. CASE HandleExit(id)
    BY <2>2 DEF HandleExit, Leave, Silent, Quits, Idle, Received
  <2> QED
    BY <1>2, <2>1, <2>2
<1>3. ASSUME NEW id \in 0..MaxRequests,
             HandleInitialize(id) \/ HandleList(id) \/ HandlePromptGet(id)
      PROVE  Replies(id)
  BY <1>3 DEF HandleInitialize, HandleList, HandlePromptGet, Replies
<1>4. ASSUME NEW id \in 0..MaxRequests, HandleToolCall(id)
      PROVE  Replies(id) \/ \E t, s, calls : Engages(id, t, s, calls)
  <2>1. CASE Write(id)
    BY <1>4, <2>1 DEF HandleToolCall, Replies
  <2>2. CASE ~Write(id)
    <3>1. PICK t \in ToolRegistry, s \in Ids \cup {NoId}, n \in 0..MaxExprs, r \in BOOLEAN :
            Callable(t) /\ Engage(id, t.name, s, Calls(t.name, n, r))
      BY <1>4, <2>2 DEF HandleToolCall, Refuse
    <3>2. n \in Nat
      BY McpAssumption
    <3>3. Fit(t.name, Calls(t.name, n, r))
      BY <3>1, <3>2, CallsFit
    <3>4. Engages(id, t.name, s, Calls(t.name, n, r))
      BY <1>4, <3>1, <3>3 DEF HandleToolCall, Engage, Engages
    <3> QED
      BY <3>4
  <2> QED
    BY <2>1, <2>2
<1>5. ASSUME NEW id \in 0..MaxRequests, HandleResourceRead(id)
      PROVE  Replies(id) \/ \E t, s, calls : Engages(id, t, s, calls)
  <2>1. CASE Write(id)
    BY <1>5, <2>1 DEF HandleResourceRead, Replies
  <2>2. ASSUME NEW c \in {"events", "sessions", "adapters"}
        PROVE  Fit("resource", <<c>>)
    <3>1. c \in Observing
      BY <2>2 DEF Observing
    <3>2. c \in Commands
      BY <3>1 DEF Commands
    <3> QED
      BY <3>1, <3>2 DEF Fit
  <2>3. CASE Engage(id, "resource", NoId, <<"events">>)
    <3>1. Engages(id, "resource", NoId, <<"events">>)
      BY <1>5, <2>2, <2>3 DEF HandleResourceRead, Engage, Engages
    <3> QED
      BY <3>1
  <2>4. ASSUME NEW c \in {"sessions", "adapters"}, tool' = "resource", todo' = <<c>>, cur' = id,
               pc' = "call", UNCHANGED <<pinned, dflt, got, heard, replies>>
        PROVE  \E t, s, calls : Engages(id, t, s, calls)
    <3>1. Engages(id, "resource", pinned, <<c>>)
      BY <1>5, <2>2, <2>4 DEF HandleResourceRead, Engages, TypeOK
    <3> QED
      BY <3>1
  <2> QED
    BY <1>5, <2>1, <2>3, <2>4 DEF HandleResourceRead
<1> QED
  BY <1>1, <1>2, <1>3, <1>4, <1>5 DEF Receive

\* The session a call reaches, if it reaches one.
Reached == IF pc = "await" THEN dflt ELSE Target

\* A call is answered.
Answers(x, result, told) ==
  /\ pc \in {"call", "await"} /\ OwnCall /\ Answer(x, result, told)
  /\ x \in Ids \cup {NoId} /\ result \in Results /\ told \in Nat
  /\ x = NoId \/ x = Reached \/ Head(todo) \in Opening

\* Another client moves, a program, or the daemon learns of it: the default may
\* change, but not unnoticed.
Elsewhere ==
  /\ UNCHANGED <<pc, tool, pinned, dflt, todo, got, cur, readVars, replies, readOnly>>
  /\ (disturbed' /\ pc # "read") \/ pc = "read" \/ UNCHANGED <<default, disturbed>>

\* Every step is one of the moves of the server, or leaves the request alone.
LEMMA ServerSteps ==
  ASSUME TypeOK, AwaitInv, Next
  PROVE  \/ \E id \in 0..MaxRequests : Replies(id) \/ Silent(id) \/ Quits(id)
         \/ RunReturns
         \/ \E id \in 0..MaxRequests : \E t, s, calls : Engages(id, t, s, calls)
         \/ DefaultID \/ List
         \/ \E x, result, told : Answers(x, result, told)
         \/ CallAndWait \/ Reply
         \/ Elsewhere
<1>a. /\ live \subseteq Ids /\ st \in [Ids -> States] /\ heard \in Nat
      /\ stop \in [Ids -> Nat] /\ seen \in [Ids -> Nat] /\ 0 \in Nat
  BY DEF TypeOK
<1>1. CASE Receive
  BY <1>1, ReceiveSteps
<1>2. CASE CallFails
  <2>1. Answers(NoId, "error", 0)
    BY <1>2 DEF CallFails, Answers, Results
  <2> QED
    BY <2>1
<1>3. CASE CallPlain
  <2>1. CASE Head(todo) \in Global /\ Answer(NoId, "ok", 0)
    <3>1. Answers(NoId, "ok", 0)
      BY <1>3, <2>1 DEF CallPlain, Answers, Results
    <3> QED
      BY <3>1
  <2>2. CASE Target \in live /\ Head(todo) \notin Global
    <3>1. PICK result \in Results, told \in {0, Stands(Target)} : Answer(Target, result, told)
      BY <1>3, <2>2 DEF CallPlain, Results
    <3>2. told \in Nat
      BY <1>a, <2>2 DEF Stands
    <3>3. Answers(Target, result, told)
      BY <1>a, <1>3, <2>2, <3>1, <3>2 DEF CallPlain, Answers, Reached
    <3> QED
      BY <3>3
  <2> QED
    BY <1>3, <2>1, <2>2 DEF CallPlain
<1>4. CASE CallState
  <2>1. PICK told \in {0, seen[Target]} : Answer(Target, st[Target], told)
    BY <1>4 DEF CallState
  <2>2. told \in Nat /\ st[Target] \in Results
    BY <1>a, <1>4 DEF CallState, Results
  <2>3. Answers(Target, st[Target], told)
    BY <1>a, <1>4, <2>1, <2>2 DEF CallState, Answers, Reached
  <2> QED
    BY <2>3
<1>5. CASE CallStart
  <2>1. PICK x \in Ids : Answer(x, "ok", 0)
    BY <1>5 DEF CallStart
  <2>2. Answers(x, "ok", 0)
    BY <1>5, <2>1 DEF CallStart, Answers, Results
  <2> QED
    BY <2>2
<1>6. CASE CallStop
  <2>1. Answers(Target, "ok", 0)
    BY <1>a, <1>6 DEF CallStop, Discard, Drop, Answers, Results, Reached
  <2> QED
    BY <2>1
<1>7. CASE CallRestart
  <2>1. Answers(Target, "running", 0)
    BY <1>a, <1>7 DEF CallRestart, Answers, Results, States, Reached
  <2> QED
    BY <2>1
<1>8. CASE Awaited
  <2>1. PICK result \in {"paused", "over", "running", "error"}, told \in {0, heard} :
          Answer(dflt, result, told)
    BY <1>8 DEF Awaited
  <2>2. result \in Results /\ told \in Nat
    BY <1>a DEF Results, States
  <2>3. Answers(dflt, result, told)
    BY <1>8, <2>1, <2>2 DEF Awaited, Answers, Reached, AwaitInv
  <2> QED
    BY <2>3
<1>9. CASE OtherClient \/ Program \/ Events
  BY <1>9 DEF OtherClient, Program, Events, Elsewhere, serverVars, readVars
<1> QED
  BY <1>1, <1>2, <1>3, <1>4, <1>5, <1>6, <1>7, <1>8, <1>9 DEF Next, Serve

-----------------------------------------------------------------------------
(* Type correctness.                                                       *)

TypeSessions ==
  /\ live \subseteq Ids /\ IsFiniteSet(live) /\ default \in Ids \cup {NoId}
  /\ prog \in [Ids -> {"runs", "halted", "ended"}] /\ stop \in [Ids -> Nat]
  /\ st \in [Ids -> States] /\ seen \in [Ids -> Nat]

\* The operations of the session table keep the types.
LEMMA TableType ==
  ASSUME TypeSessions, NEW x \in Ids, Add(x) \/ Discard(x) \/ Choose(x)
  PROVE  live' \subseteq Ids /\ IsFiniteSet(live') /\ default' \in Ids \cup {NoId}
<1>1. IsFiniteSet(live \cup {x}) /\ IsFiniteSet(live \ {x})
  BY FS_AddElement, FS_RemoveElement DEF TypeSessions
<1>2. CASE Add(x)
  BY <1>1, <1>2 DEF TypeSessions, Add
<1>3. CASE Discard(x)
  <2>1. live' = live \ {x}
    BY <1>3 DEF Discard, Drop
  <2>2. default' \in live' \/ default' = NoId \/ default' = default
    BY <1>3 DEF Discard, Drop
  <2> QED
    BY <1>1, <2>1, <2>2 DEF TypeSessions
<1>4. CASE Choose(x)
  BY <1>4 DEF TypeSessions, Choose
<1> QED
  BY <1>2, <1>3, <1>4

\* So does every step.
LEMMA SessionsType ==
  ASSUME TypeOK, Next
  PROVE  TypeSessions'
<1>a. TypeSessions /\ 0 \in Nat /\ {"initializing", "paused", "running", "over"} = States
  BY DEF TypeOK, TypeSessions, States
<1> DEFINE P == prog' \in [Ids -> {"runs", "halted", "ended"}] /\ stop' \in [Ids -> Nat]
           S == st' \in [Ids -> States] /\ seen' \in [Ids -> Nat]
<1>b. ASSUME NEW x \in Ids, Enters(x) PROVE P /\ S
  BY <1>a, <1>b DEF TypeSessions, Enters
<1>c. ASSUME NEW x, Discard(x) PROVE TypeSessions'
  <2>1. x \in Ids
    BY <1>a, <1>c DEF Discard, Drop, TypeSessions
  <2>2. P /\ S
    BY <1>a, <1>c, <2>1 DEF TypeSessions, Discard
  <2> QED
    BY <1>a, <1>c, <2>1, <2>2, TableType DEF TypeSessions
<1>d. ASSUME NEW x \in Ids, Resumes(x) PROVE TypeSessions'
  BY <1>a, <1>d DEF TypeSessions, Resumes
<1>1. CASE UNCHANGED sessionVars
  BY <1>a, <1>1 DEF TypeSessions, sessionVars
<1>2. CASE Receive
  BY <1>1, <1>2 DEF Receive, HandleInitialize, HandleInitialized, HandleList, HandlePromptGet,
     HandleToolCall, HandleResourceRead, HandleNotification, HandleExit, RunReturns, Received
<1>3. CASE DefaultID \/ List \/ CallFails \/ CallPlain \/ CallState \/ Awaited \/ Reply
  BY <1>1, <1>3 DEF DefaultID, List, ServerOnly, CallFails, CallPlain, CallState, Awaited, Reply
<1>4. CASE CallStart
  <2>1. PICK x \in Ids : Add(x) /\ Enters(x)
    BY <1>4 DEF CallStart
  <2> QED
    BY <1>a, <1>b, <2>1, TableType DEF TypeSessions
<1>5. CASE CallStop
  BY <1>c, <1>5 DEF CallStop
<1>6. CASE CallRestart
  BY <1>a, <1>d, <1>6 DEF CallRestart, TypeSessions
<1>7. CASE CallAndWait
  BY <1>1, <1>a, <1>d, <1>7 DEF CallAndWait, TypeSessions
<1>8. CASE OtherClient
  <2>1. PICK x \in Ids : \/ Add(x) /\ Enters(x)
                         \/ Discard(x)
                         \/ Choose(x) /\ UNCHANGED <<prog, stop, st, seen>>
                         \/ Resumes(x)
    BY <1>8 DEF OtherClient
  <2>2. CASE Add(x) /\ Enters(x)
    BY <1>a, <1>b, <2>2, TableType DEF TypeSessions
  <2>3. CASE Choose(x) /\ UNCHANGED <<prog, stop, st, seen>>
    BY <1>a, <2>3, TableType DEF TypeSessions
  <2> QED
    BY <1>c, <1>d, <2>1, <2>2, <2>3
<1>9. CASE Program
  <2>1. UNCHANGED <<live, default, st>> /\ live \subseteq Ids
    BY <1>a, <1>9 DEF Program, TypeSessions
  <2>2. P /\ seen' \in [Ids -> Nat]
    BY <1>a, <1>9, <2>1 DEF Program, TypeSessions
  <2> QED
    BY <1>a, <2>1, <2>2 DEF TypeSessions
<1>10. CASE Events
  <2>1. UNCHANGED <<live, default, prog, stop>> /\ live \subseteq Ids
    BY <1>a, <1>10 DEF Events, TypeSessions
  <2>2. S
    BY <1>a, <1>10, <2>1 DEF Events, HandleEvent, TypeSessions
  <2> QED
    BY <1>a, <2>1, <2>2 DEF TypeSessions
<1> QED
  BY <1>2, <1>3, <1>4, <1>5, <1>6, <1>7, <1>8, <1>9, <1>10 DEF Next, Serve

\* The answer to a call is put behind the others; the handler returns, or goes on
\* with its next call.
LEMMA AnswerEffect ==
  ASSUME todo \in Seq(Commands), todo # <<>>, got \in Seq(Entry),
         NEW x, NEW result, NEW told, Answers(x, result, told)
  PROVE  LET e == [cmd |-> Head(todo), on |-> x, result |-> result, told |-> told]
         IN  /\ e \in Entry /\ got' \in Seq(Entry) /\ Len(got') = Len(got) + 1
             /\ DOMAIN got = 1..Len(got) /\ Len(got) \in Nat /\ DOMAIN got' = 1..(Len(got) + 1)
             /\ got'[Len(got) + 1] = e /\ \A i \in DOMAIN got : got'[i] = got[i]
             /\ Len(todo) \in Nat \ {0} /\ DOMAIN todo = 1..Len(todo) /\ Head(todo) = todo[1]
             /\ \/ pc' = "reply" /\ todo' = <<>>
                \/ /\ pc' = "call" /\ todo' \in Seq(Commands) /\ todo' # <<>>
                   /\ ~Ends(tool, Len(got) + 1, result)
                   /\ Len(todo) > 1 /\ Len(todo') = Len(todo) - 1 /\ DOMAIN todo' = 1..(Len(todo) - 1)
                   /\ \A i \in DOMAIN todo' : todo'[i] = todo[i + 1]
<1> DEFINE e == [cmd |-> Head(todo), on |-> x, result |-> result, told |-> told]
<1>1. e \in Entry
  <2>1. Head(todo) \in Commands /\ x \in Ids \cup {NoId} /\ result \in Results /\ told \in Nat
    BY DEF Answers
  <2> QED
    BY <2>1 DEF Entry
<1>2. /\ got' = Append(got, e)
      /\ \/ pc' = "reply" /\ todo' = <<>>
         \/ /\ pc' = "call" /\ todo' = Tail(todo) /\ ~Ends(tool, Len(Append(got, e)), result)
            /\ Len(todo) # 1
  BY DEF Answers, Answer
<1> HIDE DEF e
<1>3. /\ got' \in Seq(Entry) /\ Len(got') = Len(got) + 1 /\ DOMAIN got = 1..Len(got)
      /\ Len(got) \in Nat /\ DOMAIN got' = 1..(Len(got) + 1)
      /\ got'[Len(got) + 1] = e /\ \A i \in DOMAIN got : got'[i] = got[i]
  BY <1>1, <1>2
<1>4. Len(todo) \in Nat \ {0} /\ DOMAIN todo = 1..Len(todo) /\ Head(todo) = todo[1]
  OBVIOUS
<1>5. CASE pc' = "call"
  <2>1. todo' = Tail(todo) /\ ~Ends(tool, Len(got) + 1, result) /\ Len(todo) > 1
    BY <1>1, <1>2, <1>4, <1>5
  <2>2. /\ todo' \in Seq(Commands) /\ Len(todo') = Len(todo) - 1
        /\ DOMAIN todo' = 1..(Len(todo) - 1) /\ \A i \in DOMAIN todo' : todo'[i] = todo[i + 1]
    BY <2>1, <1>4
  <2>3. todo' # <<>>
    <3>1. Len(todo) > 1 /\ Len(todo') = Len(todo) - 1 /\ Len(todo) \in Nat
      BY <1>4, <2>1, <2>2
    <3>2. Len(todo') > 0
      BY <3>1
    <3> QED
      BY <3>2
  <2> QED
    BY <1>1, <1>3, <1>4, <1>5, <2>1, <2>2, <2>3 DEF e
<1> QED
  BY <1>1, <1>2, <1>3, <1>4, <1>5 DEF e

\* The same, entry by entry: an answer is an old one or the new one, and the calls
\* to come were to come before.
LEMMA AnswerLog ==
  ASSUME todo \in Seq(Commands), todo # <<>>, got \in Seq(Entry),
         NEW x, NEW result, NEW told, Answers(x, result, told)
  PROVE  /\ \A i \in DOMAIN got' :
              \/ i \in DOMAIN got /\ got'[i] = got[i]
              \/ /\ i = Len(got) + 1 /\ got'[i].cmd = todo[1] /\ got'[i].on = x
                 /\ got'[i].result = result /\ got'[i].told = told
         /\ \A i \in DOMAIN todo' : i + 1 \in DOMAIN todo /\ todo'[i] = todo[i + 1]
         /\ 1 \in DOMAIN todo /\ Head(todo) = todo[1]
<1>1. /\ DOMAIN got = 1..Len(got) /\ Len(got) \in Nat /\ DOMAIN got' = 1..(Len(got) + 1)
      /\ \A i \in DOMAIN got : got'[i] = got[i]
      /\ Len(todo) \in Nat \ {0} /\ DOMAIN todo = 1..Len(todo) /\ Head(todo) = todo[1]
  BY AnswerEffect
<1>2. LET e == got'[Len(got) + 1]
      IN  e.cmd = todo[1] /\ e.on = x /\ e.result = result /\ e.told = told
  <2>1. got'[Len(got) + 1] = [cmd |-> Head(todo), on |-> x, result |-> result, told |-> told]
    BY AnswerEffect
  <2> QED
    BY <1>1, <2>1
<1>3. ASSUME NEW i \in DOMAIN got'
      PROVE  i \in DOMAIN got \/ i = Len(got) + 1
  BY <1>1
<1>4. CASE todo' = <<>>
  BY <1>1, <1>2, <1>3, <1>4
<1>5. CASE todo' # <<>>
  <2>1. /\ DOMAIN todo' = 1..(Len(todo) - 1)
        /\ \A i \in DOMAIN todo' : todo'[i] = todo[i + 1]
    BY <1>5, AnswerEffect
  <2>2. \A i \in DOMAIN todo' : i + 1 \in DOMAIN todo
    BY <1>1, <2>1
  <2> QED
    BY <1>1, <1>2, <1>3, <2>1, <2>2
<1> QED
  BY <1>4, <1>5

\* What is left of the variables: the options, the bounds, and the note that
\* something has moved.
LEMMA OptionsType ==
  ASSUME TypeOK, Next
  PROVE  readOnly' = readOnly /\ disturbed' \in BOOLEAN /\ moves' \in 0..MaxMoves
<1>0. ASSUME moves < MaxMoves, moves' = moves + 1 PROVE moves' \in 0..MaxMoves
  BY <1>0, McpAssumption DEF TypeOK
<1>1. CASE Receive
  <2>1. (\E id : Received(id)) \/ UNCHANGED <<readOnly, disturbed, moves>>
    BY <1>1 DEF Receive, HandleInitialize, HandleInitialized, HandleList, HandlePromptGet,
       HandleToolCall, HandleResourceRead, HandleNotification, HandleExit, RunReturns
  <2> QED
    BY <2>1 DEF Received, TypeOK
<1>2. CASE CallAndWait
  <2>1. disturbed' \in BOOLEAN
    BY <1>2 DEF CallAndWait, TypeOK
  <2> QED
    BY <1>2, <2>1 DEF CallAndWait, TypeOK
<1>3. CASE Serve /\ ~CallAndWait
  BY <1>3 DEF Serve, DefaultID, List, ServerOnly, CallFails, CallPlain, CallState, CallStart,
     CallStop, CallRestart, Awaited, Reply, OwnCall, TypeOK
<1>4. CASE OtherClient
  BY <1>0, <1>4 DEF OtherClient
<1>5. CASE Program
  BY <1>0, <1>5 DEF Program, TypeOK
<1>6. CASE Events
  BY <1>6 DEF Events, TypeOK
<1> QED
  BY <1>1, <1>2, <1>3, <1>4, <1>5, <1>6 DEF Next

TypeServer ==
  /\ pc \in {"read", "sessions", "list", "call", "await", "reply", "gone"}
  /\ tool \in {t.name : t \in ToolRegistry} \cup {"none", "resource"}
  /\ pinned \in Ids \cup {NoId} /\ dflt \in Ids \cup {NoId}
  /\ todo \in Seq(Commands) /\ got \in Seq(Entry) /\ heard \in Nat
  /\ cur \in 0..MaxRequests

TypeReplies ==
  asked \in 0..MaxRequests /\ mute \subseteq 1..MaxRequests /\ replies \in Seq(Nat)

\* A request is numbered, and not beyond the bound.
LEMMA ReceivedType ==
  ASSUME TypeReplies, NEW id \in 0..MaxRequests, Received(id)
  PROVE  /\ asked' \in 0..MaxRequests /\ {id} \ {0} \subseteq 1..MaxRequests /\ id \in Nat
         /\ (id = 0 /\ asked' = asked) \/ (id # 0 /\ id = asked + 1 /\ asked' = id)
BY McpAssumption DEF TypeReplies, Received

\* resolveSession names a session of the table, or none.
LEMMA ResolveType ==
  ASSUME TypeOK
  PROVE  ResolveSession \in Ids \cup {NoId}
<1> DEFINE alive == {x \in live : st[x] # "over"}
<1>1. live \subseteq Ids /\ IsFiniteSet(live) /\ alive \subseteq live
  BY DEF TypeOK
<1>2. IsFiniteSet(alive)
  BY <1>1, FS_Subset
<1>3. ASSUME NEW S, IsFiniteSet(S), Cardinality(S) = 1
      PROVE  Only(S) \in S
  <2>1. \E x : S = {x}
    BY <1>3, FS_Singleton
  <2>2. \E x \in S : S = {x}
    BY <2>1
  <2> QED
    BY <2>2 DEF Only
<1>4. /\ Cardinality(alive) = 1 => Only(alive) \in Ids
      /\ Cardinality(live) = 1 => Only(live) \in Ids
  BY <1>1, <1>2, <1>3
<1> QED
  BY <1>1, <1>4 DEF ResolveSession

\* What the waiter hears is a stop.
LEMMA HeardType ==
  ASSUME TypeOK, Next, Elsewhere
  PROVE  heard' \in Nat
<1>0. heard \in Nat /\ seen \in [Ids -> Nat] /\ live \subseteq Ids /\ 0 \in Nat
  BY DEF TypeOK
<1>1. ASSUME Write(cur) \/ Leave PROVE heard' \in Nat
  BY <1>0, <1>1 DEF Write, Done, Leave
<1>2. CASE Receive
  <2>1. \/ \E id : Replies(id) \/ Silent(id) \/ Quits(id)
        \/ RunReturns
        \/ \E id, t, s, calls : Engages(id, t, s, calls)
    BY <1>2, ReceiveSteps
  <2> QED
    BY <1>0, <2>1 DEF Replies, Write, Done, Silent, Quits, Idle, RunReturns, Leave, Engages
<1>3. CASE Serve
  BY <1>0, <1>3 DEF Serve, DefaultID, List, ServerOnly, CallFails, CallPlain, CallState, CallStart,
     CallStop, CallRestart, CallAndWait, Awaited, Reply, Write, Done, OwnCall
<1>4. CASE OtherClient \/ Program
  BY <1>0, <1>4 DEF OtherClient, Program, serverVars
<1>5. CASE Events
  BY <1>0, <1>5 DEF Events, HandleEvent
<1> QED
  BY <1>2, <1>3, <1>4, <1>5 DEF Next

\* The request in progress keeps its type.
LEMMA ServerType ==
  ASSUME TypeOK, StageInv, AwaitInv, Next
  PROVE  TypeServer' /\ TypeReplies'
<1>a. TypeServer /\ TypeReplies /\ TypeSessions' /\ live \subseteq Ids
  BY SessionsType DEF TypeOK, TypeServer, TypeReplies
<1>0. 0 \in 0..MaxRequests /\ <<>> \in Seq(Commands) /\ <<>> \in Seq(Entry)
  BY McpAssumption
<1>1. ASSUME NEW id \in 0..MaxRequests, Write(id)
      PROVE  TypeServer' /\ replies' \in Seq(Nat)
  <2>1. id \in Nat
    BY McpAssumption
  <2>2. replies' \in Seq(Nat)
    BY <1>a, <1>1, <2>1 DEF Write, TypeReplies
  <2> QED
    BY <1>0, <1>1, <2>2 DEF Write, Done, TypeServer
<1>2. ASSUME NEW id \in 0..MaxRequests, Replies(id)
      PROVE  TypeServer' /\ TypeReplies'
  BY <1>a, <1>1, <1>2, ReceivedType DEF Replies, TypeReplies
<1>3. ASSUME NEW id \in 0..MaxRequests, Silent(id) \/ Quits(id)
      PROVE  TypeServer' /\ TypeReplies'
  <2>1. TypeServer'
    BY <1>a, <1>3 DEF Silent, Quits, Idle, TypeServer
  <2>2. /\ asked' \in 0..MaxRequests /\ {id} \ {0} \subseteq 1..MaxRequests /\ id \in Nat
    BY <1>a, <1>3, ReceivedType DEF Silent, Quits
  <2>5. replies' = replies \/ replies' = Append(replies, id)
    BY <1>3 DEF Silent, Quits
  <2>3. replies' \in Seq(Nat)
    BY <1>a, <2>2, <2>5 DEF TypeReplies
  <2>4. mute' \subseteq 1..MaxRequests
    BY <1>a, <1>3, <2>2 DEF Silent, Quits, TypeReplies
  <2> QED
    BY <2>1, <2>2, <2>3, <2>4 DEF TypeReplies
<1>4. CASE RunReturns
  BY <1>a, <1>4 DEF RunReturns, Leave, readVars, TypeServer, TypeReplies
<1>5. ASSUME NEW id \in 0..MaxRequests, NEW t, NEW s, NEW calls, Engages(id, t, s, calls)
      PROVE  TypeServer' /\ TypeReplies'
  <2>1. TypeReplies'
    BY <1>a, <1>5, ReceivedType DEF Engages, TypeReplies
  <2>2. TypeServer'
    BY <1>a, <1>5 DEF Engages, Fit, TypeServer
  <2> QED
    BY <2>1, <2>2
<1>6. CASE DefaultID
  BY <1>a, <1>6 DEF DefaultID, ServerOnly, readVars, TypeServer, TypeReplies, TypeOK
<1>7. CASE List
  BY <1>a, <1>7, ResolveType DEF List, ServerOnly, readVars, TypeServer, TypeReplies
<1>8. ASSUME NEW x, NEW result, NEW told, Answers(x, result, told)
      PROVE  TypeServer' /\ TypeReplies'
  <2>1. todo # <<>>
    BY <1>8 DEF Answers, StageInv
  <2>2. got' \in Seq(Entry) /\ todo' \in Seq(Commands) /\ pc' \in {"call", "reply"}
    BY <1>0, <1>a, <1>8, <2>1, AnswerEffect DEF TypeServer
  <2> QED
    BY <1>a, <1>8, <2>2 DEF Answers, OwnCall, readVars, TypeServer, TypeReplies
<1>9. CASE CallAndWait
  BY <1>a, <1>9 DEF CallAndWait, readVars, TypeServer, TypeReplies
<1>10. CASE Reply
  BY <1>a, <1>1, <1>10 DEF Reply, readVars, TypeServer, TypeReplies
<1>11. CASE Elsewhere
  <2>1. heard' \in Nat
    BY <1>a, <1>11, HeardType
  <2> QED
    BY <1>a, <1>11, <2>1 DEF Elsewhere, readVars, TypeServer, TypeReplies
<1> QED
  BY <1>2, <1>3, <1>4, <1>5, <1>6, <1>7, <1>8, <1>9, <1>10, <1>11, ServerSteps

\* Every step keeps the types.
LEMMA TypeNext ==
  ASSUME TypeOK, StageInv, AwaitInv, Next
  PROVE  TypeOK'
<1>1. readOnly' \in BOOLEAN
  BY OptionsType DEF TypeOK
<1> QED
  BY <1>1, OptionsType, SessionsType, ServerType DEF TypeOK, TypeSessions, TypeServer, TypeReplies

-----------------------------------------------------------------------------
(* The request in progress.                                                *)

\* Calls to come, answers behind.
LEMMA StageNext ==
  ASSUME TypeOK, StageInv, AwaitInv, Next
  PROVE  StageInv'
<1>a. todo \in Seq(Commands) /\ got \in Seq(Entry)
  BY DEF TypeOK
<1>1. ASSUME NEW id, Write(id) PROVE StageInv'
  BY <1>1 DEF Write, Done, StageInv
<1>2. ASSUME NEW id, Replies(id) PROVE StageInv'
  BY <1>1, <1>2 DEF Replies
<1>3. ASSUME Idle PROVE StageInv'
  BY <1>3 DEF Idle, StageInv
<1>10. CASE RunReturns \/ \E id : Silent(id) \/ Quits(id)
  BY <1>3, <1>10 DEF RunReturns, Leave, Idle, Silent, Quits
<1>4. ASSUME NEW id, NEW t, NEW s, NEW calls, Engages(id, t, s, calls) PROVE StageInv'
  BY <1>4 DEF Engages, Received, Fit, StageInv
<1>5. CASE DefaultID \/ List
  BY <1>5 DEF DefaultID, List, StageInv
<1>6. ASSUME NEW x, NEW result, NEW told, Answers(x, result, told) PROVE StageInv'
  <2>1. todo # <<>>
    BY <1>6 DEF Answers, StageInv
  <2>2. pc' = "reply" \/ (pc' = "call" /\ todo' # <<>>)
    BY <1>a, <1>6, <2>1, AnswerEffect
  <2> QED
    BY <2>2 DEF StageInv
<1>7. CASE CallAndWait
  BY <1>7 DEF CallAndWait, StageInv, Waiting
<1>8. CASE Reply
  BY <1>1, <1>8 DEF Reply
<1>9. CASE Elsewhere
  BY <1>9 DEF Elsewhere, StageInv
<1> QED
  BY <1>2, <1>4, <1>5, <1>6, <1>7, <1>8, <1>9, <1>10, ServerSteps

\* The calls of a composite come in their order.
LEMMA ShapeNext ==
  ASSUME TypeOK, StageInv, AwaitInv, ShapeInv, Next
  PROVE  ShapeInv'
<1>a. todo \in Seq(Commands) /\ got \in Seq(Entry)
  BY DEF TypeOK
<1>1. ASSUME NEW id, Write(id) PROVE ShapeInv'
  BY <1>1 DEF Write, Done, ShapeInv
<1>2. ASSUME UNCHANGED <<todo, got, tool>> PROVE ShapeInv'
  BY <1>2 DEF ShapeInv, Place
<1>3. CASE \/ RunReturns \/ \E id : Silent(id) \/ Quits(id)
           \/ DefaultID \/ List \/ CallAndWait \/ Elsewhere
  BY <1>2, <1>3 DEF RunReturns, Leave, Silent, Quits, Idle, DefaultID, List, CallAndWait, Elsewhere
<1>7. ASSUME NEW id, Replies(id) PROVE ShapeInv'
  BY <1>1, <1>7 DEF Replies
<1>4. ASSUME NEW id, NEW t, NEW s, NEW calls, Engages(id, t, s, calls) PROVE ShapeInv'
  <2>1. got' = <<>> /\ Len(got') = 0
    BY <1>4 DEF Engages, Received, StageInv
  <2>2. /\ calls \in Seq(Commands) /\ tool' = t /\ todo' = calls
        /\ \A i \in DOMAIN calls :
             /\ t = "inspect_at" =>
                  /\ i = 1 => calls[i] = "break"
                  /\ i = 2 => calls[i] = "continue"
                  /\ i > 2 => calls[i] \in Reads \/ (calls[i] = "continue" /\ i = Len(calls))
             /\ t = "explain_pause" => IF i = 1 THEN calls[i] = "state" ELSE calls[i] \in Reads
    BY <1>4, Zenon DEF Engages, Fit
  <2>3. \A i \in DOMAIN todo' : Place(i)' = i
    BY <2>1, <2>2 DEF Place
  <2> QED
    BY <2>2, <2>3 DEF ShapeInv
<1>5. ASSUME NEW x, NEW result, NEW told, Answers(x, result, told) PROVE ShapeInv'
  <2>1. todo # <<>> /\ UNCHANGED tool
    BY <1>5 DEF Answers, StageInv, OwnCall
  <2>2. CASE todo' = <<>>
    BY <2>2 DEF ShapeInv
  <2>3. CASE todo' # <<>>
    <3>1. /\ Len(got') = Len(got) + 1 /\ Len(got) \in Nat /\ Len(todo) \in Nat
          /\ DOMAIN todo = 1..Len(todo) /\ Len(todo') = Len(todo) - 1
          /\ DOMAIN todo' = 1..(Len(todo) - 1)
          /\ \A i \in DOMAIN todo' : todo'[i] = todo[i + 1]
      BY <1>a, <1>5, <2>1, <2>3, AnswerEffect
    <3>2. ASSUME NEW i \in DOMAIN todo'
          PROVE  /\ i + 1 \in DOMAIN todo /\ todo'[i] = todo[i + 1]
                 /\ Place(i)' = Place(i + 1) /\ (i + 1 = Len(todo) => i = Len(todo'))
      BY <3>1 DEF Place
    <3> QED
      BY <2>1, <3>2 DEF ShapeInv
  <2> QED
    BY <2>2, <2>3
<1>6. CASE Reply
  BY <1>1, <1>6 DEF Reply
<1> QED
  BY <1>3, <1>4, <1>5, <1>6, <1>7, ServerSteps

\* A call waits on the session it was made for.
LEMMA AwaitNext ==
  ASSUME TypeOK, StageInv, AwaitInv, Next
  PROVE  AwaitInv'
<1>a. todo \in Seq(Commands) /\ got \in Seq(Entry) /\ live \subseteq Ids
  BY DEF TypeOK
<1>1. ASSUME pc' # "await" PROVE AwaitInv'
  BY <1>1 DEF AwaitInv
<1>2. ASSUME NEW id, Write(id) PROVE AwaitInv'
  BY <1>1, <1>2 DEF Write, Done
<1>3. CASE RunReturns \/ (\E id : Replies(id) \/ Silent(id) \/ Quits(id)) \/ DefaultID \/ List
  BY <1>1, <1>2, <1>3 DEF RunReturns, Leave, Replies, Silent, Quits, Idle, DefaultID, List
<1>4. ASSUME NEW id, NEW t, NEW s, NEW calls, Engages(id, t, s, calls) PROVE AwaitInv'
  BY <1>1, <1>4 DEF Engages
<1>5. ASSUME NEW x, NEW result, NEW told, Answers(x, result, told) PROVE AwaitInv'
  BY <1>1, <1>5 DEF Answers, Answer
<1>6. CASE CallAndWait
  <2>1. Target' = Target /\ dflt' = Target /\ Target \in Ids /\ UNCHANGED pinned
    BY <1>a, <1>6 DEF CallAndWait, Target, Resumes, sessionVars
  <2> QED
    BY <2>1 DEF AwaitInv, Target
<1>7. CASE Reply
  BY <1>2, <1>7 DEF Reply
<1>8. CASE Elsewhere
  BY <1>1, <1>8 DEF Elsewhere, AwaitInv, Target
<1> QED
  BY <1>3, <1>4, <1>5, <1>6, <1>7, <1>8, ServerSteps

\* The stop that a waiter hears of is the one where the program stands.
LEMMA WaitNext ==
  ASSUME TypeOK, StageInv, AwaitInv, WaitInv, Next
  PROVE  WaitInv'
<1>a. /\ live \subseteq Ids /\ stop \in [Ids -> Nat] /\ seen \in [Ids -> Nat]
      /\ prog \in [Ids -> {"runs", "halted", "ended"}] /\ heard \in Nat
  BY DEF TypeOK
<1>1. ASSUME pc' # "await" PROVE WaitInv'
  BY <1>1 DEF WaitInv
<1>2. CASE Receive
  <2>1. pc' # "await"
    BY <1>2, ReceiveSteps DEF Replies, Write, Done, Silent, Quits, Idle, RunReturns, Leave, Engages
  <2> QED
    BY <1>1, <2>1
<1>3. CASE CallAndWait
  <2>1. Target \in Ids /\ UNCHANGED todo /\ dflt' = Target /\ heard' = 0
    BY <1>a, <1>3 DEF CallAndWait
  <2>2. CASE Head(todo) \in Resuming
    <3>1. /\ Resumes(Target) /\ disturbed' = (disturbed \/ seen[Target] # stop[Target])
      BY <1>3, <2>2 DEF CallAndWait, Resuming
    <3>2. ~disturbed' => seen[Target] = stop[Target]
      BY <3>1
    <3>3. ~disturbed' => /\ prog'[Target] = "runs" => seen'[Target] = stop'[Target]
                         /\ seen'[Target] <= stop'[Target] /\ stop'[Target] <= seen'[Target] + 1
      BY <1>a, <2>1, <3>1, <3>2 DEF Resumes
    <3>4. ~disturbed' => Ahead(dflt)'
      BY <2>1, <3>3 DEF Ahead
    <3> QED
      BY <2>1, <3>4 DEF WaitInv
  <2> QED
    BY <2>1, <2>2 DEF WaitInv
<1>4. CASE Serve /\ ~CallAndWait
  <2>1. pc' # "await"
    BY <1>4 DEF Serve, DefaultID, List, CallFails, CallPlain, CallState, CallStart, CallStop,
       CallRestart, Awaited, Answer, Reply, Write, Done
  <2> QED
    BY <1>1, <2>1
<1>5. CASE OtherClient
  BY <1>5 DEF OtherClient, serverVars, WaitInv
<1>6. CASE Program \/ Events
  <2> SUFFICES ASSUME pc = "await", Head(todo) \in Resuming, ~disturbed
               PROVE  IF heard' = 0 THEN Ahead(dflt)' ELSE Held(dflt, heard)'
    BY <1>6 DEF Program, Events, serverVars, WaitInv
  <2>1. dflt \in Ids /\ dflt' = dflt /\ pc' = pc
    BY <1>6 DEF AwaitInv, Program, Events, serverVars
  <2>2. IF heard = 0 THEN Ahead(dflt) ELSE Held(dflt, heard)
    BY DEF WaitInv
  <2>3. CASE Program
    <3>1. heard' = heard
      BY <2>3 DEF Program, serverVars
    <3>2. PICK x \in live :
            \/ /\ prog[x] = "runs" /\ prog' = [prog EXCEPT ![x] = "halted"]
               /\ stop' = [stop EXCEPT ![x] = @ + 1] /\ UNCHANGED seen
            \/ /\ prog[x] # "ended" /\ prog' = [prog EXCEPT ![x] = "ended"]
               /\ \/ /\ seen[x] = stop[x]
                     /\ stop' = [stop EXCEPT ![x] = 0] /\ seen' = [seen EXCEPT ![x] = 0]
                  \/ UNCHANGED <<stop, seen>>
      BY <2>3 DEF Program
    <3>3. Held(dflt, heard) => Held(dflt, heard)'
      BY <1>a, <2>1, <3>1, <3>2 DEF Held
    <3>4. Ahead(dflt) => Ahead(dflt)'
      BY <1>a, <2>1, <3>2 DEF Ahead
    <3> QED
      BY <2>2, <3>1, <3>3, <3>4
  <2>4. CASE Events
    <3>1. UNCHANGED <<prog, stop>>
      BY <2>4 DEF Events
    <3>2. PICK x \in live : HandleEvent(x)
      BY <2>4 DEF Events
    <3>3. CASE UNCHANGED <<seen, heard>>
      BY <2>1, <2>2, <3>1, <3>3 DEF Ahead, Held
    <3>4. CASE /\ seen[x] < stop[x] /\ seen' = [seen EXCEPT ![x] = @ + 1]
               /\ heard' = IF pc = "await" /\ dflt = x /\ heard = 0 THEN seen[x] + 1 ELSE heard
      <4>1. CASE heard # 0
        BY <2>1, <2>2, <3>1, <3>4, <4>1 DEF Held
      <4>2. CASE heard = 0 /\ dflt # x
        BY <1>a, <2>1, <2>2, <3>1, <3>4, <4>2 DEF Ahead
      <4>3. CASE heard = 0 /\ dflt = x
        <5>1. heard' = seen[x] + 1 /\ seen[x] \in Nat /\ stop[x] \in Nat
          BY <1>a, <3>4, <4>3
        <5>2. heard' = stop[x] /\ heard' # 0 /\ prog[x] # "runs"
          BY <2>2, <3>4, <4>3, <5>1 DEF Ahead
        <5> QED
          BY <2>1, <3>1, <4>3, <5>2 DEF Held
      <4> QED
        BY <4>1, <4>2, <4>3
    <3> QED
      BY <3>2, <3>3, <3>4 DEF HandleEvent
  <2> QED
    BY <1>6, <2>3, <2>4
<1> QED
  BY <1>2, <1>3, <1>4, <1>5, <1>6 DEF Next

\* One reply for one request.
LEMMA AppendReply ==
  ASSUME TypeReplies, asked' \in Nat, RepliesInOrder, CountInv, asked' # 0, cur' = 0, mute' = mute,
         pc' \in {"read", "gone"}, replies' = Append(replies, asked'),
         \/ asked' = asked /\ cur = asked
         \/ asked' = asked + 1 /\ cur = 0
  PROVE  RepliesInOrder'
<1>a. asked \in Nat /\ Len(replies) \in Nat /\ DOMAIN replies = 1..Len(replies)
  BY McpAssumption DEF TypeReplies
<1> DEFINE n == Len(replies)
<1>1. /\ DOMAIN replies' = 1..(n + 1) /\ replies'[n + 1] = asked'
      /\ \A i \in 1..n : replies'[i] = replies[i]
  BY DEF TypeReplies
<1>2. \A i \in 1..n : replies[i] \in 1..asked /\ replies[i] # cur
  BY <1>a DEF RepliesInOrder
<1>3. \A i \in 1..n : replies[i] \in Nat /\ replies[i] < asked'
  BY <1>a, <1>2
<1>4. \A i, j \in 1..n : i < j => replies[i] < replies[j]
  BY <1>a DEF RepliesInOrder
<1>5. \A i, j \in DOMAIN replies' : i < j => replies'[i] < replies'[j]
  <2> TAKE i, j \in DOMAIN replies'
  <2> HAVE i < j
  <2>1. i \in 1..n /\ (j \in 1..n \/ j = n + 1)
    BY <1>1, <1>a
  <2> QED
    BY <1>1, <1>3, <1>4, <2>1
<1>6. \A i \in DOMAIN replies' : replies'[i] \in 1..asked'
  <2> TAKE i \in DOMAIN replies'
  <2>1. i \in 1..n \/ i = n + 1
    BY <1>1, <1>a
  <2> QED
    BY <1>1, <1>2, <1>a, <2>1
<1>7. \A id \in 1..asked' :
        (\E i \in DOMAIN replies' : replies'[i] = id) <=> id # cur' /\ id \notin mute'
  <2> TAKE id \in 1..asked'
  <2>1. CASE id = asked'
    <3>1. id \notin mute
      BY <1>a, <2>1 DEF CountInv
    <3>2. n + 1 \in DOMAIN replies'
      BY <1>1, <1>a
    <3> QED
      BY <1>1, <2>1, <3>1, <3>2
  <2>2. CASE id # asked'
    <3>1. id \in 1..asked /\ id # 0 /\ id # cur
      BY <1>a, <2>2
    <3>2. (\E i \in 1..n : replies[i] = id) <=> id \notin mute
      BY <1>a, <3>1 DEF RepliesInOrder
    <3>3. (\E i \in DOMAIN replies' : replies'[i] = id) <=> (\E i \in 1..n : replies[i] = id)
      <4>1. \A i \in DOMAIN replies' : i \in 1..n \/ i = n + 1
        BY <1>1, <1>a
      <4>2. 1..n \subseteq DOMAIN replies'
        BY <1>1, <1>a
      <4> QED
        BY <1>1, <2>2, <4>1, <4>2
    <3> QED
      BY <3>1, <3>2, <3>3
  <2> QED
    BY <2>1, <2>2
<1> QED
  BY <1>5, <1>6, <1>7 DEF RepliesInOrder

\* No reply is written: the message that was read is in progress, or gets none.
LEMMA LaterReply ==
  ASSUME TypeReplies, RepliesInOrder, CountInv, cur = 0, asked' = asked + 1, replies' = replies,
         \/ cur' = asked' /\ mute' = mute /\ pc' \notin {"read", "gone"}
         \/ cur' = 0 /\ mute' = mute \cup {asked'} /\ pc' \in {"read", "gone"}
  PROVE  RepliesInOrder'
<1>a. asked \in Nat /\ mute \subseteq 1..asked
  BY McpAssumption DEF TypeReplies, CountInv
<1>1. \A i \in DOMAIN replies : replies[i] \in 1..asked' /\ replies[i] # asked'
  BY <1>a DEF RepliesInOrder
<1>2. \A id \in 1..asked' : id = asked' \/ (id \in 1..asked /\ id # asked')
  BY <1>a
<1>3. \A id \in 1..asked' :
        (\E i \in DOMAIN replies : replies[i] = id) <=> id # cur' /\ id \notin mute'
  <2> TAKE id \in 1..asked'
  <2>1. CASE id = asked'
    BY <1>1, <2>1
  <2>2. CASE id \in 1..asked /\ id # asked'
    <3>1. (\E i \in DOMAIN replies : replies[i] = id) <=> id # cur /\ id \notin mute
      BY <2>2 DEF RepliesInOrder
    <3>2. id # 0
      BY <2>2
    <3> QED
      BY <2>2, <3>1, <3>2
  <2> QED
    BY <1>2, <2>1, <2>2
<1>4. asked' # 0
  BY <1>a
<1> QED
  BY <1>1, <1>3, <1>4 DEF RepliesInOrder

RepliesInv == RepliesInOrder /\ CountInv

LEMMA RepliesNext ==
  ASSUME TypeOK, AwaitInv, RepliesInv, Next
  PROVE  RepliesInv'
<1>a. TypeReplies /\ asked \in Nat /\ RepliesInOrder /\ CountInv
  BY McpAssumption DEF TypeOK, TypeReplies, RepliesInv
<1>b. ASSUME UNCHANGED <<asked, mute, replies, cur>>, pc \in {"read", "gone"} <=> pc' \in {"read", "gone"}
      PROVE  RepliesInv'
  BY <1>a, <1>b DEF RepliesInOrder, CountInv, RepliesInv
<1>c. ASSUME NEW id \in 0..MaxRequests, Received(id)
      PROVE  /\ cur = 0 /\ pc = "read"
             /\ \/ id = 0 /\ asked' = asked
                \/ id # 0 /\ id = asked + 1 /\ asked' = id
  BY <1>a, <1>c, ReceivedType DEF Received, RepliesInOrder
<1>d. ASSUME NEW id \in 0..MaxRequests, Received(id), UNCHANGED mute, cur' = 0,
             pc' \in {"read", "gone"}, replies' = IF id = 0 THEN replies ELSE Append(replies, id)
      PROVE  RepliesInv'
  <2>1. CASE id = 0
    BY <1>b, <1>c, <1>d, <2>1
  <2>2. CASE id # 0
    <3>1. asked' = asked + 1 /\ asked' = id /\ cur = 0
      BY <1>c, <1>d, <2>2
    <3>2. CountInv'
      BY <1>a, <1>d, <3>1 DEF CountInv
    <3>3. RepliesInOrder'
      BY <1>a, <1>d, <2>2, <3>1, AppendReply
    <3> QED
      BY <3>2, <3>3 DEF RepliesInv
  <2> QED
    BY <2>1, <2>2
<1>1. ASSUME NEW id \in 0..MaxRequests, Replies(id) PROVE RepliesInv'
  BY <1>1, <1>d DEF Replies, Write, Done
<1>2. ASSUME NEW id \in 0..MaxRequests, Silent(id) PROVE RepliesInv'
  <2>0. cur' = cur /\ cur = 0 /\ pc = "read" /\ pc' \in {"read", "gone"}
    BY <1>2, <1>c DEF Silent, Idle
  <2>1. CASE id = 0
    BY <1>2, <1>b, <1>c, <2>0, <2>1 DEF Silent
  <2>2. CASE id # 0
    <3>1. asked' = asked + 1 /\ mute' = mute \cup {asked'} /\ replies' = replies
      BY <1>2, <1>c, <2>2 DEF Silent
    <3>2. CountInv'
      BY <1>a, <2>0, <3>1 DEF CountInv
    <3>3. RepliesInOrder'
      BY <1>a, <2>0, <3>1, LaterReply
    <3> QED
      BY <3>2, <3>3 DEF RepliesInv
  <2> QED
    BY <2>1, <2>2
<1>3. ASSUME NEW id \in 0..MaxRequests, Quits(id) PROVE RepliesInv'
  BY <1>3, <1>c, <1>d DEF Quits, Idle
<1>4. CASE RunReturns
  BY <1>4, <1>b DEF RunReturns, Leave, readVars
<1>5. ASSUME NEW id \in 0..MaxRequests, NEW t, NEW s, NEW calls, Engages(id, t, s, calls)
      PROVE  RepliesInv'
  <2>1. /\ asked' = asked + 1 /\ cur' = asked' /\ mute' = mute /\ replies' = replies /\ cur = 0
        /\ pc' \notin {"read", "gone"}
    BY <1>5, <1>c DEF Engages
  <2>2. CountInv'
    BY <1>a, <2>1 DEF CountInv
  <2>3. RepliesInOrder'
    BY <1>a, <2>1, LaterReply
  <2> QED
    BY <2>2, <2>3 DEF RepliesInv
<1>6. CASE DefaultID \/ List \/ CallAndWait
  BY <1>6, <1>b DEF DefaultID, List, ServerOnly, CallAndWait, readVars
<1>7. ASSUME NEW x, NEW result, NEW told, Answers(x, result, told) PROVE RepliesInv'
  BY <1>7, <1>b DEF Answers, Answer, OwnCall, readVars
<1>8. CASE Reply
  <2>1. /\ cur # 0 /\ cur = asked /\ cur' = 0 /\ UNCHANGED <<asked, mute>> /\ pc' = "read"
        /\ replies' = Append(replies, asked')
    BY <1>8, <1>a DEF Reply, Write, Done, readVars, RepliesInOrder, CountInv
  <2>2. CountInv'
    BY <1>a, <2>1 DEF CountInv
  <2>3. RepliesInOrder'
    BY <1>a, <2>1, AppendReply
  <2> QED
    BY <2>2, <2>3 DEF RepliesInv
<1>9. CASE Elsewhere
  BY <1>9, <1>b DEF Elsewhere, readVars
<1> QED
  BY <1>1, <1>2, <1>3, <1>4, <1>5, <1>6, <1>7, <1>8, <1>9, ServerSteps

\* A read-only server sends what a harmless tool sends.
LEMMA ListsNext ==
  ASSUME TypeOK, StageInv, AwaitInv, ReadsOrLists, Next
  PROVE  ReadsOrLists'
<1>a. todo \in Seq(Commands) /\ got \in Seq(Entry)
  BY DEF TypeOK
<1>b. readOnly' = readOnly
  BY OptionsType
<1>1. ASSUME NEW id, Write(id) PROVE ReadsOrLists'
  <2>1. DOMAIN got' = {} /\ DOMAIN todo' = {}
    BY <1>1 DEF Write, Done
  <2> QED
    BY <2>1 DEF ReadsOrLists
<1>2. CASE \/ RunReturns \/ \E id : Silent(id) \/ Quits(id)
           \/ DefaultID \/ List \/ CallAndWait \/ Elsewhere
  BY <1>b, <1>2 DEF RunReturns, Leave, Silent, Quits, Idle, DefaultID, List, CallAndWait, Elsewhere,
     ReadsOrLists
<1>6. ASSUME NEW id, Replies(id) PROVE ReadsOrLists'
  BY <1>1, <1>6 DEF Replies
<1>3. ASSUME NEW id, NEW t, NEW s, NEW calls, Engages(id, t, s, calls) PROVE ReadsOrLists'
  <2>1. got' = <<>>
    BY <1>3 DEF Engages, Received, StageInv
  <2>2. DOMAIN got' = {}
    BY <2>1
  <2>3. todo' = calls /\ tool' = t /\ Fit(t, calls)
    BY <1>3, Zenon DEF Engages
  <2>4. readOnly => \A i \in DOMAIN todo' :
          todo'[i] \in Observing \/ (todo'[i] = "watch list" /\ tool' = "explain_pause")
    BY <2>3, Zenon DEF Fit
  <2> QED
    BY <1>b, <2>2, <2>4 DEF ReadsOrLists
<1>4. ASSUME NEW x, NEW result, NEW told, Answers(x, result, told) PROVE ReadsOrLists'
  <2>1. todo # <<>> /\ UNCHANGED tool
    BY <1>4 DEF Answers, StageInv, OwnCall
  <2>2. /\ 1 \in DOMAIN todo
        /\ \A i \in DOMAIN got' :
             got'[i].cmd = todo[1] \/ (i \in DOMAIN got /\ got'[i] = got[i])
    BY <1>a, <1>4, <2>1, AnswerLog
  <2>3. \A i \in DOMAIN todo' : i + 1 \in DOMAIN todo /\ todo'[i] = todo[i + 1]
    BY <1>a, <1>4, <2>1, AnswerLog
  <2> QED
    BY <1>b, <2>1, <2>2, <2>3 DEF ReadsOrLists
<1>5. CASE Reply
  BY <1>1, <1>5 DEF Reply
<1> QED
  BY <1>2, <1>3, <1>4, <1>5, <1>6, ServerSteps

\* The calls of a request stay with the session it named.
LEMMA StaysNext ==
  ASSUME TypeOK, StageInv, AwaitInv, StaysWithSession, Next
  PROVE  StaysWithSession'
<1>a. todo \in Seq(Commands) /\ got \in Seq(Entry)
  BY DEF TypeOK
<1>1. ASSUME got' = <<>> PROVE StaysWithSession'
  BY <1>1 DEF StaysWithSession
<1>2. ASSUME NEW id, Write(id) PROVE StaysWithSession'
  BY <1>1, <1>2 DEF Write, Done
<1>3. CASE RunReturns \/ (\E id : Silent(id) \/ Quits(id)) \/ DefaultID \/ CallAndWait \/ Elsewhere
  BY <1>3 DEF RunReturns, Leave, Silent, Quits, Idle, DefaultID, CallAndWait, Elsewhere,
     StaysWithSession
<1>8. ASSUME NEW id, Replies(id) PROVE StaysWithSession'
  BY <1>2, <1>8 DEF Replies
<1>4. CASE List
  BY <1>1, <1>4 DEF List, StageInv
<1>5. ASSUME NEW id, NEW t, NEW s, NEW calls, Engages(id, t, s, calls) PROVE StaysWithSession'
  BY <1>1, <1>5 DEF Engages, Received, StageInv
<1>6. ASSUME NEW x, NEW result, NEW told, Answers(x, result, told) PROVE StaysWithSession'
  <2>1. todo # <<>> /\ UNCHANGED pinned
    BY <1>6 DEF Answers, StageInv, OwnCall
  <2>2. pinned # NoId => x \in {NoId, pinned} \/ Head(todo) \in Opening
    BY <1>6 DEF Answers, Reached, Target, AwaitInv
  <2>3. \A i \in DOMAIN got' : \/ i \in DOMAIN got /\ got'[i] = got[i]
                               \/ got'[i].cmd = Head(todo) /\ got'[i].on = x
    BY <1>a, <1>6, <2>1, AnswerLog
  <2> QED
    BY <2>1, <2>2, <2>3 DEF StaysWithSession
<1>7. CASE Reply
  BY <1>2, <1>7 DEF Reply
<1> QED
  BY <1>3, <1>4, <1>5, <1>6, <1>7, <1>8, ServerSteps

-----------------------------------------------------------------------------
(* One stop.                                                               *)

\* An answer to inspect_at or explain_pause.  None of their calls changes a session
\* while it is answered; what is read is read where the program stands, and a pause
\* is what state found recorded or a waiter heard of.
Composed(x, result, told) ==
  /\ Answers(x, result, told) /\ UNCHANGED sessionVars
  /\ \/ x = NoId /\ result = "error"
     \/ /\ pc = "call" /\ x = Target /\ x \in live
        /\ result = "ok" => told = Stands(x)
        /\ result = "paused" => Head(todo) = "state" /\ (told # 0 => Held(x, told))
     \/ /\ pc = "await" /\ x = dflt /\ result # "ok"
        /\ result = "paused" => heard # 0 /\ told = heard

\* A step of these two tools is an answer, or the beginning of a wait, or leaves
\* them without answers.
LEMMA CompositeSteps ==
  ASSUME TypeOK, StageInv, ShapeInv, AwaitInv, Serve, tool \in {"inspect_at", "explain_pause"}
  PROVE  \/ \E x, result, told : Composed(x, result, told)
         \/ CallAndWait
         \/ got' = <<>>
<1>a. /\ live \subseteq Ids /\ st \in [Ids -> States] /\ todo \in Seq(Commands) /\ Len(got) \in Nat
      /\ stop \in [Ids -> Nat] /\ seen \in [Ids -> Nat] /\ heard \in Nat /\ 0 \in Nat
  BY DEF TypeOK
<1>1. CASE DefaultID \/ List \/ Reply
  BY <1>1 DEF DefaultID, List, Reply, Write, Done, StageInv
<1>2. CASE CallFails
  <2>1. Composed(NoId, "error", 0)
    BY <1>2 DEF CallFails, Answers, Results, Composed
  <2> QED
    BY <2>1
<1>3. ASSUME pc = "call"
      PROVE  Head(todo) \in Reads \cup {"break", "continue", "state"}
  <2>1. todo # <<>>
    BY <1>3 DEF StageInv
  <2>2. 1 \in DOMAIN todo /\ Head(todo) = todo[1]
    BY <1>a, <2>1
  <2>3. Place(1) = 1 \/ Place(1) = 2 \/ Place(1) > 2
    BY <1>a DEF Place
  <2> QED
    BY <2>2, <2>3 DEF ShapeInv
<1>4. CASE CallPlain
  <2>1. Target \in live /\ Head(todo) \notin Global
    BY <1>3, <1>4 DEF CallPlain, Global, Opening, Reads
  <2>2. PICK result \in {"verified", "unverified", "ok"}, told \in {0, Stands(Target)} :
          Answer(Target, result, told) /\ (result = "ok" => told = Stands(Target))
    BY <1>4, <2>1 DEF CallPlain
  <2>3. told \in Nat /\ result \in Results /\ result # "paused"
    BY <1>a, <2>1 DEF Stands, Results
  <2>4. Composed(Target, result, told)
    BY <1>a, <1>4, <2>1, <2>2, <2>3 DEF CallPlain, Answers, Reached, Composed
  <2> QED
    BY <2>4
<1>5. CASE CallState
  <2>1. Target \in live /\ Head(todo) = "state" /\ pc = "call"
    BY <1>3, <1>5 DEF CallState, Reads
  <2> DEFINE told == IF Current(Target) THEN seen[Target] ELSE 0
  <2>2. told \in Nat /\ st[Target] \in Results /\ st[Target] # "ok" /\ Answer(Target, st[Target], told)
    BY <1>a, <1>5, <2>1 DEF CallState, Results, States
  <2>3. told # 0 => Held(Target, told)
    BY DEF Current, Held
  <2> HIDE DEF told
  <2>4. Composed(Target, st[Target], told)
    BY <1>a, <1>5, <2>1, <2>2, <2>3 DEF CallState, Answers, Reached, Composed
  <2> QED
    BY <2>4
<1>6. CASE CallStart \/ CallStop \/ CallRestart
  BY <1>3, <1>6 DEF CallStart, CallStop, CallRestart, Opening, Reads
<1>7. CASE Awaited
  <2>1. PICK result \in {"paused", "over", "running", "error"}, told \in {0, heard} :
          Answer(dflt, result, told) /\ (result = "paused" => heard # 0 /\ told = heard)
    BY <1>7 DEF Awaited
  <2>2. result # "ok" /\ result \in Results /\ told \in Nat
    BY <1>a DEF States, Results
  <2>3. Composed(dflt, result, told)
    BY <1>7, <2>1, <2>2 DEF Awaited, Answers, Reached, AwaitInv, Composed
  <2> QED
    BY <2>3
<1> QED
  BY <1>1, <1>2, <1>4, <1>5, <1>6, <1>7 DEF Serve

\* The stop is still there for the next call, and what was read is of that stop.
OneStopInv == HoldInv /\ OneStopShown

LEMMA NoAnswers ==
  ASSUME got' = <<>>
  PROVE  OneStopInv'
<1>1. Len(got') = 0 /\ DOMAIN got' = {} /\ Basis' \in {1, 2}
  BY DEF Basis
<1> QED
  BY <1>1 DEF OneStopInv, HoldInv, OneStopShown

\* An answer to one of the two tools keeps it.
LEMMA ComposedStep ==
  ASSUME TypeOK, StageInv, ShapeInv, AwaitInv, WaitInv, OneStopInv,
         tool \in {"inspect_at", "explain_pause"}, ~disturbed,
         NEW x, NEW result, NEW told, Composed(x, result, told)
  PROVE  OneStopInv'
<1>a. todo \in Seq(Commands) /\ got \in Seq(Entry) /\ live \subseteq Ids
  BY DEF TypeOK
<1>b. /\ Answers(x, result, told) /\ UNCHANGED <<live, default, prog, stop, st, seen>>
      /\ UNCHANGED <<tool, pinned, disturbed>> /\ Target' = Target /\ Basis' = Basis
  BY DEF Composed, sessionVars, Answers, OwnCall, Target, Basis
<1>c. todo # <<>> /\ pc \in {"call", "await"}
  BY <1>b DEF Answers, StageInv
<1>d. Basis \in {1, 2} /\ (tool = "inspect_at" => Basis = 2) /\ (tool = "explain_pause" => Basis = 1)
  BY DEF Basis
<1> DEFINE k == Len(got)
<1>1. /\ k \in Nat /\ Len(got') = k + 1 /\ DOMAIN got = 1..k /\ DOMAIN got' = 1..(k + 1)
      /\ \A i \in DOMAIN got : got'[i] = got[i]
  BY <1>a, <1>b, <1>c, AnswerEffect
<1>2. /\ got'[k + 1].cmd = todo[1] /\ got'[k + 1].on = x /\ got'[k + 1].result = result
      /\ got'[k + 1].told = told
  <2>1. got'[k + 1] = [cmd |-> Head(todo), on |-> x, result |-> result, told |-> told]
        /\ Head(todo) = todo[1]
    BY <1>a, <1>b, <1>c, AnswerEffect
  <2> QED
    BY <2>1
<1>3. pc' = "call" => ~Ends(tool, k + 1, result) /\ Len(todo) > 1
  BY <1>a, <1>b, <1>c, AnswerEffect
<1>4. 1 \in DOMAIN todo /\ Head(todo) = todo[1] /\ Place(1) = k + 1 /\ Len(todo) \in Nat
  BY <1>a, <1>c DEF Place
<1> HIDE DEF k
<1>5. CASE k + 1 < Basis
  <2>1. ~(Len(got') >= Basis) /\ \A i \in DOMAIN got' : ~(i > Basis)
    BY <1>1, <1>5, <1>d
  <2> QED
    BY <1>b, <2>1 DEF OneStopInv, HoldInv, OneStopShown
<1>6. CASE k + 1 = Basis
  <2>1. \A i \in DOMAIN got' : ~(i > Basis)
    BY <1>1, <1>6, <1>d
  <2>2. OneStopShown'
    BY <1>b, <2>1 DEF OneStopShown
  <2>3. ASSUME pc' = "call", tool = "explain_pause" => result = "paused" /\ told # 0
        PROVE  result = "paused" /\ x \in Ids /\ x = Target /\ Held(x, told)
    <3>1. result = "paused"
      BY <1>3, <1>6, <1>d, <2>3 DEF Ends, InspectAtEnds
    <3>2. /\ tool = "explain_pause" => Head(todo) = "state"
          /\ tool = "inspect_at" => Head(todo) = "continue"
      BY <1>4, <1>6, <1>d DEF ShapeInv
    <3>3. CASE tool = "explain_pause"
      <4>1. pc = "call"
        BY <1>c, <3>2, <3>3 DEF StageInv, Waiting, Resuming
      <4> QED
        BY <1>a, <2>3, <3>1, <3>3, <4>1 DEF Composed
    <3>4. CASE tool = "inspect_at"
      <4>1. pc = "await" /\ x = dflt /\ heard # 0 /\ told = heard
        BY <3>1, <3>2, <3>4 DEF Composed
      <4>2. Head(todo) \in Resuming
        BY <3>2, <3>4 DEF Resuming
      <4> QED
        BY <3>1, <3>4, <4>1, <4>2 DEF AwaitInv, WaitInv
    <3> QED
      BY <3>3, <3>4
  <2>4. HoldInv'
    BY <1>2, <1>6, <1>b, <2>3 DEF HoldInv, Holds, Held
  <2> QED
    BY <2>2, <2>4 DEF OneStopInv
<1>7. CASE k + 1 > Basis
  <2>1. /\ Basis \in DOMAIN got /\ got'[Basis] = got[Basis] /\ k >= Basis
        /\ 1 \in DOMAIN got /\ got'[1] = got[1]
    BY <1>1, <1>7, <1>d
  <2>2. pc = "await" => tool = "inspect_at" /\ pc' # "call"
    <3>1. pc = "await" => Head(todo) \in Waiting
      BY DEF StageInv
    <3>2. pc = "await" => tool = "inspect_at"
      BY <1>1, <1>4, <1>7, <1>d, <3>1 DEF ShapeInv, Reads, Waiting, Resuming
    <3>3. pc = "await" => 1 = Len(todo)
      BY <1>1, <1>4, <1>7, <1>d, <3>1, <3>2 DEF ShapeInv, Reads, Waiting, Resuming
    <3>4. ASSUME pc' = "call", Len(todo) = 1 PROVE FALSE
      <4>1. 1 > 1
        BY <1>3, <3>4
      <4> QED
        BY <4>1
    <3> QED
      BY <3>2, <3>3, <3>4
  <2>3. ASSUME pc = "call",
               tool = "explain_pause" => got[Basis].result = "paused" /\ got[Basis].told # 0
        PROVE  got[Basis].result = "paused" /\ Holds
    BY <2>1, <2>3 DEF OneStopInv, HoldInv, k
  <2>4. HoldInv'
    BY <1>b, <1>c, <2>1, <2>2, <2>3 DEF HoldInv, Holds, Held
  <2>5. ASSUME result = "ok", tool = "explain_pause" => got[1].result = "paused" /\ got[1].told # 0
        PROVE  got[Basis].result = "paused" /\ x = got[Basis].on /\ told \in {0, got[Basis].told}
    <3>1. pc = "call" /\ x = Target /\ told = Stands(x)
      BY <2>5 DEF Composed
    <3>2. got[Basis].result = "paused" /\ Holds
      BY <1>d, <2>3, <2>5, <3>1
    <3> QED
      BY <3>1, <3>2 DEF Holds, Held, Stands
  <2>6. ASSUME NEW i \in DOMAIN got', i > Basis, got'[i].result = "ok",
               tool = "explain_pause" => got'[1].result = "paused" /\ got'[1].told # 0
        PROVE  got'[Basis].result = "paused" /\ got'[i].on = got'[Basis].on
               /\ got'[i].told \in {0, got'[Basis].told}
    <3>1. CASE i = k + 1
      BY <1>2, <2>1, <2>5, <2>6, <3>1
    <3>2. CASE i \in DOMAIN got
      <4>1. got'[i] = got[i]
        BY <1>1, <3>2
      <4> QED
        BY <2>1, <2>6, <3>2, <4>1 DEF OneStopInv, OneStopShown
    <3> QED
      BY <1>1, <3>1, <3>2
  <2>7. OneStopShown'
    BY <1>b, <2>6 DEF OneStopShown
  <2> QED
    BY <2>4, <2>7 DEF OneStopInv
<1> QED
  BY <1>1, <1>5, <1>6, <1>7, <1>d

\* Every step keeps it: of all the others only another client could take the
\* session away, and then the request counts as disturbed.
LEMMA OneStopNext ==
  ASSUME TypeOK, StageInv, ShapeInv, AwaitInv, WaitInv, OneStopInv, Next
  PROVE  OneStopInv'
<1>a. /\ live \subseteq Ids /\ disturbed \in BOOLEAN /\ stop \in [Ids -> Nat]
      /\ prog \in [Ids -> {"runs", "halted", "ended"}]
  BY DEF TypeOK
<1>1. CASE Receive
  <2>1. got' = <<>>
    <3>1. pc = "read" /\ got = <<>>
      BY <1>1, ReceiveSteps DEF Replies, Silent, Quits, RunReturns, Engages, Received, StageInv
    <3>2. got' = <<>> \/ got' = got
      BY <1>1, ReceiveSteps DEF Replies, Write, Done, Silent, Quits, Idle, RunReturns, Leave, Engages
    <3> QED
      BY <3>1, <3>2
  <2> QED
    BY <2>1, NoAnswers
<1>2. ASSUME disturbed' = TRUE PROVE OneStopInv'
  BY <1>2 DEF OneStopInv, HoldInv, OneStopShown
<1>3. ASSUME tool' \notin {"inspect_at", "explain_pause"} PROVE OneStopInv'
  BY <1>3 DEF OneStopInv, HoldInv, OneStopShown
<1>4. CASE Serve /\ tool \in {"inspect_at", "explain_pause"}
  <2>1. CASE CallAndWait
    <3>1. UNCHANGED <<tool, got>> /\ pc' # "call" /\ Basis' = Basis
      BY <2>1 DEF CallAndWait, Basis
    <3>2. disturbed' = disturbed \/ disturbed' = (disturbed \/ seen[Target] # stop[Target])
      BY <2>1 DEF CallAndWait
    <3>3. disturbed => disturbed'
      BY <3>2
    <3> QED
      BY <3>1, <3>3 DEF OneStopInv, HoldInv, OneStopShown
  <2>2. ASSUME NEW x, NEW result, NEW told, Composed(x, result, told) PROVE OneStopInv'
    <3>1. CASE disturbed
      BY <1>2, <2>2, <3>1 DEF Composed, Answers, OwnCall
    <3>2. CASE ~disturbed
      BY <1>4, <2>2, <3>2, ComposedStep
    <3> QED
      BY <3>1, <3>2
  <2> QED
    BY <1>4, <2>1, <2>2, CompositeSteps, NoAnswers
<1>5. CASE Serve /\ tool \notin {"inspect_at", "explain_pause"}
  <2>1. tool' \in {tool, "none"}
    BY <1>5 DEF Serve, DefaultID, List, CallFails, CallPlain, CallState, CallStart, CallStop,
       CallRestart, CallAndWait, Awaited, OwnCall, Reply, Write, Done
  <2> QED
    BY <1>3, <1>5, <2>1
<1>6. CASE OtherClient
  <2>1. disturbed' = (pc # "read") /\ got' = got
    BY <1>6 DEF OtherClient, serverVars
  <2>2. CASE pc # "read"
    BY <1>2, <2>1, <2>2
  <2>3. CASE pc = "read"
    BY <2>1, <2>3, NoAnswers DEF StageInv
  <2> QED
    BY <2>2, <2>3
<1>7. CASE Program \/ Events
  <2>1. /\ UNCHANGED <<default, pc, tool, pinned, got, disturbed>>
        /\ Basis' = Basis /\ Target' = Target
    BY <1>7 DEF Program, Events, serverVars, Basis, Target
  <2>2. \A y \in Ids : \A n : Held(y, n) => Held(y, n)'
    BY <1>a, <1>7 DEF Program, Events, Held
  <2>3. Holds => Holds'
    BY <2>1, <2>2 DEF Holds, Held
  <2> QED
    BY <2>1, <2>3 DEF OneStopInv, HoldInv, OneStopShown
<1> QED
  BY <1>1, <1>4, <1>5, <1>6, <1>7 DEF Next

-----------------------------------------------------------------------------
(* The theorems.                                                           *)

LEMMA InvInit == Init => TypeOK /\ Inv
<1> SUFFICES ASSUME Init PROVE TypeOK /\ Inv
  OBVIOUS
<1>1. TypeOK
  <2>1. 0 \in Nat /\ 0 \in 0..MaxMoves /\ 0 \in 0..MaxRequests
    BY McpAssumption
  <2>2. /\ prog \in [Ids -> {"runs", "halted", "ended"}] /\ stop \in [Ids -> Nat]
        /\ st \in [Ids -> States] /\ seen \in [Ids -> Nat]
    BY <2>1 DEF Init, States
  <2>3. asked \in 0..MaxRequests /\ mute \subseteq 1..MaxRequests /\ heard \in Nat
    BY <2>1 DEF Init
  <2>4. live \subseteq Ids /\ IsFiniteSet(live) /\ default \in Ids \cup {NoId}
    BY DEF Init
  <2>5. todo \in Seq(Commands) /\ got \in Seq(Entry) /\ replies \in Seq(Nat)
    BY DEF Init
  <2>6. /\ pinned \in Ids \cup {NoId} /\ dflt \in Ids \cup {NoId}
        /\ tool \in {t.name : t \in ToolRegistry} \cup {"none", "resource"}
        /\ cur \in 0..MaxRequests /\ moves \in 0..MaxMoves
    BY <2>1 DEF Init
  <2>7. /\ pc \in {"read", "sessions", "list", "call", "await", "reply", "gone"}
        /\ readOnly \in BOOLEAN /\ disturbed \in BOOLEAN
    BY DEF Init
  <2> QED
    BY <2>2, <2>3, <2>4, <2>5, <2>6, <2>7 DEF TypeOK
<1>2. StageInv /\ ShapeInv /\ AwaitInv /\ WaitInv /\ CountInv
  BY DEF Init, StageInv, ShapeInv, AwaitInv, WaitInv, CountInv
<1>3. Len(got) = 0 /\ DOMAIN got = {} /\ DOMAIN todo = {} /\ Basis \in {1, 2}
  BY DEF Init, Basis
<1>4. HoldInv /\ OneStopShown /\ StaysWithSession /\ ReadsOrLists
  BY <1>3 DEF HoldInv, OneStopShown, StaysWithSession, ReadsOrLists
<1>5. RepliesInOrder
  <2>1. DOMAIN replies = {} /\ 1..asked = {}
    BY DEF Init
  <2> QED
    BY <2>1 DEF Init, RepliesInOrder
<1> QED
  BY <1>1, <1>2, <1>4, <1>5 DEF Inv

LEMMA InvNext == TypeOK /\ Inv /\ [Next]_vars => TypeOK' /\ Inv'
<1> SUFFICES ASSUME TypeOK, Inv, [Next]_vars PROVE TypeOK' /\ Inv'
  OBVIOUS
<1>a. /\ StageInv /\ ShapeInv /\ AwaitInv /\ WaitInv /\ OneStopInv
      /\ RepliesInv /\ ReadsOrLists /\ StaysWithSession
  BY DEF Inv, OneStopInv, RepliesInv
<1>1. CASE Next
  <2>1. TypeOK'
    BY <1>a, <1>1, TypeNext
  <2>2. StageInv' /\ ShapeInv' /\ AwaitInv' /\ WaitInv'
    BY <1>a, <1>1, StageNext, ShapeNext, AwaitNext, WaitNext
  <2>3. RepliesInv' /\ ReadsOrLists' /\ StaysWithSession'
    BY <1>a, <1>1, RepliesNext, ListsNext, StaysNext
  <2>4. OneStopInv'
    BY <1>a, <1>1, OneStopNext
  <2> QED
    BY <2>1, <2>2, <2>3, <2>4 DEF Inv, OneStopInv, RepliesInv
<1>2. CASE UNCHANGED vars
  <2>1. TypeOK'
    BY <1>2 DEF vars, sessionVars, serverVars, readVars, TypeOK
  <2>2. StageInv' /\ ShapeInv' /\ AwaitInv' /\ WaitInv'
    BY <1>a, <1>2 DEF vars, sessionVars, serverVars, StageInv, ShapeInv, AwaitInv, WaitInv, Place,
       Target, Ahead, Held
  <2>3. RepliesInv' /\ ReadsOrLists' /\ StaysWithSession'
    BY <1>a, <1>2 DEF vars, sessionVars, serverVars, readVars, RepliesInv, RepliesInOrder, CountInv,
       ReadsOrLists, StaysWithSession
  <2>4. OneStopInv'
    BY <1>a, <1>2 DEF vars, sessionVars, serverVars, OneStopInv, HoldInv, OneStopShown, Holds,
       Basis, Target, Held
  <2> QED
    BY <2>1, <2>2, <2>3, <2>4 DEF Inv, OneStopInv, RepliesInv
<1> QED
  BY <1>1, <1>2

\* The inductive invariant holds in every reachable state.
THEOREM Invariance == Spec => [](TypeOK /\ Inv)
BY InvInit, InvNext, PTL DEF Spec

\* Every variable of the server, and of the sessions it talks about, has its type;
\* in particular resolveSession always names a session of the table, or none.
THEOREM TypeCorrect == Spec => []TypeOK
BY Invariance, PTL

\* Exactly one reply for every message with an id that handle reads, in their order,
\* whatever the daemon answers and wherever a tool's handler returns; none for
\* initialized and exit.
THEOREM OneReplyEach == Spec => []RepliesInOrder
<1>1. TypeOK /\ Inv => RepliesInOrder
  BY DEF Inv
<1> QED
  BY <1>1, Invariance, PTL

\* Every daemon command that a read-only server sends only reads, but for the list of
\* watches of explain_pause, which has the daemon evaluate them.
THEOREM ReadOnlyObserves == Spec => []ReadsOrLists
<1>1. TypeOK /\ Inv => ReadsOrLists
  BY DEF Inv
<1> QED
  BY <1>1, Invariance, PTL

\* Once resolveSession has named a session, every call of the request that reaches
\* one reaches that one, also when the daemon's default changes between the calls.
THEOREM CallsStay == Spec => []StaysWithSession
<1>1. TypeOK /\ Inv => StaysWithSession
  BY DEF Inv
<1> QED
  BY <1>1, Invariance, PTL

\* What inspect_at reads is of the stop that its continue reported and what
\* explain_pause reads of the stop that state told of, in one session: unless another
\* client interferes, a stop was on its way to the daemon at the continue, or the
\* program had left the stop recorded.
THEOREM CompositesAgree == Spec => []OneStopShown
<1>1. TypeOK /\ Inv => OneStopShown
  BY DEF Inv
<1> QED
  BY <1>1, Invariance, PTL

=============================================================================
