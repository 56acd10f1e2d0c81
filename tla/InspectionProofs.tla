--------------------------- MODULE InspectionProofs ---------------------------
(***************************************************************************)
(* What the inspection commands promise, for any number of clients,        *)
(* sessions and stops.  An answer is of one stop because a frame id is     *)
(* never older, and a reference never newer, than what it stands for: the  *)
(* invariant relates each job to the stop and the epoch of its session,    *)
(* and holds whatever the other handlers do to that session.               *)
(***************************************************************************)
EXTENDS Inspection, FiniteSetTheorems, TLAPS

-----------------------------------------------------------------------------
(* The shape of the chains.                                                *)

\* Requests before which nothing has been shown: most of them set out from the
\* current stop, whatever is known already.
Starts == Traces \cup {"threads", "resume", "evaluate"}

\* Requests that add nothing to the answer.
Quiet == {"frame", "scopes", "resume", "wait"}

\* The kinds of chain that begin with the client's reference.
Brings == {"fields", "printref"}

\* Only quiet requests come before one of Starts, and a location is recorded right
\* after it was asked for.
WellFormed(p) ==
  /\ \A i, j \in DOMAIN p : i < j /\ p[j] \in Starts => p[i] \in Quiet
  /\ \A i, j \in DOMAIN p : j = i + 1 /\ p[j] = "record" => p[i] = "locate"

\* Only an execution command resumes and records, and only source reads files; a
\* chain that begins with the client's reference does not look up a frame.
OwnSteps(k, p) ==
  \A i \in DOMAIN p : /\ p[i] \in {"resume", "record"} => k = "exec"
                      /\ p[i] \in {"top", "read"} <=> k = "source"
                      /\ p[i] \in Starts => k \notin Brings

Chain(k, p) == p \in Seq(Steps) /\ WellFormed(p) /\ OwnSteps(k, p)

LEMMA ConstantFacts ==
  /\ Executors \subseteq Handlers /\ NoSess \notin Sessions /\ NoHandler \notin Handlers
  /\ Wants \subseteq Sessions \cup {NoSess} /\ Kinds \subseteq Commands
  /\ MaxStops \in Nat /\ 1 <= MaxStops /\ MaxCmds \in Nat
  /\ IsFiniteSet(Handlers) /\ LineArgs \subseteq Nat /\ Arounds \subseteq Nat
  /\ FileLengths \subseteq Nat
BY InspectionAssumption DEF InspectionAssumption

\* The chains the commands start with.
LEMMA PlanChain ==
  ASSUME NEW k \in Commands, k # "source", NEW s
  PROVE  /\ Chain(k, Plan(k, s))
         /\ Plan(k, s) # <<>> /\ Head(Plan(k, s)) # "record"
         /\ k \in Brings => Head(Plan(k, s)) = "vars"
<1> USE DEF Chain, WellFormed, OwnSteps, Steps, Starts, Quiet, Traces, Evals, Reads, Brings
<1>1. CASE k = "stack"
  BY <1>1 DEF Plan, HandleStack
<1>2. CASE k = "threads"
  BY <1>2 DEF Plan, HandleThreads
<1>3. CASE k = "locals"
  BY <1>3 DEF Plan, HandleLocals
<1>4. CASE k = "globals"
  <2>1. CASE s \in Java
    BY <1>4, <2>1 DEF Plan, HandleGlobals
  <2>2. CASE s \notin Java
    BY <1>4, <2>2 DEF Plan, HandleGlobals
  <2> QED
    BY <2>1, <2>2
<1>5. CASE k = "fields"
  BY <1>5 DEF Plan, HandleFields
<1>6. CASE k = "set"
  BY <1>6 DEF Plan, HandleSet
<1>7. CASE k = "eval"
  BY <1>7 DEF Plan, HandleEval
<1>8. CASE k = "print"
  BY <1>8 DEF Plan, HandlePrint
<1>9. CASE k = "printref"
  BY <1>9 DEF Plan, HandlePrint
<1>10. CASE k = "snapshot"
  BY <1>10 DEF Plan, HandleSnapshot
<1>11. CASE k = "watch"
  BY <1>11 DEF Plan, EvaluateWatches
<1>12. CASE k = "exec"
  BY <1>12 DEF Plan, HandleExec
<1> QED
  BY <1>1, <1>2, <1>3, <1>4, <1>5, <1>6, <1>7, <1>8, <1>9, <1>10, <1>11, <1>12 DEF Commands

LEMMA SourceChain ==
  ASSUME NEW s, NEW p \in SourcePlan(s)
  PROVE  Chain("source", p) /\ (p # <<>> => Head(p) # "record")
<1> USE DEF Chain, WellFormed, OwnSteps, Steps, Starts, Quiet, Traces, Evals, Reads, Brings
<1>1. p \in {<<"read">>, <<"top", "read">>, <<>>}
  BY DEF SourcePlan
<1>2. CASE p = <<"read">>
  BY <1>2
<1>3. CASE p = <<"top", "read">>
  BY <1>3
<1>4. CASE p = <<>>
  BY <1>4
<1> QED
  BY <1>1, <1>2, <1>3, <1>4

\* The chains that Fails puts in the place of another.
LEMMA FailChain ==
  ASSUME NEW k
  PROVE  /\ Chain(k, <<>>)
         /\ k \notin Brings \cup {"source"} => Chain(k, <<"class", "retry">>)
BY DEF Chain, WellFormed, OwnSteps, Steps, Starts, Quiet, Traces, Evals, Reads, Brings

\* The rest of a chain.
LEMMA TailChain ==
  ASSUME NEW k, NEW p, Chain(k, p), p # <<>>
  PROVE  /\ Chain(k, Tail(p)) /\ Tail(p) # p
         /\ Head(p) \in Steps
         /\ \A i \in DOMAIN Tail(p) : i + 1 \in DOMAIN p /\ Tail(p)[i] = p[i + 1]
         /\ Head(p) \notin Quiet => \A i \in DOMAIN Tail(p) : Tail(p)[i] \notin Starts
         /\ Tail(p) # <<>> /\ Head(Tail(p)) = "record" => Head(p) = "locate"
<1>1. p \in Seq(Steps) /\ WellFormed(p) /\ OwnSteps(k, p)
  BY DEF Chain
<1>2. Len(p) \in Nat /\ Len(p) > 0 /\ DOMAIN p = 1..Len(p) /\ Head(p) = p[1] /\ Head(p) \in Steps
  BY <1>1
<1>3. Tail(p) \in Seq(Steps) /\ Len(Tail(p)) = Len(p) - 1
  BY <1>1
<1>4. Tail(p) # p
  <2>1. \A n \in Nat : n - 1 # n
    OBVIOUS
  <2>2. Len(p) - 1 # Len(p)
    BY <2>1, <1>2
  <2> QED
    BY <2>2, <1>3
<1>5. DOMAIN Tail(p) = 1..(Len(p) - 1)
  BY <1>2, <1>3
<1>6. \A i \in DOMAIN Tail(p) : i + 1 \in DOMAIN p /\ Tail(p)[i] = p[i + 1]
  BY <1>1, <1>2, <1>5
<1>7. WellFormed(Tail(p))
  <2>1. ASSUME NEW i \in DOMAIN Tail(p), NEW j \in DOMAIN Tail(p), i < j
        PROVE  Tail(p)[j] \in Starts => Tail(p)[i] \in Quiet
    <3>1. i \in Nat /\ j \in Nat /\ i + 1 < j + 1
      BY <2>1, <1>5, <1>2
    <3> QED
      BY <3>1, <1>1, <1>6 DEF WellFormed
  <2>2. ASSUME NEW i \in DOMAIN Tail(p), NEW j \in DOMAIN Tail(p), j = i + 1
        PROVE  Tail(p)[j] = "record" => Tail(p)[i] = "locate"
    <3>1. j + 1 = (i + 1) + 1
      BY <2>2
    <3> QED
      BY <3>1, <1>1, <1>6 DEF WellFormed
  <2> QED
    BY <2>1, <2>2 DEF WellFormed
<1>8. OwnSteps(k, Tail(p))
  BY <1>1, <1>6 DEF OwnSteps
<1>9. ASSUME Head(p) \notin Quiet, NEW i \in DOMAIN Tail(p)
      PROVE  Tail(p)[i] \notin Starts
  <2>1. 1 \in DOMAIN p /\ 1 < i + 1 /\ i + 1 \in DOMAIN p
    BY <1>2, <1>5, <1>6
  <2> QED
    BY <2>1, <1>9, <1>1, <1>2, <1>6 DEF WellFormed
<1>10. ASSUME Tail(p) # <<>>, Head(Tail(p)) = "record"
       PROVE  Head(p) = "locate"
  <2>1. Len(Tail(p)) > 0 /\ Head(Tail(p)) = Tail(p)[1] /\ 1 \in DOMAIN Tail(p)
    BY <1>10, <1>3, <1>5, <1>2
  <2>2. 1 \in DOMAIN p /\ 2 \in DOMAIN p /\ Tail(p)[1] = p[2]
    BY <2>1, <1>6, <1>2
  <2> QED
    <3>1. \A i, j \in DOMAIN p : j = i + 1 /\ p[j] = "record" => p[i] = "locate"
      BY <1>1 DEF WellFormed
    <3>2. 2 = 1 + 1 /\ p[2] = "record"
      BY <2>1, <2>2, <1>10
    <3> QED
      BY <3>1, <3>2, <2>2, <1>2
<1> QED
  BY <1>2, <1>3, <1>4, <1>6, <1>7, <1>8, <1>9, <1>10 DEF Chain

-----------------------------------------------------------------------------
(* Jobs and locks.                                                         *)

ShapeInv ==
  \A h \in Handlers :
    /\ job[h].pc = "idle" => job[h] = Idle
    /\ job[h].pc # "idle" => Issues(h, job[h].kind)
    /\ job[h].pc = "lock" => job[h].via \in Sessions
    /\ job[h].pc # "run" => job[h].plan = <<>>
    /\ job[h].pc = "run" =>
         job[h].sess \in Sessions /\ Chain(job[h].kind, job[h].plan)

\* inspectMu is held by the chains that took it.
LockInv ==
  \A h \in Handlers :
    job[h].pc \in {"get", "run"} /\ job[h].via # NoSess => lock[job[h].via] = h

-----------------------------------------------------------------------------
(* A reference, and an answer, against the state of their adapter.         *)

\* References of an earlier epoch are no longer valid, and while the program runs
\* none is.
RefPast(ref, ru, ge) == ref <= ge /\ (ru => ref < ge)

\* What a client keeps is of a session.
KeptInv ==
  \A h \in Handlers :
    /\ job[h].kind \in Brings => kept[h].ref # None
    /\ kept[h].ref # None => kept[h].sess \in Sessions

\* The reference a client keeps, if it is still valid, is of the present stop.
KeptOk(k, st, ru, ge) ==
  /\ k.stop <= st /\ RefPast(k.ref, ru, ge)
  /\ k.ref = ge => k.stop = st

RefInv ==
  \A h \in Handlers : kept[h].ref # None =>
    LET s == kept[h].sess IN KeptOk(kept[h], stop[s], running[s], gen[s])

\* The entries of the answer that are about the job's session.
Own(j) == {d \in j.data : d[1] = j.sess}

\* Everything shown was seen between the frame and now, at one stop; nothing is
\* shown as long as a request of Starts is to come.
DataOk(j, st) ==
  /\ j.frame <= st
  /\ \A d \in Own(j) : j.frame <= d[2] /\ d[2] <= st
  /\ \A d, e \in Own(j) : d[2] = e[2]
  /\ (\E i \in DOMAIN j.plan : j.plan[i] \in Starts) => j.data = {}
  /\ j.kind = "source" => j.ref = None

\* A valid reference is of the stop that the answer shows, or it is the client's,
\* of another session, and has not been used yet.
RefOk(j, st, ru, ge) ==
  \/ /\ RefPast(j.ref, ru, ge)
     /\ j.ref = ge => \A d \in Own(j) : d[2] = st
  \/ /\ j.kind \in Brings /\ Own(j) = {}
     /\ j.plan # <<>> /\ Head(j.plan) = "vars"

AnswerInv ==
  \A h \in Handlers : job[h].pc = "run" =>
    LET s == job[h].sess
    IN  DataOk(job[h], stop[s]) /\ RefOk(job[h], stop[s], running[s], gen[s])

-----------------------------------------------------------------------------
(* The recorded location.                                                  *)

LocInv ==
  \A s \in Sessions :
    /\ loc[s] <= stop[s]
    /\ Cardinality(Executors) <= 1 /\ loc[s] # None /\ loc[s] # stop[s] =>
         \E i \in DOMAIN evq[s] : evq[s][i] = "stopped"

\* A chain's frame is not of the future.
FrameInv == \A h \in Handlers : job[h].pc = "run" => job[h].frame <= stop[job[h].sess]

\* Between the location and its record nobody else resumes.
RecordInv ==
  Cardinality(Executors) <= 1 =>
    \A h \in Handlers : At(h, {"record"}) =>
      job[h].frame = stop[job[h].sess] /\ ~running[job[h].sess]

Inv ==
  /\ TypeOK /\ ShapeInv /\ LockInv /\ KeptInv
  /\ (~Reuse => RefInv /\ AnswerInv) /\ FrameInv /\ LocInv /\ RecordInv

-----------------------------------------------------------------------------
(* What a step does to a handler's job.                                    *)

\* The response is sent.
Idles(h) == job[h].pc \in {"get", "run"} /\ job'[h] = Idle /\ UNCHANGED dapVars

\* The lock is taken.
Enters(h) ==
  /\ job[h].pc = "lock" /\ job'[h].pc = "get"
  /\ job'[h].kind = job[h].kind /\ job'[h].via = job[h].via
  /\ job'[h].plan = job[h].plan

\* The session is found.
Finds(h) ==
  LET j == job'[h]
  IN  /\ job[h].pc = "get" /\ j.pc = "run"
      /\ j.kind = job[h].kind /\ j.via = job[h].via
      /\ j.sess \in Sessions /\ Chain(j.kind, j.plan)
      /\ j.plan # <<>> => Head(j.plan) # "record"
      /\ \/ /\ j.kind \in Brings /\ j.plan # <<>> /\ Head(j.plan) = "vars"
            /\ j.frame = None /\ j.ref = kept[h].ref
            /\ j.data = {<<kept[h].sess, kept[h].stop>>}
         \/ /\ j.kind \notin Brings
            /\ j.frame \in {None, loc[j.sess]} /\ j.ref = None /\ j.data = {}
      /\ UNCHANGED dapVars

\* A request has been made, and what the job knows afterwards.
Asks(h) ==
  /\ job[h].pc = "run" /\ job[h].plan # <<>>
  /\ job'[h].pc = "run" /\ job'[h].kind = job[h].kind
  /\ job'[h].via = job[h].via /\ job'[h].sess = job[h].sess

Learns(h, f, r, d) == job'[h].frame = f /\ job'[h].ref = r /\ job'[h].data = d

Goes(h, f, r, d) == Asks(h) /\ job'[h].plan = Tail(job[h].plan) /\ Learns(h, f, r, d)

Makes(h) ==
  LET j == job[h]  s == j.sess  step == Head(j.plan)
  IN  \/ /\ step \in Traces /\ ~running[s] /\ UNCHANGED <<stop, running>>
         /\ Goes(h, IF step = "class" THEN j.frame ELSE stop[s], j.ref,
                    IF step = "frame" THEN j.data ELSE Seen(h))
      \/ step = "scopes" /\ FrameValid(h) /\ Goes(h, j.frame, gen[s], j.data) /\ UNCHANGED dapVars
      \/ /\ step \in Evals /\ FrameValid(h) /\ UNCHANGED <<stop, running>>
         /\ Goes(h, j.frame, gen'[s], Seen(h))
      \/ step \in Reads /\ RefValid(h) /\ Goes(h, j.frame, j.ref, Seen(h)) /\ UNCHANGED dapVars
      \/ step = "threads" /\ Goes(h, j.frame, j.ref, Seen(h)) /\ UNCHANGED dapVars
      \/ /\ step \in {"extra", "watch", "wait", "record"} /\ UNCHANGED dapVars
         /\ Goes(h, j.frame, j.ref, j.data)
      \/ /\ j.kind = "eval" /\ step = "evaluate" /\ Asks(h) /\ UNCHANGED dapVars
         /\ job'[h].plan = <<"class", "retry">> /\ Learns(h, j.frame, j.ref, j.data)
      \/ /\ Tolerated(j.kind, step) /\ Asks(h) /\ UNCHANGED dapVars
         /\ job'[h].plan = <<>> /\ Learns(h, j.frame, j.ref, j.data)
      \/ step = "resume" /\ Goes(h, stop[s], j.ref, j.data)
      \/ /\ step = "read" /\ UNCHANGED dapVars
         /\ \E d \in {{}, {<<s, j.frame>>}} : Goes(h, j.frame, j.ref, d)

Moves(h) == Idles(h) \/ Enters(h) \/ Finds(h) \/ Makes(h)

LEMMA IdleJob == Idle \in Jobs
<1>1. NoWindow \in [start : Nat, end : Nat, center : Nat, around : Nat, n : Nat]
  BY DEF NoWindow
<1>2. <<>> \in Seq(Steps)
  OBVIOUS
<1> QED
  BY <1>1, <1>2, ConstantFacts DEF Idle, Jobs, None

\* Advance, field by field.
LEMMA AdvanceFields ==
  ASSUME job \in [Handlers -> Jobs], NEW h \in Handlers, NEW j \in Jobs, j.plan # <<>>,
         Advance(h, j)
  PROVE  /\ job' \in [Handlers -> Jobs]
         /\ job'[h].pc = j.pc /\ job'[h].kind = j.kind /\ job'[h].via = j.via
         /\ job'[h].sess = j.sess /\ job'[h].plan = Tail(j.plan)
         /\ job'[h].frame = j.frame /\ job'[h].ref = j.ref /\ job'[h].data = j.data
         /\ \A g \in Handlers : g # h => job'[g] = job[g]
<1>1. j.plan \in Seq(Steps)
  BY DEF Jobs
<1>2. Tail(j.plan) \in Seq(Steps)
  BY <1>1
<1>3. [j EXCEPT !.plan = Tail(j.plan)] \in Jobs
  BY <1>2 DEF Jobs
<1>4. job' = [job EXCEPT ![h] = [j EXCEPT !.plan = Tail(j.plan)]]
  BY DEF Advance, Set
<1>5. job'[h] = [j EXCEPT !.plan = Tail(j.plan)]
  BY <1>4
<1> QED
  BY <1>3, <1>4, <1>5 DEF Jobs

\* Changing a job of the right type.
LEMMA SetFields ==
  ASSUME job \in [Handlers -> Jobs], NEW h \in Handlers, NEW j \in Jobs, Set(h, j)
  PROVE  /\ job' \in [Handlers -> Jobs] /\ job'[h] = j
         /\ \A g \in Handlers : g # h => job'[g] = job[g]
BY DEF Set

Others(h) == \A g \in Handlers : g # h => job'[g] = job[g]

\* The facts about a running job that the next lemma needs.
LEMMA RunFacts ==
  ASSUME TypeOK, ShapeInv, NEW h \in Handlers, NEW steps, At(h, steps)
  PROVE  /\ job[h] \in Jobs /\ job[h].pc = "run" /\ job[h].plan # <<>>
         /\ Head(job[h].plan) \in steps
         /\ job[h].sess \in Sessions /\ stop[job[h].sess] \in 1..MaxStops
         /\ gen[job[h].sess] \in Nat \ {0}
         /\ job[h].data \in SUBSET (Sessions \X (0..MaxStops))
         /\ Seen(h) \in SUBSET (Sessions \X (0..MaxStops))
         /\ Chain(job[h].kind, job[h].plan)
<1>1. job[h] \in Jobs /\ job[h].pc = "run" /\ job[h].plan # <<>> /\ Head(job[h].plan) \in steps
  BY DEF TypeOK, At
<1>2. job[h].sess \in Sessions /\ Chain(job[h].kind, job[h].plan)
  BY <1>1 DEF ShapeInv
<1>3. stop[job[h].sess] \in 1..MaxStops /\ gen[job[h].sess] \in Nat \ {0}
  BY <1>2 DEF TypeOK
<1>4. job[h].data \in SUBSET (Sessions \X (0..MaxStops))
  BY <1>1 DEF Jobs
<1>5. stop[job[h].sess] \in 0..MaxStops
  BY <1>3, ConstantFacts
<1>6. <<job[h].sess, stop[job[h].sess]>> \in Sessions \X (0..MaxStops)
  BY <1>2, <1>5
<1> QED
  BY <1>1, <1>2, <1>3, <1>4, <1>6 DEF Seen

\* Each step of a handler changes its own job, in one of these ways.
LEMMA JobMoves ==
  ASSUME TypeOK, ShapeInv, KeptInv, NEW h \in Handlers, HandlerStep(h)
  PROVE  job' \in [Handlers -> Jobs] /\ Moves(h) /\ Others(h)
<1>a. job \in [Handlers -> Jobs] /\ job[h] \in Jobs
  BY DEF TypeOK
<1>r. ASSUME Reply(h), job[h].pc \in {"get", "run"}, UNCHANGED dapVars
      PROVE  job' \in [Handlers -> Jobs] /\ Moves(h) /\ Others(h)
  <2>1. Set(h, Idle)
    BY <1>r DEF Reply
  <2> QED
    BY <2>1, <1>r, <1>a, IdleJob, SetFields DEF Moves, Idles, Others
<1>1. CASE Inspect(h)
  <2> DEFINE j == [job[h] EXCEPT !.pc = "get"]
  <2>1. Set(h, j) /\ job[h].pc = "lock"
    BY <1>1 DEF Inspect
  <2>2. j \in Jobs /\ j.pc = "get" /\ j.kind = job[h].kind /\ j.via = job[h].via /\ j.plan = job[h].plan
    BY <1>a DEF Jobs
  <2> HIDE DEF j
  <2> QED
    BY <2>1, <2>2, <1>a, SetFields DEF Moves, Enters, Others
<1>2. CASE Lookup(h)
  <2> DEFINE k == job[h].kind
             s == Get(job[h].want)
  <2>1. job[h].pc = "get" /\ UNCHANGED dapVars
    BY <1>2 DEF Lookup
  <2>2. CASE Reply(h)
    BY <2>1, <2>2, <1>r
  <2>3. CASE ~Reply(h)
    <3> DEFINE f == IF k = "source" THEN loc[s] ELSE None
               r == IF k \in {"fields", "printref"} THEN kept[h].ref ELSE None
               d == IF k \in {"fields", "printref"}
                    THEN {<<kept[h].sess, kept[h].stop>>} ELSE {}
               J(p) == [job[h] EXCEPT !.pc = "run", !.want = NoSess, !.sess = s, !.plan = p,
                                      !.frame = f, !.ref = r, !.data = d]
    <3>1. s # NoSess
      BY <1>2, <2>3 DEF Lookup
    <3>2. PICK p \in IF k = "source" THEN SourcePlan(s) ELSE {Plan(k, s)} : Set(h, J(p))
      BY <1>2, <2>3 DEF Lookup
    <3>3. s \in Sessions
      BY <3>1 DEF Get, TypeOK
    <3>4. k \in Commands
      BY <2>1, ConstantFacts DEF ShapeInv, Issues
    <3>5. /\ Chain(k, p) /\ (p # <<>> => Head(p) # "record")
          /\ k \in Brings => p # <<>> /\ Head(p) = "vars"
      <4>1. CASE k = "source"
        BY <4>1, <3>2, SourceChain DEF Brings
      <4>2. CASE k # "source"
        BY <4>2, <3>2, <3>4, PlanChain
      <4> QED
        BY <4>1, <4>2
    <3>6. p \in Seq(Steps)
      BY <3>5 DEF Chain
    <3>7. loc[s] \in 0..MaxStops
      BY <3>3 DEF TypeOK
    <3>8. kept[h].ref \in Nat /\ kept[h].stop \in 0..MaxStops
      BY DEF TypeOK
    <3>9. k \in Brings => kept[h].sess \in Sessions
      BY DEF KeptInv
    <3>10. k \in Brings => {<<kept[h].sess, kept[h].stop>>} \in SUBSET (Sessions \X (0..MaxStops))
      BY <3>8, <3>9
    <3>11. k \in Kinds \cup {"none"}
      BY <1>a DEF Jobs
    <3>12. f \in 0..MaxStops /\ r \in Nat /\ d \in SUBSET (Sessions \X (0..MaxStops))
      <4>1. {} \in SUBSET (Sessions \X (0..MaxStops))
        OBVIOUS
      <4>2. None \in 0..MaxStops /\ None \in Nat
        BY ConstantFacts DEF None
      <4> QED
        BY <4>1, <4>2, <3>7, <3>8, <3>10 DEF Brings
    <3>15. /\ J(p) \in Jobs /\ J(p).pc = "run" /\ J(p).kind = k /\ J(p).via = job[h].via
           /\ J(p).sess = s /\ J(p).plan = p /\ J(p).frame = f /\ J(p).ref = r /\ J(p).data = d
      <4> HIDE DEF s, f, r, d
      <4> QED
        BY <3>12, <1>a, <3>3, <3>6 DEF Jobs
    <3> HIDE DEF J
    <3>13. job' \in [Handlers -> Jobs] /\ job'[h] = J(p) /\ Others(h)
      BY <3>2, <3>15, <1>a, SetFields DEF Others
    <3>14. Finds(h)
      BY <2>1, <3>3, <3>5, <3>15, <3>13 DEF Finds, Brings
    <3> QED
      BY <3>13, <3>14 DEF Moves
  <2> QED
    BY <2>2, <2>3
<1>3. CASE Trace(h)
  <2> DEFINE step == Head(job[h].plan)
             s == job[h].sess
             f == IF step = "class" THEN job[h].frame ELSE stop[s]
             d == IF step = "frame" THEN job[h].data ELSE Seen(h)
             j == [job[h] EXCEPT !.frame = f, !.data = d]
  <2>1. At(h, Traces) /\ ~running[s] /\ Advance(h, j) /\ UNCHANGED <<stop, running>>
    BY <1>3 DEF Trace, Stopped
  <2>2. f \in 0..MaxStops /\ d \in SUBSET (Sessions \X (0..MaxStops))
    BY <2>1, <1>a, RunFacts, ConstantFacts DEF Jobs
  <2>3. /\ j \in Jobs /\ j.pc = job[h].pc /\ j.kind = job[h].kind /\ j.via = job[h].via
        /\ j.sess = s /\ j.plan = job[h].plan /\ j.frame = f /\ j.ref = job[h].ref /\ j.data = d
    <3> HIDE DEF f, d
    <3> QED
      BY <2>2, <1>a DEF Jobs
  <2> HIDE DEF j
  <2>4. job' \in [Handlers -> Jobs] /\ Others(h) /\ Goes(h, f, job[h].ref, d)
    BY <2>1, <2>3, <1>a, RunFacts, AdvanceFields DEF Goes, Asks, Learns, Others
  <2> QED
    BY <2>1, <2>4, RunFacts DEF Moves, Makes
<1>4. CASE Scopes(h)
  <2> DEFINE j == [job[h] EXCEPT !.ref = gen[job[h].sess]]
  <2>1. At(h, {"scopes"}) /\ FrameValid(h) /\ Advance(h, j) /\ UNCHANGED dapVars
    BY <1>4 DEF Scopes
  <2>2. /\ j \in Jobs /\ j.pc = job[h].pc /\ j.kind = job[h].kind /\ j.via = job[h].via
        /\ j.sess = job[h].sess /\ j.plan = job[h].plan /\ j.frame = job[h].frame
        /\ j.ref = gen[job[h].sess] /\ j.data = job[h].data
    BY <2>1, <1>a, RunFacts DEF Jobs
  <2> HIDE DEF j
  <2>3. job' \in [Handlers -> Jobs] /\ Others(h)
        /\ Goes(h, job[h].frame, gen[job[h].sess], job[h].data)
    BY <2>1, <2>2, <1>a, RunFacts, AdvanceFields DEF Goes, Asks, Learns, Others
  <2> QED
    BY <2>1, <2>3, RunFacts DEF Moves, Makes
<1>5. CASE Evaluate(h)
  <2> DEFINE s == job[h].sess
             j == [job[h] EXCEPT !.ref = NextGen(s, "evaluate"), !.data = Seen(h)]
  <2>1. At(h, Evals) /\ FrameValid(h) /\ Advance(h, j) /\ UNCHANGED <<stop, running>>
    BY <1>5 DEF Evaluate
  <2>2. gen' = [gen EXCEPT ![s] = NextGen(s, "evaluate")]
    BY <1>5 DEF Evaluate
  <2>3. NextGen(s, "evaluate") \in Nat
    BY <2>1, RunFacts DEF NextGen
  <2>4. gen'[s] = NextGen(s, "evaluate")
    BY <2>1, <2>2, RunFacts DEF TypeOK
  <2>5. /\ j \in Jobs /\ j.pc = job[h].pc /\ j.kind = job[h].kind /\ j.via = job[h].via
        /\ j.sess = job[h].sess /\ j.plan = job[h].plan /\ j.frame = job[h].frame
        /\ j.ref = NextGen(s, "evaluate") /\ j.data = Seen(h)
    BY <2>1, <2>3, <1>a, RunFacts DEF Jobs
  <2> HIDE DEF j
  <2>6. job' \in [Handlers -> Jobs] /\ Others(h) /\ Goes(h, job[h].frame, gen'[s], Seen(h))
    BY <2>1, <2>4, <2>5, <1>a, RunFacts, AdvanceFields DEF Goes, Asks, Learns, Others
  <2> QED
    BY <2>1, <2>6, RunFacts DEF Moves, Makes
<1>6. ASSUME NEW steps, At(h, steps), Advance(h, [job[h] EXCEPT !.data = Seen(h)])
      PROVE  /\ job' \in [Handlers -> Jobs] /\ Others(h)
             /\ Goes(h, job[h].frame, job[h].ref, Seen(h))
  <2> DEFINE j == [job[h] EXCEPT !.data = Seen(h)]
  <2>1. /\ j \in Jobs /\ j.pc = job[h].pc /\ j.kind = job[h].kind /\ j.via = job[h].via
        /\ j.sess = job[h].sess /\ j.plan = job[h].plan /\ j.frame = job[h].frame
        /\ j.ref = job[h].ref /\ j.data = Seen(h)
    BY <1>6, <1>a, RunFacts DEF Jobs
  <2>2. Advance(h, j)
    BY <1>6
  <2> HIDE DEF j
  <2> QED
    BY <2>1, <2>2, <1>6, <1>a, RunFacts, AdvanceFields DEF Goes, Asks, Learns, Others
<1>7. CASE Variables(h)
  <2>1. /\ At(h, Reads) /\ RefValid(h) /\ UNCHANGED dapVars
        /\ Advance(h, [job[h] EXCEPT !.data = Seen(h)])
    BY <1>7 DEF Variables
  <2> QED
    BY <2>1, <1>6, RunFacts DEF Moves, Makes
<1>8. CASE Threads(h)
  <2>1. /\ At(h, {"threads"}) /\ UNCHANGED dapVars
        /\ Advance(h, [job[h] EXCEPT !.data = Seen(h)])
    BY <1>8 DEF Threads
  <2> QED
    BY <2>1, <1>6, RunFacts DEF Moves, Makes
<1>9. ASSUME NEW steps, At(h, steps), Advance(h, job[h])
      PROVE  /\ job' \in [Handlers -> Jobs] /\ Others(h)
             /\ Goes(h, job[h].frame, job[h].ref, job[h].data)
  BY <1>9, <1>a, RunFacts, AdvanceFields DEF Goes, Asks, Learns, Others
<1>10. CASE Fails(h)
  <2> DEFINE k == job[h].kind
             step == Head(job[h].plan)
             all == Traces \cup Evals \cup Reads \cup {"scopes", "threads", "resume", "wait"}
  <2>1. At(h, all) /\ UNCHANGED dapVars
    BY <1>10 DEF Fails
  <2>2. CASE Skipped(step) /\ Advance(h, job[h])
    BY <2>1, <2>2, <1>9 DEF Moves, Makes, Skipped
  <2>3. ASSUME NEW p, Chain(k, p), Set(h, [job[h] EXCEPT !.plan = p])
        PROVE  /\ job' \in [Handlers -> Jobs] /\ Others(h) /\ Asks(h) /\ job'[h].plan = p
               /\ Learns(h, job[h].frame, job[h].ref, job[h].data)
    <3> DEFINE j == [job[h] EXCEPT !.plan = p]
    <3>1. p \in Seq(Steps)
      BY <2>3 DEF Chain
    <3>2. /\ j \in Jobs /\ j.pc = job[h].pc /\ j.kind = job[h].kind /\ j.via = job[h].via
          /\ j.sess = job[h].sess /\ j.plan = p /\ j.frame = job[h].frame
          /\ j.ref = job[h].ref /\ j.data = job[h].data
      BY <3>1, <1>a DEF Jobs
    <3>3. Set(h, j)
      BY <2>3
    <3> HIDE DEF j
    <3> QED
      BY <3>2, <3>3, <2>1, <1>a, RunFacts, SetFields DEF Asks, Learns, Others
  <2>4. CASE /\ k = "eval" /\ step = "evaluate"
             /\ Set(h, [job[h] EXCEPT !.plan = <<"class", "retry">>])
    <3>1. Chain(k, <<"class", "retry">>)
      <4>1. k \notin Brings \cup {"source"}
        BY <2>4 DEF Brings
      <4> QED
        BY <4>1, FailChain
    <3> QED
      BY <3>1, <2>1, <2>3, <2>4 DEF Moves, Makes
  <2>5. CASE Tolerated(k, step) /\ Set(h, [job[h] EXCEPT !.plan = <<>>])
    <3>1. Chain(k, <<>>)
      BY FailChain
    <3> QED
      BY <3>1, <2>1, <2>3, <2>5 DEF Moves, Makes
  <2>6. CASE Reply(h)
    BY <2>1, <2>6, <1>r DEF At
  <2> QED
    BY <1>10, <2>2, <2>4, <2>5, <2>6 DEF Fails
<1>11. CASE Answer(h)
  BY <1>11, <1>r DEF Answer, Answering
<1>12. CASE Resume(h)
  <2> DEFINE j == [job[h] EXCEPT !.frame = stop[job[h].sess]]
  <2>1. At(h, {"resume"}) /\ Advance(h, j)
    BY <1>12 DEF Resume
  <2>2. stop[job[h].sess] \in 0..MaxStops
    BY <2>1, RunFacts, ConstantFacts
  <2>3. /\ j \in Jobs /\ j.pc = job[h].pc /\ j.kind = job[h].kind /\ j.via = job[h].via
        /\ j.sess = job[h].sess /\ j.plan = job[h].plan /\ j.frame = stop[job[h].sess]
        /\ j.ref = job[h].ref /\ j.data = job[h].data
    BY <2>2, <1>a DEF Jobs
  <2> HIDE DEF j
  <2>4. job' \in [Handlers -> Jobs] /\ Others(h)
        /\ Goes(h, stop[job[h].sess], job[h].ref, job[h].data)
    BY <2>1, <2>3, <1>a, RunFacts, AdvanceFields DEF Goes, Asks, Learns, Others
  <2> QED
    BY <2>1, <2>4, RunFacts DEF Moves, Makes
<1>13. CASE Wait(h)
  <2>1. At(h, {"wait"}) /\ Advance(h, job[h]) /\ UNCHANGED dapVars
    BY <1>13 DEF Wait
  <2> QED
    BY <2>1, <1>9, RunFacts DEF Moves, Makes
<1>14. CASE SetLastLocation(h)
  <2>1. At(h, {"record"}) /\ Advance(h, job[h]) /\ UNCHANGED dapVars
    BY <1>14 DEF SetLastLocation
  <2> QED
    BY <2>1, <1>9, RunFacts DEF Moves, Makes
<1>15. CASE ReadSource(h)
  <2>1. At(h, {"read"}) /\ UNCHANGED dapVars
    BY <1>15 DEF ReadSource
  <2>2. CASE Reply(h)
    BY <2>1, <2>2, <1>r DEF At
  <2>3. CASE ~Reply(h)
    <3> DEFINE d == IF job[h].frame = None THEN {} ELSE {<<job[h].sess, job[h].frame>>}
               J(w) == [job[h] EXCEPT !.win = w, !.data = d]
    <3>1. PICK center \in LineArgs, around \in Arounds, n \in FileLengths :
            Advance(h, J(WindowOf(center, around, n)))
      BY <1>15, <2>3 DEF ReadSource
    <3>2. WindowOf(center, around, n) \in
            [start : Nat, end : Nat, center : Nat, around : Nat, n : Nat]
      <4>1. center \in Nat /\ around \in Nat /\ n \in Nat
        BY ConstantFacts
      <4>2. ~(center < around + 1) => center - around - 1 \in Nat
        BY <4>1
      <4> QED
        BY <4>1, <4>2 DEF WindowOf
    <3>3. d \in SUBSET (Sessions \X (0..MaxStops)) /\ d \in {{}, {<<job[h].sess, job[h].frame>>}}
      <4>1. job[h].sess \in Sessions /\ job[h].frame \in 0..MaxStops
        BY <2>1, <1>a, RunFacts DEF Jobs
      <4> QED
        BY <4>1
    <3> HIDE DEF d
    <3>4. ASSUME NEW w \in [start : Nat, end : Nat, center : Nat, around : Nat, n : Nat]
          PROVE  /\ J(w) \in Jobs /\ J(w).pc = job[h].pc /\ J(w).kind = job[h].kind
                 /\ J(w).via = job[h].via /\ J(w).sess = job[h].sess /\ J(w).plan = job[h].plan
                 /\ J(w).frame = job[h].frame /\ J(w).ref = job[h].ref /\ J(w).data = d
      BY <3>3, <1>a DEF Jobs
    <3> HIDE DEF J
    <3>5. job' \in [Handlers -> Jobs] /\ Others(h) /\ Goes(h, job[h].frame, job[h].ref, d)
      BY <3>1, <3>2, <3>4, <2>1, <1>a, RunFacts, AdvanceFields DEF Goes, Asks, Learns, Others
    <3>6. Head(job[h].plan) = "read"
      BY <2>1, RunFacts
    <3>7. \E e \in {{}, {<<job[h].sess, job[h].frame>>}} :
            Goes(h, job[h].frame, job[h].ref, e)
      BY <3>3, <3>5
    <3>8. Makes(h)
      BY <3>6, <3>7, <2>1 DEF Makes
    <3> QED
      BY <3>5, <3>8 DEF Moves
  <2> QED
    BY <2>2, <2>3
<1> QED
  BY <1>1, <1>2, <1>3, <1>4, <1>5, <1>7, <1>8, <1>10, <1>11, <1>12, <1>13, <1>14, <1>15
     DEF HandlerStep

-----------------------------------------------------------------------------
(* What a step does to an adapter.                                         *)

\* References may be dropped, the program resumes, or it stops.
Adapter(s) ==
  \/ stop'[s] = stop[s] /\ running'[s] = running[s] /\ gen'[s] \in {gen[s], gen[s] + 1}
  \/ stop'[s] = stop[s] /\ ~running[s] /\ running'[s] /\ gen'[s] = gen[s] + 1
  \/ running[s] /\ ~running'[s] /\ stop'[s] = stop[s] + 1 /\ gen'[s] = gen[s]

AdapterTypes ==
  /\ stop' \in [Sessions -> 1..MaxStops] /\ running' \in [Sessions -> BOOLEAN]
  /\ gen' \in [Sessions -> Nat \ {0}] /\ evq' \in [Sessions -> Seq({"stopped", "continued"})]

LEMMA AdapterMoves ==
  ASSUME TypeOK, ShapeInv, [Next]_vars
  PROVE  AdapterTypes /\ \A s \in Sessions : Adapter(s)
<1>a. /\ stop \in [Sessions -> 1..MaxStops] /\ running \in [Sessions -> BOOLEAN]
      /\ gen \in [Sessions -> Nat \ {0}] /\ evq \in [Sessions -> Seq({"stopped", "continued"})]
  BY DEF TypeOK
<1>b. MaxStops \in Nat
  BY ConstantFacts
<1>u. ASSUME UNCHANGED dapVars
      PROVE  AdapterTypes /\ \A s \in Sessions : Adapter(s)
  BY <1>u, <1>a DEF dapVars, AdapterTypes, Adapter
<1>g. ASSUME NEW s \in Sessions, NEW request, UNCHANGED <<stop, running, evq>>,
             gen' = [gen EXCEPT ![s] = NextGen(s, request)]
      PROVE  AdapterTypes /\ \A r \in Sessions : Adapter(r)
  <2>1. NextGen(s, request) \in Nat \ {0} /\ NextGen(s, request) \in {gen[s], gen[s] + 1}
    BY <1>a DEF NextGen
  <2> QED
    BY <2>1, <1>g, <1>a DEF AdapterTypes, Adapter
<1>1. CASE UNCHANGED vars
  BY <1>1, <1>u DEF vars, dapVars
<1>2. ASSUME NEW h \in Handlers, NEW k \in Kinds, NEW want \in Wants, Begin(h, k, want)
      PROVE  UNCHANGED dapVars
  BY <1>2 DEF Begin
<1>3. ASSUME NEW s \in Sessions, TargetStops(s)
      PROVE  AdapterTypes /\ \A r \in Sessions : Adapter(r)
  <2>1. /\ running[s] /\ stop[s] < MaxStops /\ stop' = [stop EXCEPT ![s] = stop[s] + 1]
        /\ running' = [running EXCEPT ![s] = FALSE]
        /\ evq' = [evq EXCEPT ![s] = Append(evq[s], "stopped")] /\ gen' = gen
    BY <1>3 DEF TargetStops
  <2>2. stop[s] + 1 \in 1..MaxStops
    BY <2>1, <1>a, <1>b
  <2>3. evq[s] \in Seq({"stopped", "continued"})
    BY <1>a
  <2>4. Append(evq[s], "stopped") \in Seq({"stopped", "continued"})
    BY <2>3
  <2> QED
    BY <2>1, <2>2, <2>4, <1>a DEF AdapterTypes, Adapter
<1>4. ASSUME NEW s \in Sessions, Pump(s)
      PROVE  AdapterTypes /\ \A r \in Sessions : Adapter(r)
  <2>1. evq[s] # <<>> /\ evq' = [evq EXCEPT ![s] = Tail(evq[s])] /\ UNCHANGED <<stop, running, gen>>
    BY <1>4 DEF Pump, HandleStopped, HandleContinued
  <2>2. evq[s] \in Seq({"stopped", "continued"})
    BY <1>a
  <2>3. Tail(evq[s]) \in Seq({"stopped", "continued"})
    BY <2>1, <2>2
  <2> QED
    BY <2>1, <2>3, <1>a DEF AdapterTypes, Adapter
<1>5. ASSUME NEW s \in Sessions, Use(s) \/ StopSession(s)
      PROVE  UNCHANGED dapVars
  BY <1>5 DEF Use, StopSession
<1>6. ASSUME NEW h \in Handlers, HandlerStep(h)
      PROVE  AdapterTypes /\ \A r \in Sessions : Adapter(r)
  <2>1. CASE Inspect(h) \/ Lookup(h) \/ Scopes(h) \/ Variables(h) \/ Threads(h) \/ Fails(h)
             \/ Answer(h) \/ Wait(h) \/ SetLastLocation(h) \/ ReadSource(h)
    BY <2>1, <1>u DEF Inspect, Lookup, Scopes, Variables, Threads, Fails, Answer, Wait,
                      SetLastLocation, ReadSource
  <2>2. CASE Trace(h)
    <3>1. /\ UNCHANGED <<stop, running, evq>> /\ At(h, Traces)
          /\ gen' = [gen EXCEPT ![job[h].sess] = NextGen(job[h].sess, "trace")]
      BY <2>2 DEF Trace
    <3> QED
      BY <3>1, <1>g, RunFacts
  <2>3. CASE Evaluate(h)
    <3>1. /\ UNCHANGED <<stop, running, evq>> /\ At(h, Evals)
          /\ gen' = [gen EXCEPT ![job[h].sess] = NextGen(job[h].sess, "evaluate")]
      BY <2>3 DEF Evaluate
    <3> QED
      BY <3>1, <1>g, RunFacts
  <2>4. CASE Resume(h)
    <3> DEFINE s == job[h].sess
    <3>1. /\ At(h, {"resume"}) /\ ~running[s] /\ running' = [running EXCEPT ![s] = TRUE]
          /\ gen' = [gen EXCEPT ![s] = gen[s] + 1] /\ stop' = stop
          /\ evq' \in {evq, [evq EXCEPT ![s] = Append(evq[s], "continued")]}
      BY <2>4 DEF Resume, Stopped
    <3>2. s \in Sessions
      BY <3>1, RunFacts
    <3> HIDE DEF s
    <3>3. evq[s] \in Seq({"stopped", "continued"})
      BY <3>2, <1>a
    <3>4. Append(evq[s], "continued") \in Seq({"stopped", "continued"})
      BY <3>3
    <3>5. evq' \in [Sessions -> Seq({"stopped", "continued"})]
      BY <3>1, <3>2, <3>4, <1>a
    <3>6. gen[s] + 1 \in Nat \ {0}
      BY <3>2, <1>a
    <3> QED
      BY <3>1, <3>2, <3>5, <3>6, <1>a DEF AdapterTypes, Adapter
  <2> QED
    BY <1>6, <2>1, <2>2, <2>3, <2>4 DEF HandlerStep
<1> QED
  BY <1>1, <1>2, <1>3, <1>4, <1>5, <1>6, <1>u DEF Next

-----------------------------------------------------------------------------
(* Types, shapes and locks.                                                *)

\* The job of a client that issues a command.
LEMMA BeginFields ==
  ASSUME TypeOK, NEW h \in Handlers, NEW k \in Kinds, NEW want \in Wants, Begin(h, k, want)
  PROVE  /\ job' \in [Handlers -> Jobs] /\ Others(h)
         /\ job[h].pc = "idle" /\ Issues(h, k) /\ job'[h].kind = k /\ job'[h].plan = <<>>
         /\ k \in Brings => kept[h].ref # None
         /\ job'[h].pc \in {"lock", "get"}
         /\ job'[h].pc = "lock" => job'[h].via \in Sessions
         /\ job'[h].pc = "get" => job'[h].via = NoSess
<1> DEFINE via == IF Locked(k) THEN Get(want) ELSE NoSess
           pc == IF via = NoSess THEN "get" ELSE "lock"
           j == [Idle EXCEPT !.kind = k, !.want = want, !.via = via, !.pc = pc]
<1>1. Set(h, j) /\ job[h].pc = "idle" /\ Issues(h, k) /\ (k \in Brings => kept[h].ref # None)
  BY DEF Begin, Brings
<1>2. via \in Sessions \cup {NoSess}
  BY DEF Get, TypeOK
<1>3. pc \in {"lock", "get"} /\ (pc = "lock" => via \in Sessions) /\ (pc = "get" => via = NoSess)
  BY <1>2
<1> HIDE DEF via, pc
<1>4. /\ j \in Jobs /\ j.kind = k /\ j.via = via /\ j.pc = pc
  BY <1>2, <1>3, IdleJob, ConstantFacts DEF Jobs
<1>5. j.plan = <<>>
  BY DEF Idle
<1> HIDE DEF j
<1>6. job \in [Handlers -> Jobs]
  BY DEF TypeOK
<1> QED
  BY <1>1, <1>3, <1>4, <1>5, <1>6, SetFields DEF Others

\* A handler's job and reference change by its own steps.
LEMMA OwnChanges ==
  ASSUME TypeOK, ShapeInv, KeptInv, [Next]_vars, NEW h \in Handlers
  PROVE  \/ job'[h] = job[h] /\ kept'[h] = kept[h]
         \/ \E k \in Kinds, want \in Wants : Begin(h, k, want)
         \/ HandlerStep(h)
<1>k. kept \in [Handlers -> [sess : Sessions \cup {NoSess}, stop : 0..MaxStops, ref : Nat]]
  BY DEF TypeOK
<1>1. ASSUME NEW g \in Handlers, g # h, NEW k \in Kinds, NEW want \in Wants, Begin(g, k, want)
      PROVE  job'[h] = job[h] /\ kept'[h] = kept[h]
  BY <1>1, BeginFields DEF Others, Begin
<1>2. ASSUME NEW g \in Handlers, g # h, HandlerStep(g)
      PROVE  job'[h] = job[h] /\ kept'[h] = kept[h]
  <2>1. job'[h] = job[h]
    BY <1>2, JobMoves DEF Others
  <2>2. CASE Answer(g)
    BY <2>1, <2>2, <1>2, <1>k DEF Answer
  <2>3. CASE kept' = kept
    BY <2>1, <2>3
  <2> QED
    BY <2>2, <2>3, <1>2 DEF HandlerStep, Inspect, Lookup, Trace, Scopes, Evaluate, Variables,
       Threads, Fails, Resume, Wait, SetLastLocation, ReadSource
<1>3. ASSUME NEW s \in Sessions, TargetStops(s) \/ Pump(s) \/ Use(s) \/ StopSession(s)
      PROVE  job' = job /\ kept' = kept
  BY <1>3 DEF TargetStops, Pump, HandleStopped, HandleContinued, Use, StopSession
<1>4. UNCHANGED vars => job' = job /\ kept' = kept
  BY DEF vars
<1> QED
  BY <1>1, <1>2, <1>3, <1>4 DEF Next

LEMMA TypeStep ==
  ASSUME TypeOK, ShapeInv, KeptInv, [Next]_vars
  PROVE  TypeOK'
<1>a. AdapterTypes
  BY AdapterMoves
<1>b. /\ live \subseteq Sessions /\ defID \in live \cup {NoSess}
      /\ paused \in [Sessions -> BOOLEAN] /\ loc \in [Sessions -> 0..MaxStops]
      /\ lock \in [Sessions -> Handlers \cup {NoHandler}] /\ job \in [Handlers -> Jobs]
      /\ kept \in [Handlers -> [sess : Sessions \cup {NoSess}, stop : 0..MaxStops, ref : Nat]]
      /\ cmds \in 0..MaxCmds /\ stop \in [Sessions -> 1..MaxStops]
  BY DEF TypeOK
<1>c. MaxCmds \in Nat /\ MaxStops \in Nat
  BY ConstantFacts
<1> DEFINE Rest == /\ live' \subseteq Sessions /\ defID' \in live' \cup {NoSess}
                   /\ paused' \in [Sessions -> BOOLEAN] /\ loc' \in [Sessions -> 0..MaxStops]
                   /\ lock' \in [Sessions -> Handlers \cup {NoHandler}]
                   /\ job' \in [Handlers -> Jobs]
                   /\ kept' \in [Handlers -> [sess : Sessions \cup {NoSess},
                                              stop : 0..MaxStops, ref : Nat]]
                   /\ cmds' \in 0..MaxCmds
<1>1. ASSUME UNCHANGED vars
      PROVE  Rest
  BY <1>1, <1>b DEF vars, mgrVars, sessVars
<1>2. ASSUME NEW h \in Handlers, NEW k \in Kinds, NEW want \in Wants, Begin(h, k, want)
      PROVE  Rest
  <2>1. job' \in [Handlers -> Jobs]
    BY <1>2, BeginFields
  <2>2. cmds' \in 0..MaxCmds
    BY <1>2, <1>b, <1>c DEF Begin
  <2> QED
    BY <2>1, <2>2, <1>2, <1>b DEF Begin, mgrVars, sessVars
<1>3. ASSUME NEW s \in Sessions, TargetStops(s) \/ Pump(s)
      PROVE  Rest
  <2>1. None \in 0..MaxStops
    BY <1>c DEF None
  <2> QED
    BY <2>1, <1>3, <1>b DEF TargetStops, Pump, HandleStopped, HandleContinued, mgrVars, sessVars
<1>4. ASSUME NEW s \in Sessions, Use(s) \/ StopSession(s)
      PROVE  Rest
  <2>1. cmds' \in 0..MaxCmds
    BY <1>4, <1>b, <1>c DEF Use, StopSession
  <2>2. live' \subseteq Sessions /\ defID' \in live' \cup {NoSess}
    BY <1>4, <1>b DEF Use, StopSession
  <2> QED
    BY <2>1, <2>2, <1>4, <1>b DEF Use, StopSession, mgrVars, sessVars
<1>5. ASSUME NEW h \in Handlers, HandlerStep(h)
      PROVE  Rest
  <2>1. job' \in [Handlers -> Jobs]
    BY <1>5, JobMoves
  <2>2. UNCHANGED mgrVars /\ UNCHANGED <<paused, cmds>>
    BY <1>5 DEF HandlerStep, Inspect, Lookup, Trace, Scopes, Evaluate, Variables, Threads,
       Fails, Answer, Resume, Wait, SetLastLocation, ReadSource, sessVars
  <2>3. loc' \in [Sessions -> 0..MaxStops]
    <3>1. CASE SetLastLocation(h)
      <4>1. At(h, {"record"}) /\ loc' = [loc EXCEPT ![job[h].sess] = job[h].frame]
        BY <3>1 DEF SetLastLocation
      <4>2. job[h].frame \in 0..MaxStops /\ job[h].sess \in Sessions
        BY <4>1, RunFacts DEF Jobs
      <4> QED
        BY <4>1, <4>2, <1>b
    <3>2. CASE loc' = loc
      BY <3>2, <1>b
    <3> QED
      BY <3>1, <3>2, <1>5 DEF HandlerStep, Inspect, Lookup, Trace, Scopes, Evaluate, Variables,
         Threads, Fails, Answer, Resume, Wait, ReadSource, sessVars
  <2>4. lock' \in [Sessions -> Handlers \cup {NoHandler}]
    <3>1. CASE Inspect(h)
      BY <3>1, <1>b DEF Inspect
    <3>2. CASE Reply(h)
      BY <3>2, <1>b DEF Reply
    <3>3. CASE lock' = lock
      BY <3>3, <1>b
    <3> QED
      BY <3>1, <3>2, <3>3, <1>5 DEF HandlerStep, Lookup, Trace, Scopes, Evaluate, Variables,
         Threads, Fails, Answer, Resume, Wait, SetLastLocation, ReadSource
  <2>5. kept' \in [Handlers -> [sess : Sessions \cup {NoSess}, stop : 0..MaxStops, ref : Nat]]
    <3>1. CASE Answer(h)
      <4>1. job[h] \in Jobs /\ job[h].pc = "run"
        BY <3>1, <1>b DEF Answer, Answering
      <4>2. job[h].sess \in Sessions /\ job[h].ref \in Nat
        BY <4>1 DEF ShapeInv, Jobs
      <4>3. stop[job[h].sess] \in 0..MaxStops
        BY <4>2, <1>b, <1>c
      <4>4. [sess |-> job[h].sess, stop |-> stop[job[h].sess], ref |-> job[h].ref]
              \in [sess : Sessions \cup {NoSess}, stop : 0..MaxStops, ref : Nat]
        BY <4>2, <4>3
      <4> QED
        BY <4>4, <3>1, <1>b DEF Answer
    <3>2. CASE kept' = kept
      BY <3>2, <1>b
    <3> QED
      BY <3>1, <3>2, <1>5 DEF HandlerStep, Inspect, Lookup, Trace, Scopes, Evaluate, Variables,
         Threads, Fails, Resume, Wait, SetLastLocation, ReadSource
  <2> QED
    BY <2>1, <2>2, <2>3, <2>4, <2>5, <1>b DEF mgrVars
<1>6. Rest
  BY <1>1, <1>2, <1>3, <1>4, <1>5 DEF Next
<1> QED
  BY <1>a, <1>6 DEF TypeOK, AdapterTypes

LEMMA ShapeStep ==
  ASSUME TypeOK, ShapeInv, KeptInv, [Next]_vars
  PROVE  ShapeInv'
<1> SUFFICES ASSUME NEW h \in Handlers
             PROVE  /\ job'[h].pc = "idle" => job'[h] = Idle
                    /\ job'[h].pc # "idle" => Issues(h, job'[h].kind)
                    /\ job'[h].pc = "lock" => job'[h].via \in Sessions
                    /\ job'[h].pc # "run" => job'[h].plan = <<>>
                    /\ job'[h].pc = "run" =>
                         job'[h].sess \in Sessions /\ Chain(job'[h].kind, job'[h].plan)
  BY DEF ShapeInv, Issues
<1>a. /\ job[h].pc # "idle" => Issues(h, job[h].kind)
      /\ job[h].pc # "run" => job[h].plan = <<>>
      /\ job[h].pc = "run" =>
           job[h].sess \in Sessions /\ Chain(job[h].kind, job[h].plan)
  BY DEF ShapeInv
<1>b. Idle.pc = "idle" /\ Idle.plan = <<>>
  BY DEF Idle
<1>1. CASE job'[h] = job[h]
  BY <1>1 DEF ShapeInv
<1>2. ASSUME NEW k \in Kinds, NEW want \in Wants, Begin(h, k, want)
      PROVE  /\ job'[h].pc \in {"lock", "get"} /\ Issues(h, job'[h].kind)
             /\ job'[h].pc = "lock" => job'[h].via \in Sessions
             /\ job'[h].plan = <<>>
  BY <1>2, BeginFields
<1>3. CASE Idles(h)
  BY <1>3, <1>b DEF Idles
<1>4. CASE Enters(h)
  BY <1>4, <1>a DEF Enters
<1>5. CASE Finds(h)
  BY <1>5, <1>a DEF Finds
<1>6. CASE Makes(h)
  <2>1. Asks(h) /\ job'[h].plan \in {Tail(job[h].plan), <<>>, <<"class", "retry">>}
    BY <1>6 DEF Makes, Goes
  <2>2. job'[h].plan = <<"class", "retry">> => Tail(job[h].plan) = <<"class", "retry">>
                                               \/ job[h].kind = "eval"
    BY <1>6 DEF Makes, Goes
  <2>3. /\ job[h].pc = "run" /\ job[h].plan # <<>> /\ job'[h].pc = "run"
        /\ job'[h].kind = job[h].kind /\ job'[h].sess = job[h].sess
    BY <2>1 DEF Asks
  <2>4. Chain(job[h].kind, Tail(job[h].plan))
    BY <2>3, <1>a, TailChain
  <2>5. Chain(job[h].kind, job'[h].plan)
    <3>1. job[h].kind = "eval" => job[h].kind \notin Brings \cup {"source"}
      BY DEF Brings
    <3>2. CASE job'[h].plan = Tail(job[h].plan)
      BY <3>2, <2>4
    <3>3. CASE job'[h].plan = <<>>
      BY <3>3, FailChain
    <3>4. CASE job'[h].plan = <<"class", "retry">> /\ job[h].kind = "eval"
      BY <3>1, <3>4, FailChain
    <3> QED
      BY <2>1, <2>2, <3>2, <3>3, <3>4
  <2> QED
    BY <2>3, <2>5, <1>a
<1>7. HandlerStep(h) => Moves(h)
  BY JobMoves
<1> QED
  BY <1>1, <1>2, <1>3, <1>4, <1>5, <1>6, <1>7, OwnChanges DEF Moves

\* Only a handler changes a lock: it takes a free one, or gives back its own.
LEMMA LockMoves ==
  ASSUME TypeOK, ShapeInv, LockInv, KeptInv, [Next]_vars
  PROVE  \/ lock' = lock
         \/ \E h \in Handlers : /\ Inspect(h) /\ lock' = [lock EXCEPT ![job[h].via] = h]
                                /\ lock[job[h].via] = NoHandler /\ job[h].via \in Sessions
         \/ \E h \in Handlers : /\ HandlerStep(h) /\ job[h].via \in Sessions /\ job'[h] = Idle
                                /\ lock[job[h].via] = h
                                /\ lock' = [lock EXCEPT ![job[h].via] = NoHandler]
<1>r. ASSUME NEW h \in Handlers, HandlerStep(h), Reply(h), job[h].pc \in {"get", "run"}
      PROVE  \/ lock' = lock
             \/ /\ job[h].via \in Sessions /\ job'[h] = Idle /\ lock[job[h].via] = h
                /\ lock' = [lock EXCEPT ![job[h].via] = NoHandler]
  <2>1. job'[h] = Idle
    BY <1>r DEF Reply, Set, TypeOK
  <2>2. job[h].via \in Sessions \cup {NoSess}
    BY DEF TypeOK, Jobs
  <2> QED
    BY <2>1, <2>2, <1>r DEF Reply, LockInv
<1>1. ASSUME NEW h \in Handlers, HandlerStep(h)
      PROVE  \/ lock' = lock
             \/ /\ Inspect(h) /\ lock' = [lock EXCEPT ![job[h].via] = h]
                /\ lock[job[h].via] = NoHandler /\ job[h].via \in Sessions
             \/ /\ job[h].via \in Sessions /\ job'[h] = Idle /\ lock[job[h].via] = h
                /\ lock' = [lock EXCEPT ![job[h].via] = NoHandler]
  <2>1. CASE Inspect(h)
    BY <2>1 DEF Inspect, ShapeInv
  <2>2. CASE Lookup(h)
    BY <2>2, <1>1, <1>r DEF Lookup
  <2>3. CASE Fails(h)
    BY <2>3, <1>1, <1>r DEF Fails, At
  <2>4. CASE Answer(h)
    BY <2>4, <1>1, <1>r DEF Answer, Answering
  <2>5. CASE ReadSource(h)
    BY <2>5, <1>1, <1>r DEF ReadSource, At
  <2> QED
    BY <1>1, <2>1, <2>2, <2>3, <2>4, <2>5 DEF HandlerStep, Trace, Scopes, Evaluate, Variables,
       Threads, Resume, Wait, SetLastLocation
<1>2. ASSUME NEW s \in Sessions, TargetStops(s) \/ Pump(s) \/ Use(s) \/ StopSession(s)
      PROVE  lock' = lock
  BY <1>2 DEF TargetStops, Pump, HandleStopped, HandleContinued, Use, StopSession
<1>3. ASSUME NEW h \in Handlers, NEW k \in Kinds, NEW want \in Wants, Begin(h, k, want)
      PROVE  lock' = lock
  BY <1>3 DEF Begin
<1>4. UNCHANGED vars => lock' = lock
  BY DEF vars
<1> QED
  BY <1>1, <1>2, <1>3, <1>4 DEF Next

LEMMA LockStep ==
  ASSUME TypeOK, ShapeInv, LockInv, KeptInv, [Next]_vars
  PROVE  LockInv'
<1> SUFFICES ASSUME NEW h \in Handlers, job'[h].pc \in {"get", "run"}, job'[h].via # NoSess
             PROVE  lock'[job'[h].via] = h
  BY DEF LockInv
<1>a. lock \in [Sessions -> Handlers \cup {NoHandler}] /\ NoHandler \notin Handlers
  BY ConstantFacts DEF TypeOK
<1>b. job'[h].via \in Sessions
  BY TypeStep DEF TypeOK, Jobs
<1>c. Idle.pc = "idle"
  BY DEF Idle
<1>1. \/ job[h].pc \in {"get", "run"} /\ job'[h].via = job[h].via
      \/ Inspect(h) /\ job'[h].via = job[h].via
  <2>1. CASE job'[h] = job[h]
    BY <2>1
  <2>2. ASSUME NEW k \in Kinds, NEW want \in Wants, Begin(h, k, want)
        PROVE  FALSE
    BY <2>2, BeginFields
  <2>3. CASE HandlerStep(h)
    <3>1. Moves(h)
      BY <2>3, JobMoves
    <3>2. CASE Enters(h)
      <4>1. Inspect(h)
        BY <2>3, <3>2 DEF Enters, HandlerStep, Lookup, Trace, Scopes, Evaluate, Variables,
           Threads, Fails, Answer, Answering, Resume, Wait, SetLastLocation, ReadSource, At
      <4> QED
        BY <4>1, <3>2 DEF Enters
    <3>3. CASE Idles(h)
      BY <3>3, <1>c DEF Idles
    <3>4. CASE Finds(h)
      BY <3>4 DEF Finds
    <3>5. CASE Makes(h)
      BY <3>5 DEF Makes, Goes, Asks
    <3> QED
      BY <3>1, <3>2, <3>3, <3>4, <3>5 DEF Moves
  <2> QED
    BY <2>1, <2>2, <2>3, OwnChanges
<1>2. CASE Inspect(h) /\ job'[h].via = job[h].via
  BY <1>2, <1>a, <1>b DEF Inspect
<1>3. CASE job[h].pc \in {"get", "run"} /\ job'[h].via = job[h].via
  <2>1. lock[job[h].via] = h
    BY <1>3 DEF LockInv
  <2>2. CASE lock' = lock
    BY <2>1, <2>2, <1>3
  <2>3. ASSUME NEW g \in Handlers, lock' = [lock EXCEPT ![job[g].via] = g],
               lock[job[g].via] = NoHandler, job[g].via \in Sessions
        PROVE  lock'[job'[h].via] = h
    BY <2>1, <2>3, <1>3, <1>a, <1>b
  <2>4. ASSUME NEW g \in Handlers, job[g].via \in Sessions, job'[g] = Idle,
               lock[job[g].via] = g, lock' = [lock EXCEPT ![job[g].via] = NoHandler]
        PROVE  lock'[job'[h].via] = h
    <3>1. g # h
      BY <2>4, <1>c
    <3> QED
      BY <3>1, <2>1, <2>4, <1>3, <1>a, <1>b
  <2> QED
    BY <2>2, <2>3, <2>4, LockMoves
<1> QED
  BY <1>1, <1>2, <1>3

LEMMA KeptStep ==
  ASSUME TypeOK, ShapeInv, KeptInv, [Next]_vars
  PROVE  KeptInv'
<1> SUFFICES ASSUME NEW h \in Handlers
             PROVE  /\ job'[h].kind \in Brings => kept'[h].ref # None
                    /\ kept'[h].ref # None => kept'[h].sess \in Sessions
  BY DEF KeptInv
<1>a. /\ job[h].kind \in Brings => kept[h].ref # None
      /\ kept[h].ref # None => kept[h].sess \in Sessions
  BY DEF KeptInv
<1>b. Idle.kind \notin Brings
  BY DEF Idle, Brings
<1>1. CASE job'[h] = job[h] /\ kept'[h] = kept[h]
  BY <1>1, <1>a
<1>2. ASSUME NEW k \in Kinds, NEW want \in Wants, Begin(h, k, want)
      PROVE  /\ job'[h].kind \in Brings => kept'[h].ref # None
             /\ kept'[h].ref # None => kept'[h].sess \in Sessions
  <2>1. kept' = kept
    BY <1>2 DEF Begin
  <2> QED
    BY <2>1, <1>2, <1>a, BeginFields
<1>3. CASE HandlerStep(h)
  <2>1. CASE Answer(h)
    <3>1. job'[h] = Idle
      BY <2>1 DEF Answer, Reply, Set, TypeOK
    <3>2. job[h].sess \in Sessions
      BY <2>1 DEF Answer, Answering, ShapeInv
    <3>3. kept'[h] = IF job[h].ref = None THEN kept[h]
                     ELSE [sess |-> job[h].sess, stop |-> stop[job[h].sess], ref |-> job[h].ref]
      BY <2>1 DEF Answer, TypeOK
    <3> QED
      BY <3>1, <3>2, <3>3, <1>a, <1>b
  <2>2. CASE kept' = kept
    <3>1. Moves(h)
      BY <1>3, JobMoves
    <3>2. job'[h].kind \in Brings => job'[h].kind = job[h].kind
      BY <3>1, <1>b DEF Moves, Idles, Enters, Finds, Makes, Goes, Asks
    <3> QED
      BY <3>2, <2>2, <1>a
  <2> QED
    BY <1>3, <2>1, <2>2 DEF HandlerStep, Inspect, Lookup, Trace, Scopes, Evaluate, Variables,
       Threads, Fails, Resume, Wait, SetLastLocation, ReadSource
<1> QED
  BY <1>1, <1>2, <1>3, OwnChanges

-----------------------------------------------------------------------------
(* One stop in one answer.                                                 *)

\* The numbers of a job, and those of a session.
LEMMA JobNumbers ==
  ASSUME NEW j \in Jobs
  PROVE  j.ref \in Nat /\ j.frame \in Nat /\ \A d \in Own(j) : d[2] \in Nat
BY ConstantFacts DEF Jobs, Own

LEMMA SessionNumbers ==
  ASSUME TypeOK, ShapeInv, [Next]_vars, NEW s \in Sessions
  PROVE  /\ stop[s] \in Nat /\ running[s] \in BOOLEAN /\ gen[s] \in Nat /\ gen[s] > 0
         /\ stop'[s] \in Nat /\ running'[s] \in BOOLEAN /\ gen'[s] \in Nat /\ gen'[s] > 0
         /\ Adapter(s)
<1>1. AdapterTypes /\ Adapter(s)
  BY AdapterMoves
<1>2. /\ stop[s] \in 1..MaxStops /\ running[s] \in BOOLEAN /\ gen[s] \in Nat \ {0}
  BY DEF TypeOK
<1>3. /\ stop'[s] \in 1..MaxStops /\ running'[s] \in BOOLEAN /\ gen'[s] \in Nat \ {0}
  BY <1>1 DEF AdapterTypes
<1>4. MaxStops \in Nat
  BY ConstantFacts
<1> QED
  BY <1>1, <1>2, <1>3, <1>4

\* A reference stays in the past, and a valid one keeps its stop.
LEMMA RefAges ==
  ASSUME TypeOK, ShapeInv, [Next]_vars, NEW s \in Sessions, NEW r \in Nat,
         RefPast(r, running[s], gen[s])
  PROVE  /\ RefPast(r, running'[s], gen'[s]) /\ stop[s] <= stop'[s]
         /\ r = gen'[s] => r = gen[s] /\ stop'[s] = stop[s]
BY SessionNumbers DEF RefPast, Adapter

LEMMA StopGrows ==
  ASSUME TypeOK, ShapeInv, [Next]_vars, NEW s \in Sessions
  PROVE  stop[s] <= stop'[s]
BY SessionNumbers DEF Adapter

LEMMA RefStep ==
  ASSUME TypeOK, ShapeInv, KeptInv, RefInv, AnswerInv, [Next]_vars
  PROVE  RefInv'
<1> SUFFICES ASSUME NEW h \in Handlers, kept'[h].ref # None
             PROVE  KeptOk(kept'[h], stop'[kept'[h].sess], running'[kept'[h].sess],
                           gen'[kept'[h].sess])
  BY DEF RefInv
<1>1. CASE kept'[h] = kept[h]
  <2> DEFINE s == kept[h].sess
  <2>1. s \in Sessions /\ kept[h].ref \in Nat /\ kept[h].stop \in Nat
    BY <1>1, ConstantFacts DEF KeptInv, TypeOK
  <2>2. KeptOk(kept[h], stop[s], running[s], gen[s])
    BY <1>1 DEF RefInv
  <2> HIDE DEF s
  <2>3. KeptOk(kept[h], stop'[s], running'[s], gen'[s])
    BY <2>1, <2>2, RefAges, SessionNumbers DEF KeptOk
  <2> QED
    BY <2>3, <1>1 DEF s
<1>2. CASE Answer(h) /\ kept'[h] # kept[h]
  <2> DEFINE s == job[h].sess
             k == [sess |-> s, stop |-> stop[s], ref |-> job[h].ref]
  <2>1. job[h].pc = "run" /\ job[h].plan = <<>> /\ UNCHANGED dapVars
    BY <1>2 DEF Answer, Answering
  <2>2. kept'[h] = k
    BY <1>2 DEF Answer, TypeOK
  <2>3. s \in Sessions
    BY <2>1 DEF ShapeInv
  <2>4. RefPast(job[h].ref, running[s], gen[s])
    BY <2>1 DEF AnswerInv, RefOk
  <2>5. stop[s] \in Nat
    BY <2>3, SessionNumbers
  <2>6. k.sess = s /\ k.stop = stop[s] /\ k.ref = job[h].ref
    OBVIOUS
  <2>7. UNCHANGED <<stop, running, gen>>
    BY <2>1 DEF dapVars
  <2> HIDE DEF k, s
  <2> QED
    BY <2>2, <2>4, <2>5, <2>6, <2>7 DEF KeptOk
<1>3. \/ kept'[h] = kept[h] \/ Answer(h)
  <2>1. ASSUME NEW k \in Kinds, NEW want \in Wants, Begin(h, k, want)
        PROVE  kept' = kept
    BY <2>1 DEF Begin
  <2>2. HandlerStep(h) => Answer(h) \/ kept' = kept
    BY DEF HandlerStep, Inspect, Lookup, Trace, Scopes, Evaluate, Variables,
       Threads, Fails, Resume, Wait, SetLastLocation, ReadSource
  <2> QED
    BY <2>1, <2>2, OwnChanges
<1> QED
  BY <1>1, <1>2, <1>3

\* An answer in the making is not disturbed by what others do to the session.
LEMMA AnswerAges ==
  ASSUME TypeOK, ShapeInv, [Next]_vars, NEW j \in Jobs, NEW s \in Sessions, j.sess = s,
         DataOk(j, stop[s]), RefOk(j, stop[s], running[s], gen[s])
  PROVE  DataOk(j, stop'[s]) /\ RefOk(j, stop'[s], running'[s], gen'[s])
<1>1. stop[s] \in Nat /\ stop'[s] \in Nat /\ stop[s] <= stop'[s]
  BY SessionNumbers, StopGrows
<1>2. j.ref \in Nat /\ j.frame \in Nat /\ \A d \in Own(j) : d[2] \in Nat
  BY JobNumbers
<1>3. DataOk(j, stop'[s])
  BY <1>1, <1>2 DEF DataOk
<1>4. RefOk(j, stop'[s], running'[s], gen'[s])
  <2>1. CASE RefPast(j.ref, running[s], gen[s]) /\ (j.ref = gen[s] => \A d \in Own(j) : d[2] = stop[s])
    BY <2>1, <1>2, RefAges DEF RefOk
  <2>2. CASE ~(RefPast(j.ref, running[s], gen[s]) /\ (j.ref = gen[s] => \A d \in Own(j) : d[2] = stop[s]))
    BY <2>2 DEF RefOk
  <2> QED
    BY <2>1, <2>2
<1> QED
  BY <1>3, <1>4

\* The session is found: nothing is shown yet, or only where the client's reference
\* is from.
LEMMA FindsAnswer ==
  ASSUME TypeOK, ShapeInv, KeptInv, RefInv, LocInv, [Next]_vars, NEW h \in Handlers,
         job'[h] \in Jobs, Finds(h)
  PROVE  LET s == job'[h].sess
         IN  DataOk(job'[h], stop'[s]) /\ RefOk(job'[h], stop'[s], running'[s], gen'[s])
<1> DEFINE j == job'[h]
           s == j.sess
<1>1. /\ s \in Sessions /\ Chain(j.kind, j.plan) /\ j.kind = job[h].kind
      /\ UNCHANGED <<stop, running, gen>>
  BY DEF Finds, dapVars
<1>2. stop[s] \in Nat /\ running[s] \in BOOLEAN /\ gen[s] \in Nat /\ gen[s] > 0
  BY <1>1, SessionNumbers
<1>3. CASE /\ j.kind \in Brings /\ j.plan # <<>> /\ Head(j.plan) = "vars"
           /\ j.frame = None /\ j.ref = kept[h].ref
           /\ j.data = {<<kept[h].sess, kept[h].stop>>}
  <2>1. kept[h].ref # None /\ kept[h].sess \in Sessions
    BY <1>1, <1>3 DEF KeptInv
  <2>2. kept[h].ref \in Nat /\ kept[h].stop \in Nat
    BY ConstantFacts DEF TypeOK
  <2>3. ~ \E i \in DOMAIN j.plan : j.plan[i] \in Starts
    BY <1>1, <1>3 DEF Chain, OwnSteps
  <2>4. CASE kept[h].sess = s
    <3>1. KeptOk(kept[h], stop[s], running[s], gen[s])
      BY <2>1, <2>4 DEF RefInv
    <3>2. \A d \in Own(j) : d = <<kept[h].sess, kept[h].stop>>
      BY <1>3 DEF Own
    <3>3. \A d \in Own(j) : d[2] = kept[h].stop
      BY <3>2
    <3> HIDE DEF j, s
    <3>4. DataOk(j, stop[s])
      BY <3>1, <3>3, <2>2, <2>3, <1>2, <1>3 DEF DataOk, KeptOk, None, Brings
    <3>5. RefOk(j, stop[s], running[s], gen[s])
      BY <3>1, <3>3, <1>3 DEF RefOk, KeptOk
    <3> QED
      BY <3>4, <3>5, <1>1 DEF j, s
  <2>5. CASE kept[h].sess # s
    <3>1. Own(j) = {}
      BY <2>5, <1>3 DEF Own
    <3> HIDE DEF j, s
    <3>2. DataOk(j, stop[s]) /\ RefOk(j, stop[s], running[s], gen[s])
      BY <3>1, <2>3, <1>2, <1>3 DEF DataOk, RefOk, None, Brings
    <3> QED
      BY <3>2, <1>1 DEF j, s
  <2> QED
    BY <2>4, <2>5
<1>4. CASE j.frame \in {None, loc[s]} /\ j.ref = None /\ j.data = {}
  <2>1. loc[s] <= stop[s]
    BY <1>1 DEF LocInv
  <2>2. Own(j) = {}
    BY <1>4 DEF Own
  <2> HIDE DEF j, s
  <2>3. DataOk(j, stop[s]) /\ RefOk(j, stop[s], running[s], gen[s])
    BY <2>1, <2>2, <1>2, <1>4 DEF DataOk, RefOk, RefPast, None
  <2> QED
    BY <2>3, <1>1 DEF j, s
<1> QED
  BY <1>3, <1>4 DEF Finds

\* A request: what it adds is of the stop that the answer already shows.
LEMMA MakesAnswer ==
  ASSUME TypeOK, ShapeInv, AnswerInv, ~Reuse, [Next]_vars, NEW h \in Handlers,
         job'[h] \in Jobs, Makes(h)
  PROVE  LET s == job[h].sess
         IN  DataOk(job'[h], stop'[s]) /\ RefOk(job'[h], stop'[s], running'[s], gen'[s])
<1> DEFINE j == job[h]
           i == job'[h]
           s == j.sess
           p == j.plan
           step == Head(p)
<1> SUFFICES DataOk(i, stop'[s]) /\ RefOk(i, stop'[s], running'[s], gen'[s])
  OBVIOUS
<1>1. Asks(h)
  BY DEF Makes, Goes
<1>2. j.pc = "run" /\ p # <<>> /\ i.kind = j.kind /\ i.sess = s
  BY <1>1 DEF Asks
<1>3. s \in Sessions /\ Chain(j.kind, p) /\ j \in Jobs
  BY <1>2 DEF ShapeInv, TypeOK
<1>4. DataOk(j, stop[s]) /\ RefOk(j, stop[s], running[s], gen[s])
  BY <1>2 DEF AnswerInv
<1>5. /\ stop[s] \in Nat /\ running[s] \in BOOLEAN /\ gen[s] \in Nat /\ gen[s] > 0
      /\ stop'[s] \in Nat /\ running'[s] \in BOOLEAN /\ gen'[s] \in Nat /\ stop[s] <= stop'[s]
  BY <1>3, SessionNumbers, StopGrows
<1>6. /\ \A n \in DOMAIN Tail(p) : n + 1 \in DOMAIN p /\ Tail(p)[n] = p[n + 1]
      /\ step \notin Quiet => \A n \in DOMAIN Tail(p) : Tail(p)[n] \notin Starts
  <2> HIDE DEF p, s, i, j
  <2> QED
    BY <1>2, <1>3, TailChain
<1>7. 1 \in DOMAIN p /\ p[1] = step
  <2>1. p \in Seq(Steps)
    BY <1>3 DEF Chain
  <2> QED
    BY <2>1, <1>2
<1>8. j.ref \in Nat /\ j.frame \in Nat /\ \A d \in Own(j) : d[2] \in Nat
  BY <1>3, JobNumbers
<1>9. step \in Starts => j.data = {} /\ j.kind \notin Brings
  BY <1>3, <1>4, <1>7 DEF DataOk, Chain, OwnSteps
<1>10. \/ RefPast(j.ref, running[s], gen[s]) /\ (j.ref = gen[s] => \A d \in Own(j) : d[2] = stop[s])
       \/ j.kind \in Brings /\ Own(j) = {} /\ step = "vars"
  BY <1>4 DEF RefOk
<1>11. /\ j.frame <= stop[s] /\ (\A d \in Own(j) : j.frame <= d[2] /\ d[2] <= stop[s])
       /\ \A d, e \in Own(j) : d[2] = e[2]
       /\ (\E n \in DOMAIN p : p[n] \in Starts) => j.data = {}
       /\ j.kind = "source" => j.ref = None
  BY <1>4 DEF DataOk
<1>f. j.kind = "source" <=> step \in {"top", "read"}
  BY <1>3, <1>7 DEF Chain, OwnSteps
<1>r. i.ref = j.ref \/ step \notin {"top", "read"} => (i.kind = "source" => i.ref = None)
  BY <1>2, <1>11, <1>f
<1>12. ASSUME i.plan = Tail(p), i.data = j.data \/ step \notin Quiet
       PROVE  (\E n \in DOMAIN i.plan : i.plan[n] \in Starts) => i.data = {}
  BY <1>12, <1>6, <1>11
<1>e. i.data = j.data => Own(i) = Own(j)
  BY <1>2 DEF Own
<1>s. i.data = Seen(h) =>
        \A d \in Own(i) : d \in Own(j) \/ (d = <<s, stop[s]>> /\ d[2] = stop[s])
  BY <1>2 DEF Own, Seen
<1>v. FrameValid(h) => j.frame = stop[s] /\ ~running[s] /\ \A d \in Own(j) : d[2] = stop[s]
  BY <1>5, <1>8, <1>11 DEF FrameValid, Stopped
<1>d. UNCHANGED dapVars => stop' = stop /\ running' = running /\ gen' = gen
  BY DEF dapVars
<1>q. ASSUME i.plan = Tail(p), i.data = Seen(h), i.frame \in Nat, i.frame <= stop[s],
             \A d \in Own(j) : d[2] = stop[s], stop' = stop, step \notin Quiet,
             i.ref = j.ref \/ step \notin {"top", "read"},
             RefPast(i.ref, running'[s], gen'[s])
      PROVE  DataOk(i, stop'[s]) /\ RefOk(i, stop'[s], running'[s], gen'[s])
  <2>1. \A d \in Own(i) : d[2] = stop[s]
    BY <1>q, <1>s
  <2>2. (\E n \in DOMAIN i.plan : i.plan[n] \in Starts) => i.data = {}
    BY <1>q, <1>12
  <2> HIDE DEF i, j, s, p, step
  <2> QED
    BY <2>1, <2>2, <1>q, <1>r, <1>5 DEF DataOk, RefOk
<1>k. ASSUME i.plan = Tail(p) \/ i.plan = <<>>, i.data = j.data, i.frame = j.frame,
             i.ref = j.ref, UNCHANGED dapVars, step # "vars"
      PROVE  DataOk(i, stop'[s]) /\ RefOk(i, stop'[s], running'[s], gen'[s])
  <2>1. (\E n \in DOMAIN i.plan : i.plan[n] \in Starts) => i.data = {}
    BY <1>k, <1>12
  <2>2. Own(i) = Own(j) /\ stop' = stop /\ running' = running /\ gen' = gen
    BY <1>e, <1>k, <1>d
  <2> HIDE DEF i, j, s, p, step
  <2> QED
    BY <2>1, <2>2, <1>k, <1>r, <1>10, <1>11 DEF DataOk, RefOk
<1>13. CASE /\ step \in Traces /\ ~running[s] /\ UNCHANGED <<stop, running>>
            /\ Goes(h, IF step = "class" THEN j.frame ELSE stop[s], j.ref,
                       IF step = "frame" THEN j.data ELSE Seen(h))
  <2>1. j.data = {} /\ j.kind \notin Brings /\ step # "vars"
    BY <1>13, <1>9 DEF Starts, Traces
  <2>2. RefPast(j.ref, running[s], gen[s]) /\ Own(j) = {}
    BY <2>1, <1>10 DEF Own
  <2>3. RefPast(j.ref, running'[s], gen'[s])
    BY <2>2, <1>3, <1>8, RefAges
  <2>4. i.plan = Tail(p) /\ i.ref = j.ref /\ i.frame \in {j.frame, stop[s]}
    BY <1>13 DEF Goes, Learns
  <2>5. i.frame \in Nat /\ i.frame <= stop[s]
    BY <2>4, <1>5, <1>8, <1>11
  <2>6. CASE step = "frame"
    <3>1. i.data = {} /\ Own(i) = {}
      BY <2>1, <2>6, <1>13 DEF Goes, Learns, Own
    <3> HIDE DEF i, j, s, p, step
    <3> QED
      BY <3>1, <2>3, <2>4, <2>5, <1>13, <1>r DEF DataOk, RefOk
  <2>7. CASE step # "frame"
    <3>1. i.data = Seen(h) /\ step \notin Quiet
      BY <2>7, <1>13 DEF Goes, Learns, Quiet, Traces
    <3> QED
      BY <3>1, <2>2, <2>3, <2>4, <2>5, <1>13, <1>q
  <2> QED
    BY <2>6, <2>7
<1>14. CASE step = "scopes" /\ FrameValid(h) /\ Goes(h, j.frame, gen[s], j.data) /\ UNCHANGED dapVars
  <2>1. i.plan = Tail(p) /\ i.frame = j.frame /\ i.ref = gen[s] /\ i.data = j.data
    BY <1>14 DEF Goes, Learns
  <2>2. (\E n \in DOMAIN i.plan : i.plan[n] \in Starts) => i.data = {}
    BY <2>1, <1>12
  <2>3. Own(i) = Own(j) /\ stop' = stop /\ running' = running /\ gen' = gen
    BY <2>1, <1>e, <1>d, <1>14
  <2>4. ~running[s] /\ \A d \in Own(j) : d[2] = stop[s]
    BY <1>14, <1>v
  <2>5. i.kind = "source" => i.ref = None
    BY <1>14, <1>r
  <2> HIDE DEF i, j, s, p, step
  <2> QED
    BY <2>1, <2>2, <2>3, <2>4, <2>5, <1>5, <1>11 DEF DataOk, RefOk, RefPast
<1>15. CASE step \in Evals /\ FrameValid(h) /\ UNCHANGED <<stop, running>>
            /\ Goes(h, j.frame, gen'[s], Seen(h))
  <2>1. i.plan = Tail(p) /\ i.frame = j.frame /\ i.ref = gen'[s] /\ i.data = Seen(h)
    BY <1>15 DEF Goes, Learns
  <2>2. step \notin Quiet /\ step \notin {"top", "read"}
    BY <1>15 DEF Evals, Quiet
  <2>3. ~running[s] /\ \A d \in Own(j) : d[2] = stop[s]
    BY <1>15, <1>v
  <2>4. RefPast(i.ref, running'[s], gen'[s])
    BY <2>1, <2>3, <1>5, <1>15 DEF RefPast
  <2> QED
    BY <2>1, <2>2, <2>3, <2>4, <1>8, <1>11, <1>15, <1>q
<1>16. CASE step \in Reads /\ RefValid(h) /\ Goes(h, j.frame, j.ref, Seen(h)) /\ UNCHANGED dapVars
  <2>1. i.plan = Tail(p) /\ i.frame = j.frame /\ i.ref = j.ref /\ i.data = Seen(h)
    BY <1>16 DEF Goes, Learns
  <2>2. step \notin Quiet
    BY <1>16 DEF Reads, Quiet
  <2>3. ~running[s] /\ j.ref = gen[s]
    BY <1>16 DEF RefValid, Stopped
  <2>4. \A d \in Own(j) : d[2] = stop[s]
    BY <2>3, <1>10
  <2>5. stop' = stop /\ RefPast(i.ref, running'[s], gen'[s])
    BY <2>1, <2>3, <1>5, <1>16, <1>d DEF RefPast
  <2> QED
    BY <2>1, <2>2, <2>4, <2>5, <1>8, <1>11, <1>q
<1>17. CASE step = "threads" /\ Goes(h, j.frame, j.ref, Seen(h)) /\ UNCHANGED dapVars
  <2>1. i.plan = Tail(p) /\ i.frame = j.frame /\ i.ref = j.ref /\ i.data = Seen(h)
    BY <1>17 DEF Goes, Learns
  <2>2. step \notin Quiet /\ j.data = {} /\ j.kind \notin Brings
    BY <1>17, <1>9 DEF Starts, Quiet
  <2>3. Own(j) = {} /\ RefPast(j.ref, running[s], gen[s])
    BY <2>2, <1>10 DEF Own
  <2>4. stop' = stop /\ running' = running /\ gen' = gen
    BY <1>17, <1>d
  <2> QED
    BY <2>1, <2>2, <2>3, <2>4, <1>8, <1>11, <1>q
<1>18. CASE /\ step \in {"extra", "watch", "wait", "record"} /\ UNCHANGED dapVars
            /\ Goes(h, j.frame, j.ref, j.data)
  <2>1. i.plan = Tail(p) /\ i.frame = j.frame /\ i.ref = j.ref /\ i.data = j.data
    BY <1>18 DEF Goes, Learns
  <2> QED
    BY <2>1, <1>18, <1>k
<1>19. CASE /\ j.kind = "eval" /\ step = "evaluate" /\ Asks(h) /\ UNCHANGED dapVars
            /\ i.plan = <<"class", "retry">> /\ Learns(h, j.frame, j.ref, j.data)
  <2>1. j.data = {} /\ j.kind \notin Brings
    BY <1>19, <1>9 DEF Starts
  <2>2. i.frame = j.frame /\ i.ref = j.ref /\ i.data = {}
    BY <2>1, <1>19 DEF Learns
  <2>3. Own(i) = {} /\ RefPast(j.ref, running[s], gen[s])
    BY <2>1, <2>2, <1>10 DEF Own
  <2>4. stop' = stop /\ running' = running /\ gen' = gen
    BY <1>19, <1>d
  <2> HIDE DEF i, j, s, p, step
  <2> QED
    BY <2>2, <2>3, <2>4, <1>r, <1>11 DEF DataOk, RefOk
<1>20. CASE /\ Tolerated(j.kind, step) /\ Asks(h) /\ UNCHANGED dapVars
            /\ i.plan = <<>> /\ Learns(h, j.frame, j.ref, j.data)
  <2>1. i.frame = j.frame /\ i.ref = j.ref /\ i.data = j.data
    BY <1>20 DEF Learns
  <2>2. CASE step # "vars"
    BY <2>1, <2>2, <1>20, <1>k
  <2>3. CASE step = "vars"
    <3>1. j.kind \notin Brings
      BY <2>3, <1>20 DEF Tolerated, Brings
    <3>2. Own(i) = Own(j) /\ stop' = stop /\ running' = running /\ gen' = gen
      BY <2>1, <1>e, <1>d, <1>20
    <3>3. ~ \E n \in DOMAIN i.plan : i.plan[n] \in Starts
      BY <1>20
    <3> HIDE DEF i, j, s, p, step
    <3> QED
      BY <3>1, <3>2, <3>3, <2>1, <1>r, <1>10, <1>11 DEF DataOk, RefOk
  <2> QED
    BY <2>2, <2>3
<1>21. CASE step = "resume" /\ Goes(h, stop[s], j.ref, j.data)
  <2>1. j.data = {} /\ j.kind \notin Brings
    BY <1>21, <1>9 DEF Starts
  <2>2. i.plan = Tail(p) /\ i.frame = stop[s] /\ i.ref = j.ref /\ i.data = {}
    BY <2>1, <1>21 DEF Goes, Learns
  <2>3. Own(i) = {} /\ RefPast(j.ref, running[s], gen[s])
    BY <2>1, <2>2, <1>10 DEF Own
  <2>4. RefPast(j.ref, running'[s], gen'[s])
    BY <2>3, <1>3, <1>8, RefAges
  <2> HIDE DEF i, j, s, p, step
  <2> QED
    BY <2>2, <2>3, <2>4, <1>r, <1>5 DEF DataOk, RefOk
<1>22. CASE /\ step = "read" /\ UNCHANGED dapVars
            /\ \E d \in {{}, {<<s, j.frame>>}} : Goes(h, j.frame, j.ref, d)
  <2>1. i.plan = Tail(p) /\ i.frame = j.frame /\ i.ref = j.ref /\ i.data \in {{}, {<<s, j.frame>>}}
    BY <1>22 DEF Goes, Learns
  <2>2. \A d \in Own(i) : d = <<s, j.frame>>
    BY <2>1 DEF Own
  <2>3. \A d \in Own(i) : d[2] = j.frame
    BY <2>2
  <2>4. (\E n \in DOMAIN i.plan : i.plan[n] \in Starts) => i.data = {}
    BY <2>1, <1>12, <1>22 DEF Quiet
  <2>5. stop' = stop /\ running' = running /\ gen' = gen
    BY <1>22, <1>d
  <2>6. j.ref = None /\ (i.kind = "source" => i.ref = None)
    BY <2>1, <1>22, <1>f, <1>11
  <2> HIDE DEF i, j, s, p, step
  <2> QED
    BY <2>1, <2>3, <2>4, <2>5, <2>6, <1>5, <1>8, <1>11 DEF DataOk, RefOk, RefPast, None
<1> QED
  BY <1>13, <1>14, <1>15, <1>16, <1>17, <1>18, <1>19, <1>20, <1>21, <1>22 DEF Makes

LEMMA AnswerStep ==
  ASSUME TypeOK, ShapeInv, KeptInv, RefInv, AnswerInv, LocInv, ~Reuse, [Next]_vars
  PROVE  AnswerInv'
<1> SUFFICES ASSUME NEW h \in Handlers, job'[h].pc = "run"
             PROVE  LET s == job'[h].sess
                    IN  DataOk(job'[h], stop'[s]) /\ RefOk(job'[h], stop'[s], running'[s], gen'[s])
  BY DEF AnswerInv
<1>1. job'[h] \in Jobs /\ job[h] \in Jobs
  BY TypeStep DEF TypeOK
<1>2. CASE job'[h] = job[h]
  <2>1. job[h].sess \in Sessions
    BY <1>2 DEF ShapeInv
  <2>2. DataOk(job[h], stop[job[h].sess])
        /\ RefOk(job[h], stop[job[h].sess], running[job[h].sess], gen[job[h].sess])
    BY <1>2 DEF AnswerInv
  <2> QED
    BY <2>1, <2>2, <1>1, <1>2, AnswerAges
<1>3. ASSUME NEW k \in Kinds, NEW want \in Wants, Begin(h, k, want)
      PROVE  FALSE
  BY <1>3, BeginFields
<1>4. CASE HandlerStep(h)
  <2>1. Moves(h)
    BY <1>4, JobMoves
  <2>2. ~Idles(h) /\ ~Enters(h)
    BY DEF Idles, Enters, Idle
  <2>3. CASE Finds(h)
    BY <2>3, <1>1, FindsAnswer
  <2>4. CASE Makes(h)
    <3>1. job'[h].sess = job[h].sess
      BY <2>4 DEF Makes, Goes, Asks
    <3> QED
      BY <3>1, <2>4, <1>1, MakesAnswer
  <2> QED
    BY <2>1, <2>2, <2>3, <2>4 DEF Moves
<1> QED
  BY <1>2, <1>3, <1>4, OwnChanges

-----------------------------------------------------------------------------
(* The recorded location is that of the last stop.                         *)

LEMMA FrameStep ==
  ASSUME TypeOK, ShapeInv, KeptInv, FrameInv, LocInv, [Next]_vars
  PROVE  FrameInv'
<1> SUFFICES ASSUME NEW h \in Handlers, job'[h].pc = "run"
             PROVE  job'[h].frame <= stop'[job'[h].sess]
  BY DEF FrameInv
<1>1. job[h] \in Jobs /\ job'[h] \in Jobs /\ job'[h].sess \in Sessions
  BY TypeStep, ShapeStep DEF TypeOK, ShapeInv
<1>2. job[h].frame \in Nat /\ job'[h].frame \in Nat
  BY <1>1, JobNumbers
<1>3. /\ stop[job'[h].sess] \in Nat /\ stop'[job'[h].sess] \in Nat
      /\ stop[job'[h].sess] <= stop'[job'[h].sess]
  BY <1>1, SessionNumbers, StopGrows
<1>4. job'[h].frame <= stop[job'[h].sess]
  <2>1. CASE job'[h] = job[h]
    BY <2>1 DEF FrameInv
  <2>2. ASSUME NEW k \in Kinds, NEW want \in Wants, Begin(h, k, want)
        PROVE  FALSE
    BY <2>2, BeginFields
  <2>3. CASE HandlerStep(h)
    <3>1. Moves(h)
      BY <2>3, JobMoves
    <3>2. ~Idles(h) /\ ~Enters(h)
      BY DEF Idles, Enters, Idle
    <3>3. CASE Finds(h)
      <4>1. job'[h].frame \in {None, loc[job'[h].sess]}
        BY <3>3 DEF Finds
      <4> QED
        BY <4>1, <1>1, <1>3 DEF LocInv, None
    <3>4. CASE Makes(h)
      <4>1. /\ job[h].pc = "run" /\ job'[h].sess = job[h].sess
            /\ job'[h].frame \in {job[h].frame, stop[job[h].sess]}
        BY <3>4 DEF Makes, Goes, Asks, Learns
      <4>2. job[h].frame <= stop[job[h].sess]
        BY <4>1 DEF FrameInv
      <4> QED
        BY <4>1, <4>2, <1>3
    <3> QED
      BY <3>1, <3>2, <3>3, <3>4 DEF Moves
  <2> QED
    BY <2>1, <2>2, <2>3, OwnChanges
<1> QED
  BY <1>2, <1>3, <1>4

\* With at most one executing client, two of them are one.
LEMMA OneExecutor ==
  ASSUME Cardinality(Executors) <= 1, NEW g \in Executors, NEW h \in Executors
  PROVE  g = h
<1> SUFFICES ASSUME g # h PROVE FALSE
  OBVIOUS
<1>1. IsFiniteSet(Executors)
  BY ConstantFacts, FS_Subset
<1>2. IsFiniteSet({g}) /\ Cardinality({g}) = 1
  BY FS_Singleton
<1>3. Cardinality({g} \cup {h}) = 2
  BY <1>2, FS_AddElement
<1>4. ({g} \cup {h}) \in SUBSET Executors
  OBVIOUS
<1>5. Cardinality({g} \cup {h}) <= Cardinality(Executors) /\ Cardinality(Executors) \in Nat
  BY <1>1, <1>4, FS_Subset, FS_CardinalityType
<1> QED
  BY <1>3, <1>5

\* Only an execution command resumes a program.
LEMMA OnlyResume ==
  ASSUME TypeOK, ShapeInv, [Next]_vars, NEW s \in Sessions, ~running[s], running'[s]
  PROVE  \E g \in Handlers : Resume(g) /\ g \in Executors
<1>1. running' # running
  OBVIOUS
<1>2. ASSUME NEW h \in Handlers, NEW k \in Kinds, NEW want \in Wants, Begin(h, k, want)
      PROVE  running' = running
  BY <1>2 DEF Begin, dapVars
<1>3. ASSUME NEW r \in Sessions, TargetStops(r)
      PROVE  FALSE
  BY <1>3 DEF TargetStops, TypeOK
<1>4. ASSUME NEW r \in Sessions, Pump(r) \/ Use(r) \/ StopSession(r)
      PROVE  running' = running
  BY <1>4 DEF Pump, HandleStopped, HandleContinued, Use, StopSession, dapVars
<1>5. ASSUME NEW h \in Handlers, HandlerStep(h)
      PROVE  running' = running \/ Resume(h)
  BY <1>5 DEF HandlerStep, Inspect, Lookup, Trace, Scopes, Evaluate, Variables, Threads,
     Fails, Answer, Wait, SetLastLocation, ReadSource, dapVars
<1>6. ASSUME NEW h \in Handlers, Resume(h)
      PROVE  h \in Executors
  <2>1. At(h, {"resume"})
    BY <1>6 DEF Resume
  <2>2. Head(job[h].plan) = "resume" /\ Chain(job[h].kind, job[h].plan) /\ job[h].plan # <<>>
        /\ job[h].pc = "run"
    BY <2>1, RunFacts
  <2>3. job[h].plan \in Seq(Steps)
    BY <2>2 DEF Chain
  <2>4. 1 \in DOMAIN job[h].plan /\ job[h].plan[1] = "resume"
    BY <2>2, <2>3
  <2>5. job[h].kind = "exec"
    BY <2>2, <2>4 DEF Chain, OwnSteps
  <2> QED
    BY <2>2, <2>5 DEF ShapeInv, Issues
<1>7. UNCHANGED vars => running' = running
  BY DEF vars, dapVars
<1> QED
  BY <1>1, <1>2, <1>3, <1>4, <1>5, <1>6, <1>7 DEF Next

LEMMA RecordStep ==
  ASSUME TypeOK, ShapeInv, KeptInv, RecordInv, [Next]_vars
  PROVE  RecordInv'
<1> SUFFICES ASSUME Cardinality(Executors) <= 1, NEW h \in Handlers,
                    job'[h].pc = "run", job'[h].plan # <<>>, Head(job'[h].plan) = "record"
             PROVE  job'[h].frame = stop'[job'[h].sess] /\ ~running'[job'[h].sess]
  BY DEF RecordInv, At
<1>1. CASE job'[h] = job[h]
  <2> DEFINE s == job[h].sess
  <2>1. At(h, {"record"})
    BY <1>1 DEF At
  <2>2. s \in Sessions /\ Chain(job[h].kind, job[h].plan)
    BY <2>1, RunFacts
  <2>3. job[h].frame = stop[s] /\ ~running[s]
    BY <2>1 DEF RecordInv
  <2>4. h \in Executors
    <3>1. job[h].plan \in Seq(Steps) /\ job[h].plan # <<>>
      BY <2>2, <1>1 DEF Chain
    <3>2. 1 \in DOMAIN job[h].plan /\ job[h].plan[1] = "record"
      BY <3>1, <1>1
    <3>3. job[h].kind = "exec"
      BY <3>2, <2>2 DEF Chain, OwnSteps
    <3> QED
      BY <3>3, <1>1 DEF ShapeInv, Issues
  <2>5. ASSUME NEW g \in Handlers, Resume(g), g \in Executors
        PROVE  FALSE
    <3>1. g = h
      BY <2>4, <2>5, OneExecutor
    <3> QED
      BY <3>1, <2>5, <1>1 DEF Resume, At
  <2>6. ~running'[s]
    BY <2>2, <2>3, <2>5, OnlyResume
  <2>7. stop'[s] = stop[s]
    BY <2>2, <2>3, <2>6, SessionNumbers DEF Adapter
  <2> QED
    BY <2>3, <2>6, <2>7, <1>1
<1>2. ASSUME NEW k \in Kinds, NEW want \in Wants, Begin(h, k, want)
      PROVE  FALSE
  BY <1>2, BeginFields
<1>3. CASE HandlerStep(h)
  <2>1. Moves(h)
    BY <1>3, JobMoves
  <2>2. ~Idles(h) /\ ~Enters(h) /\ ~Finds(h)
    BY DEF Idles, Enters, Finds, Idle
  <2>3. Makes(h)
    BY <2>1, <2>2 DEF Moves
  <2>4. Asks(h) /\ job'[h].plan \in {Tail(job[h].plan), <<>>, <<"class", "retry">>}
    BY <2>3 DEF Makes, Goes
  <2>5. job'[h].plan # <<"class", "retry">>
    OBVIOUS
  <2>6. job'[h].plan = Tail(job[h].plan)
    BY <2>4, <2>5
  <2>7. job[h].pc = "run" /\ job[h].plan # <<>> /\ job'[h].sess = job[h].sess
    BY <2>4 DEF Asks
  <2>8. Head(job[h].plan) = "locate"
    BY <2>6, <2>7, TailChain DEF ShapeInv
  <2>9. /\ ~running[job[h].sess] /\ UNCHANGED <<stop, running>>
        /\ job'[h].frame = stop[job[h].sess]
    BY <2>3, <2>8 DEF Makes, Goes, Learns, Traces, Evals, Reads, Tolerated
  <2> QED
    BY <2>7, <2>9
<1> QED
  BY <1>1, <1>2, <1>3, OwnChanges

\* An event queue that grows, or loses its head.
LEMMA QueueFacts ==
  ASSUME NEW q \in Seq({"stopped", "continued"}), NEW e \in {"stopped", "continued"}
  PROVE  /\ (\E i \in DOMAIN q : q[i] = "stopped") =>
              \E i \in DOMAIN Append(q, e) : Append(q, e)[i] = "stopped"
         /\ e = "stopped" => \E i \in DOMAIN Append(q, e) : Append(q, e)[i] = "stopped"
         /\ q # <<>> /\ Head(q) = "continued" /\ (\E i \in DOMAIN q : q[i] = "stopped") =>
              \E i \in DOMAIN Tail(q) : Tail(q)[i] = "stopped"
<1>1. /\ Len(q) \in Nat /\ DOMAIN q = 1..Len(q) /\ DOMAIN Append(q, e) = 1..(Len(q) + 1)
      /\ Append(q, e)[Len(q) + 1] = e /\ \A i \in 1..Len(q) : Append(q, e)[i] = q[i]
  OBVIOUS
<1>2. (\E i \in DOMAIN q : q[i] = "stopped") =>
         \E i \in DOMAIN Append(q, e) : Append(q, e)[i] = "stopped"
  <2> SUFFICES ASSUME NEW i \in DOMAIN q, q[i] = "stopped"
               PROVE  \E n \in DOMAIN Append(q, e) : Append(q, e)[n] = "stopped"
    OBVIOUS
  <2>1. i \in DOMAIN Append(q, e) /\ Append(q, e)[i] = q[i]
    BY <1>1
  <2> QED
    BY <2>1
<1>3. e = "stopped" => \E i \in DOMAIN Append(q, e) : Append(q, e)[i] = "stopped"
  <2>1. Len(q) + 1 \in DOMAIN Append(q, e)
    BY <1>1
  <2> QED
    BY <2>1, <1>1
<1>4. ASSUME q # <<>>, Head(q) = "continued", NEW i \in DOMAIN q, q[i] = "stopped"
      PROVE  \E n \in DOMAIN Tail(q) : Tail(q)[n] = "stopped"
  <2>1. i \in 1..Len(q) /\ i # 1
    BY <1>1, <1>4
  <2>2. i - 1 \in 1..(Len(q) - 1) /\ (i - 1) + 1 = i
    BY <2>1, <1>1
  <2>3. DOMAIN Tail(q) = 1..(Len(q) - 1) /\ \A n \in 1..(Len(q) - 1) : Tail(q)[n] = q[n + 1]
    BY <1>4
  <2>4. i - 1 \in DOMAIN Tail(q) /\ Tail(q)[i - 1] = "stopped"
    BY <2>2, <2>3, <1>4
  <2> QED
    BY <2>4
<1> QED
  BY <1>2, <1>3, <1>4

HasStop(q) == \E i \in DOMAIN q : q[i] = "stopped"

\* The location of a session against the stops that are on their way.
LEMMA LocStep ==
  ASSUME TypeOK, ShapeInv, KeptInv, FrameInv, LocInv, RecordInv, [Next]_vars
  PROVE  LocInv'
<1> SUFFICES ASSUME NEW s \in Sessions
             PROVE  /\ loc'[s] <= stop'[s]
                    /\ Cardinality(Executors) <= 1 /\ loc'[s] # None /\ loc'[s] # stop'[s] =>
                         HasStop(evq'[s])
  BY DEF LocInv, HasStop
<1>a. /\ evq \in [Sessions -> Seq({"stopped", "continued"})] /\ evq[s] \in Seq({"stopped", "continued"})
      /\ loc \in [Sessions -> 0..MaxStops] /\ stop \in [Sessions -> 1..MaxStops]
  BY DEF TypeOK
<1>b. /\ loc[s] <= stop[s] /\ loc[s] \in Nat
      /\ Cardinality(Executors) <= 1 /\ loc[s] # None /\ loc[s] # stop[s] => HasStop(evq[s])
  BY <1>a, ConstantFacts DEF LocInv, HasStop
<1>c. stop[s] \in Nat /\ stop'[s] \in Nat /\ stop[s] <= stop'[s]
  BY SessionNumbers, StopGrows
<1>u. ASSUME loc'[s] = loc[s], stop'[s] = stop[s], HasStop(evq[s]) => HasStop(evq'[s])
      PROVE  /\ loc'[s] <= stop'[s]
             /\ Cardinality(Executors) <= 1 /\ loc'[s] # None /\ loc'[s] # stop'[s] =>
                  HasStop(evq'[s])
  BY <1>u, <1>b
<1>1. ASSUME UNCHANGED <<loc, stop, evq>>
      PROVE  /\ loc'[s] <= stop'[s]
             /\ Cardinality(Executors) <= 1 /\ loc'[s] # None /\ loc'[s] # stop'[s] =>
                  HasStop(evq'[s])
  BY <1>1, <1>u
<1>2. ASSUME NEW r \in Sessions, TargetStops(r)
      PROVE  /\ loc'[s] <= stop'[s]
             /\ Cardinality(Executors) <= 1 /\ loc'[s] # None /\ loc'[s] # stop'[s] =>
                  HasStop(evq'[s])
  <2>1. /\ loc' = loc /\ stop' = [stop EXCEPT ![r] = stop[r] + 1]
        /\ evq' = [evq EXCEPT ![r] = Append(evq[r], "stopped")]
    BY <1>2 DEF TargetStops, sessVars
  <2>2. CASE r = s
    <3>1. evq'[s] = Append(evq[s], "stopped")
      BY <2>1, <2>2, <1>a
    <3>2. HasStop(Append(evq[s], "stopped"))
      BY <1>a, QueueFacts DEF HasStop
    <3> QED
      BY <3>1, <3>2, <2>1, <1>b, <1>c
  <2>3. CASE r # s
    BY <2>1, <2>3, <1>a, <1>u
  <2> QED
    BY <2>2, <2>3
<1>3. ASSUME NEW r \in Sessions, HandleStopped(r)
      PROVE  /\ loc'[s] <= stop'[s]
             /\ Cardinality(Executors) <= 1 /\ loc'[s] # None /\ loc'[s] # stop'[s] =>
                  HasStop(evq'[s])
  <2>1. /\ stop' = stop /\ loc' = [loc EXCEPT ![r] = None] /\ evq' = [evq EXCEPT ![r] = Tail(evq[r])]
    BY <1>3 DEF HandleStopped
  <2>2. CASE r = s
    BY <2>1, <2>2, <1>a, <1>c DEF None
  <2>3. CASE r # s
    BY <2>1, <2>3, <1>a, <1>u
  <2> QED
    BY <2>2, <2>3
<1>4. ASSUME NEW r \in Sessions, HandleContinued(r)
      PROVE  /\ loc'[s] <= stop'[s]
             /\ Cardinality(Executors) <= 1 /\ loc'[s] # None /\ loc'[s] # stop'[s] =>
                  HasStop(evq'[s])
  <2>1. /\ stop' = stop /\ loc' = loc /\ evq' = [evq EXCEPT ![r] = Tail(evq[r])]
        /\ evq[r] # <<>> /\ Head(evq[r]) = "continued"
    BY <1>4 DEF HandleContinued
  <2>2. CASE r = s
    <3>1. evq'[s] = Tail(evq[s])
      BY <2>1, <2>2, <1>a
    <3>2. HasStop(evq[s]) => HasStop(Tail(evq[s]))
      BY <2>1, <2>2, <1>a, QueueFacts DEF HasStop
    <3> QED
      BY <3>1, <3>2, <2>1, <1>u
  <2>3. CASE r # s
    BY <2>1, <2>3, <1>a, <1>u
  <2> QED
    BY <2>2, <2>3
<1>5. ASSUME NEW h \in Handlers, Resume(h)
      PROVE  /\ loc'[s] <= stop'[s]
             /\ Cardinality(Executors) <= 1 /\ loc'[s] # None /\ loc'[s] # stop'[s] =>
                  HasStop(evq'[s])
  <2>1. /\ stop' = stop /\ loc' = loc /\ At(h, {"resume"})
        /\ evq' \in {evq, [evq EXCEPT ![job[h].sess] = Append(evq[job[h].sess], "continued")]}
    BY <1>5 DEF Resume, sessVars
  <2>2. evq'[s] = evq[s] \/ evq'[s] = Append(evq[s], "continued")
    BY <2>1, <1>a
  <2>3. HasStop(evq[s]) => HasStop(Append(evq[s], "continued"))
    BY <1>a, QueueFacts DEF HasStop
  <2> QED
    BY <2>1, <2>2, <2>3, <1>u
<1>6. ASSUME NEW h \in Handlers, SetLastLocation(h)
      PROVE  /\ loc'[s] <= stop'[s]
             /\ Cardinality(Executors) <= 1 /\ loc'[s] # None /\ loc'[s] # stop'[s] =>
                  HasStop(evq'[s])
  <2>1. /\ At(h, {"record"}) /\ loc' = [loc EXCEPT ![job[h].sess] = job[h].frame]
        /\ UNCHANGED <<stop, evq>>
    BY <1>6 DEF SetLastLocation, dapVars
  <2>2. job[h].sess \in Sessions /\ job[h].pc = "run"
    BY <2>1, RunFacts
  <2>3. CASE job[h].sess = s
    <3>1. loc'[s] = job[h].frame
      BY <2>1, <2>3, <1>a
    <3>2. job[h].frame <= stop[s]
      BY <2>2, <2>3 DEF FrameInv
    <3>3. Cardinality(Executors) <= 1 => job[h].frame = stop[s]
      BY <2>1, <2>3 DEF RecordInv
    <3> QED
      BY <3>1, <3>2, <3>3, <2>1
  <2>4. CASE job[h].sess # s
    BY <2>1, <2>4, <1>a, <1>u
  <2> QED
    BY <2>3, <2>4
<1>7. ASSUME NEW h \in Handlers, HandlerStep(h), ~Resume(h), ~SetLastLocation(h)
      PROVE  UNCHANGED <<loc, stop, evq>>
  BY <1>7 DEF HandlerStep, Inspect, Lookup, Trace, Scopes, Evaluate, Variables, Threads,
     Fails, Answer, Wait, ReadSource, dapVars, sessVars
<1>8. ASSUME NEW h \in Handlers, NEW k \in Kinds, NEW want \in Wants, Begin(h, k, want)
      PROVE  UNCHANGED <<loc, stop, evq>>
  BY <1>8 DEF Begin, dapVars, sessVars
<1>9. ASSUME NEW r \in Sessions, Use(r) \/ StopSession(r)
      PROVE  UNCHANGED <<loc, stop, evq>>
  BY <1>9 DEF Use, StopSession, dapVars, sessVars
<1>10. UNCHANGED vars => UNCHANGED <<loc, stop, evq>>
  BY DEF vars, dapVars, sessVars
<1> QED
  BY <1>1, <1>2, <1>3, <1>4, <1>5, <1>6, <1>7, <1>8, <1>9, <1>10 DEF Next, Pump

-----------------------------------------------------------------------------
(* The theorems.                                                           *)

LEMMA InvInit == Init => Inv
<1> SUFFICES ASSUME Init PROVE Inv
  OBVIOUS
<1>a. /\ job = [h \in Handlers |-> Idle] /\ loc = [s \in Sessions |-> 1]
      /\ stop = [s \in Sessions |-> 1] /\ live = Sessions /\ defID \in Sessions
      /\ running = [s \in Sessions |-> FALSE] /\ gen = [s \in Sessions |-> 1]
      /\ evq = [s \in Sessions |-> <<>>] /\ paused = [s \in Sessions |-> TRUE]
      /\ lock = [s \in Sessions |-> NoHandler] /\ cmds = 0
      /\ kept = [h \in Handlers |-> [sess |-> NoSess, stop |-> None, ref |-> None]]
  BY DEF Init
<1>b. /\ 1 \in 1..MaxStops /\ 1 \in 0..MaxStops /\ 0 \in 0..MaxStops /\ 0 \in 0..MaxCmds
      /\ 1 \in Nat \ {0}
  BY ConstantFacts
<1>c. <<>> \in Seq({"stopped", "continued"})
  OBVIOUS
<1>d. [sess |-> NoSess, stop |-> None, ref |-> None]
        \in [sess : Sessions \cup {NoSess}, stop : 0..MaxStops, ref : Nat]
  BY <1>b DEF None
<1>e. Idle.pc = "idle" /\ Idle.kind \notin Brings /\ Idle.plan = <<>>
  BY DEF Idle, Brings
<1>1. TypeOK
  BY <1>a, <1>b, <1>c, <1>d, IdleJob DEF TypeOK
<1>2. ShapeInv /\ LockInv /\ AnswerInv /\ FrameInv /\ RecordInv
  BY <1>a, <1>e DEF ShapeInv, LockInv, AnswerInv, FrameInv, RecordInv, At
<1>3. KeptInv /\ RefInv
  BY <1>a, <1>e DEF KeptInv, RefInv
<1>4. LocInv
  BY <1>a DEF LocInv
<1> QED
  BY <1>1, <1>2, <1>3, <1>4 DEF Inv

LEMMA InvNext == Inv /\ [Next]_vars => Inv'
<1> SUFFICES ASSUME Inv, [Next]_vars PROVE Inv'
  OBVIOUS
<1>1. TypeOK /\ ShapeInv /\ LockInv /\ KeptInv /\ FrameInv /\ LocInv /\ RecordInv
  BY DEF Inv
<1>2. TypeOK' /\ ShapeInv' /\ LockInv' /\ KeptInv' /\ FrameInv' /\ LocInv' /\ RecordInv'
  BY <1>1, TypeStep, ShapeStep, LockStep, KeptStep, FrameStep, LocStep, RecordStep
<1>3. ~Reuse => RefInv' /\ AnswerInv'
  BY <1>1, RefStep, AnswerStep DEF Inv
<1> QED
  BY <1>2, <1>3 DEF Inv

\* The inductive invariant.
THEOREM Invariance == Spec => []Inv
BY InvInit, InvNext, PTL DEF Spec

\* Every variable has its type: no request of any chain leaves the sessions, the
\* frames and the references that exist.
THEOREM TypeCorrect == Spec => []TypeOK
<1>1. Inv => TypeOK
  BY DEF Inv
<1> QED
  BY <1>1, Invariance, PTL

\* With adapters that do not hand out an id twice, what an answer shows of its
\* session is of one stop, however the chain of requests was interleaved with
\* resumes, stops, other inspections and changes of the default session.
THEOREM AnswersShowOneStop == Spec => []OneStop
<1>1. Inv => OneStop
  <2> SUFFICES ASSUME Inv, ~Reuse, NEW h \in Handlers, Answering(h),
                      \A d \in job[h].data : d[1] = job[h].sess
               PROVE  Cardinality(job[h].data) <= 1
    BY DEF OneStop
  <2>1. DataOk(job[h], stop[job[h].sess])
    BY DEF Inv, AnswerInv, Answering
  <2>2. \A d, e \in job[h].data : d[1] = e[1] /\ d[2] = e[2]
    BY <2>1 DEF DataOk, Own
  <2>3. job[h].data \in SUBSET (Sessions \X (0..MaxStops))
    BY DEF Inv, TypeOK, Jobs
  <2>4. \A d, e \in job[h].data : d = e
    BY <2>2, <2>3
  <2>5. CASE job[h].data = {}
    BY <2>5, FS_EmptySet
  <2>6. ASSUME NEW d \in job[h].data
        PROVE  Cardinality(job[h].data) <= 1
    <3>1. job[h].data = {d}
      BY <2>4
    <3>2. Cardinality({d}) = 1
      BY FS_Singleton
    <3> QED
      BY <3>1, <3>2
  <2> QED
    BY <2>5, <2>6
<1> QED
  BY <1>1, Invariance, PTL

\* With one executing client, the location that source and state show is that of
\* the last stop the session has heard of.
THEOREM LocationIsCurrent == Spec => []LocationCurrent
<1>1. Inv => LocationCurrent
  BY DEF Inv, LocInv, LocationCurrent
<1> QED
  BY <1>1, Invariance, PTL

\* Two chains never hold the lock of one session together, so that the references
\* of a chain under its session's lock die only by its own requests or by those of
\* a handler without that lock.
THEOREM ChainsUndisturbed == Spec => Undisturbed
<1>1. ASSUME Inv, [Next]_vars, NEW h \in Handlers, OwnLock(h),
             job[h].ref = gen[job[h].sess], job[h].ref # gen'[job[h].sess]
      PROVE  \E g \in Handlers : job'[g] # job[g] /\ (g = h \/ ~OwnLock(g))
  <2>0. TypeOK /\ ShapeInv /\ LockInv /\ KeptInv
    BY <1>1 DEF Inv
  <2>1. PICK g \in Handlers : /\ Trace(g) \/ Evaluate(g) \/ Resume(g)
                              /\ gen'[job[h].sess] # gen[job[h].sess] => job[g].sess = job[h].sess
    <3>1. gen' # gen
      BY <1>1
    <3>2. ASSUME NEW g \in Handlers, NEW k \in Kinds, NEW want \in Wants, Begin(g, k, want)
          PROVE  gen' = gen
      BY <3>2 DEF Begin, dapVars
    <3>3. ASSUME NEW r \in Sessions, TargetStops(r) \/ Pump(r) \/ Use(r) \/ StopSession(r)
          PROVE  gen' = gen
      BY <3>3 DEF TargetStops, Pump, HandleStopped, HandleContinued, Use, StopSession, dapVars
    <3>4. ASSUME NEW g \in Handlers, HandlerStep(g)
          PROVE  gen' = gen \/ Trace(g) \/ Evaluate(g) \/ Resume(g)
      BY <3>4 DEF HandlerStep, Inspect, Lookup, Scopes, Variables, Threads, Fails, Answer, Wait,
         SetLastLocation, ReadSource, dapVars
    <3>5. ASSUME NEW g \in Handlers, Trace(g) \/ Evaluate(g) \/ Resume(g)
          PROVE  gen'[job[h].sess] # gen[job[h].sess] => job[g].sess = job[h].sess
      <4>1. gen \in [Sessions -> Nat \ {0}]
        BY <2>0 DEF TypeOK
      <4>2. job[h].sess \in Sessions
        BY <2>0, <1>1 DEF ShapeInv, OwnLock
      <4> QED
        BY <3>5, <4>1, <4>2 DEF Trace, Evaluate, Resume
    <3>6. UNCHANGED vars => gen' = gen
      BY DEF vars, dapVars
    <3> QED
      BY <1>1, <3>1, <3>2, <3>3, <3>4, <3>5, <3>6 DEF Next
  <2>2. job[g].sess = job[h].sess
    BY <2>1, <1>1
  <2>3. job'[g] # job[g]
    <3>1. HandlerStep(g)
      BY <2>1 DEF HandlerStep
    <3>2. At(g, Traces \cup Evals \cup {"resume"})
      BY <2>1 DEF Trace, Evaluate, Resume, At
    <3>3. job[g].plan # <<>> /\ Chain(job[g].kind, job[g].plan) /\ job[g] \in Jobs
      BY <2>0, <3>2, RunFacts
    <3>4. Moves(g) /\ job[g].pc = "run"
      BY <2>0, <3>1, <3>2, JobMoves DEF At
    <3>5. Tail(job[g].plan) # job[g].plan
      BY <3>3, TailChain
    <3>6. ~Enters(g) /\ ~Finds(g)
      BY <3>4 DEF Enters, Finds
    <3>7. CASE Idles(g)
      BY <3>4, <3>7 DEF Idles, Idle
    <3>8. CASE Makes(g)
      <4>1. \/ job'[g].plan = Tail(job[g].plan)
            \/ job'[g].plan = <<>>
            \/ job'[g].plan = <<"class", "retry">> /\ Head(job[g].plan) = "evaluate"
        BY <3>8 DEF Makes, Goes
      <4>2. job'[g].plan = <<"class", "retry">> => Head(job'[g].plan) = "class"
        OBVIOUS
      <4> QED
        BY <4>1, <4>2, <3>3, <3>5
    <3> QED
      BY <3>4, <3>6, <3>7, <3>8 DEF Moves
  <2>4. g = h \/ ~OwnLock(g)
    <3>1. OwnLock(g) => lock[job[g].via] = g
      BY <2>0 DEF LockInv, OwnLock
    <3>2. lock[job[h].via] = h
      BY <2>0, <1>1 DEF LockInv, OwnLock
    <3> QED
      BY <3>1, <3>2, <2>2, <1>1 DEF OwnLock
  <2> QED
    BY <2>3, <2>4
<1>2. Inv /\ [Next]_vars =>
        [\A h \in Handlers :
           LET s == job[h].sess
           IN  OwnLock(h) /\ OwnLock(h)' /\ job'[h].ref = job[h].ref
               /\ job[h].ref = gen[s] /\ job[h].ref # gen'[s]
               => \E g \in Handlers : job'[g] # job[g] /\ (g = h \/ ~OwnLock(g))]_vars
  BY <1>1
<1> QED
  BY <1>2, Invariance, PTL DEF Spec, Undisturbed

=============================================================================
