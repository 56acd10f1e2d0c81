------------------------- MODULE BreakpointsProofs -------------------------
(***************************************************************************)
(* Proofs about Breakpoints, for any number of clients, cleaning           *)
(* goroutines, breakpoints, lines and filters, with or without failures,   *)
(* and for every way of the adapter to number its breakpoints.             *)
(*                                                                         *)
(* That until cleans up rests on where each goroutine is and for which     *)
(* command (StageInv), and on local ids never being given out again        *)
(* (MineInv, TableInv).  That no breakpoint gets the id of another rests   *)
(* on the adapter's side: a request that still has a caller lists the      *)
(* breakpoints in the order the caller remembers (RequestInv), there is    *)
(* one such request per caller (UniqueInv), and its answer numbers them in *)
(* that order (AnswerInv), with ids that belong to them for good           *)
(* (PlacedInv).                                                            *)
(*                                                                         *)
(* That the adapter and the tables agree, and that a once breakpoint is    *)
(* reported once, is proved for a client that is alone (OneClient): both   *)
(* fail with two.  SyncInv says where in a command the two may differ      *)
(* (LinesInv, FuncsInv, FiltersInv), and follows the program from the      *)
(* resume to the stop the client is told of (ProgramInv, OnceInv).         *)
(***************************************************************************)
EXTENDS Breakpoints, FiniteSetTheorems, TLAPS

\* The commands a goroutine may be busy with at a label.
Does(l) ==
  CASE l = "idle"                                -> {"none"}
    [] l = "put"                                 -> {"break", "until"}
    [] l \in {"read", "send", "setting"}         -> {"break", "until", "unbreak", "clear", "leave"}
    [] l = "writing"                             -> {"break"}
    [] l \in {"resume", "resuming", "waiting"}   -> {"until", "continue"}
    [] l = "locate"                              -> {"continue", "leave"}
    [] l = "remove"                              -> {"unbreak", "clear"}
    [] l \in {"sendex", "settingex"}             -> {"breakex"}
    [] OTHER                                     -> {"breakfn"}

StageInv == \A p \in Procs : cmd[p] \in Does(pc[p])

\* Local ids are given out once; a command that is about to enter its breakpoint
\* has made it.
MineInv ==
  \A p \in Procs :
    /\ mine[p] < next
    /\ pc[p] \in {"put", "putfn"} => mine[p] \in Ids /\ bp[mine[p]].by = cmd[p]

TableInv ==
  /\ \A i \in table : i < next
  /\ ~open => table = {}

\* The adapter gave the id d to breakpoint i.
OwnsIn(o, d, i) == d \in DOMAIN o /\ o[d] = i
Owns(d, i) == OwnsIn(owner, d, i)

PlacedInv == \A q \in placed \cup placedFn : Owns(q.dap, q.id)

\* Where the caller of a request waits.
Waits(req) ==
  CASE req = "set"        -> "setting"
    [] req = "functions"  -> "settingfn"
    [] req = "exceptions" -> "settingex"
    [] OTHER              -> "resuming"

\* The list of a request is the one its caller read.
Lists(list, s) == Len(list) = Len(s) /\ \A k \in 1..Len(s) : list[k].id = s[k]

RequestInv ==
  \A j \in DOMAIN inbox :
    LET r == inbox[j]
    IN  r.live => /\ pc[r.from] = Waits(r.req) /\ answer[r.from].st = "none"
                  /\ r.req \in {"set", "functions"} => Lists(r.list, snap[r.from])

UniqueInv ==
  \A j, k \in DOMAIN inbox :
    inbox[j].live /\ inbox[k].live /\ inbox[j].from = inbox[k].from => j = k

\* The ids of an answer belong to the breakpoints the caller remembers.
Numbers(ids, s) == Len(ids) = Len(s) /\ \A k \in 1..Len(s) : Owns(ids[k], s[k])

AnswerInv ==
  \A p \in Procs :
    /\ pc[p] \in {"writing", "writingfn"} => answer[p].st = "ok"
    /\ answer[p].st = "ok" =>
         /\ pc[p] \in {"setting", "settingfn", "settingex", "resuming", "writing", "writingfn"}
         /\ pc[p] \in {"setting", "settingfn", "writing", "writingfn"} =>
              Numbers(answer[p].ids, snap[p])

Inv ==
  /\ StageInv /\ MineInv /\ TableInv /\ UntilCleansUp
  /\ RequestInv /\ UniqueInv /\ AnswerInv /\ PlacedInv /\ DapidOwn

-----------------------------------------------------------------------------
(* Type correctness, group by group.                                       *)

TypeTable ==
  /\ table \subseteq Ids /\ bp \in [Ids -> BP] /\ next \in 1..(MaxBPs + 1)
  /\ open \in BOOLEAN /\ located \in BOOLEAN

TypeLocal ==
  /\ pc \in [Procs -> Labels] /\ cmd \in [Procs -> Commands]
  /\ mine \in [Procs -> Ids \cup {0}] /\ todo \in [Procs -> SUBSET Ids]
  /\ touched \in [Procs -> BOOLEAN] /\ snap \in [Procs -> Seq(Ids)]
  /\ told \in [Procs -> Hit] /\ cmds \in Nat

Request == [from : Procs, live : BOOLEAN,
            req : {"set", "functions", "exceptions", "continue"},
            list : Seq([id : Ids, mod : {"none", "cond", "hit"}]), set : SUBSET Filters]

TypeCalls == inbox \in Seq(Request) /\ answer \in [Procs -> Answer]

Place == [id : Ids, mod : {"none", "cond", "hit"}, dap : Nat]

TypeAdapter ==
  /\ placed \subseteq Place /\ placedFn \subseteq Place /\ placedEx \subseteq Filters
  /\ owner \in Seq(Ids) /\ alive \in BOOLEAN

TypeOther ==
  /\ funcs \in Seq(Ids) /\ filters \subseteq Filters /\ chosen \in [Procs -> SUBSET Filters]

TypeProgram ==
  /\ target \in {"stopped", "running"} /\ at \in Lines \cup {0}
  /\ events \in Seq(Hit) /\ stops \in Nat
  /\ reported \in [Ids -> Nat] /\ panicked \in BOOLEAN

LEMMA Types ==
  TypeOK <=> TypeTable /\ TypeLocal /\ TypeCalls /\ TypeAdapter /\ TypeOther /\ TypeProgram
BY DEF TypeOK, TypeTable, TypeLocal, TypeCalls, TypeAdapter, TypeOther, TypeProgram, Request, Place

\* The three commands that make a breakpoint.
LEMMA NewBP ==
  ASSUME NEW h \in Handlers, BreakBegin(h) \/ UntilBegin(h) \/ BreakFnBegin(h)
  PROVE  \E b \in BP : Allocate(h, b) /\ Begin(h, b.by) /\ b.dapid = 0
<1>1. PICK l \in Lines \cup {0}, m \in {"none", "cond", "hit"}, o \in BOOLEAN,
           c \in {"break", "until", "breakfn"} :
        /\ Allocate(h, [line |-> l, mod |-> m, once |-> o, by |-> c, dapid |-> 0])
        /\ Begin(h, c)
  <2>1. CASE BreakBegin(h)
    BY <2>1, BreakpointsAssumption DEF BreakBegin
  <2>2. CASE UntilBegin(h)
    BY <2>2, BreakpointsAssumption DEF UntilBegin
  <2>3. CASE BreakFnBegin(h)
    BY <2>3, BreakpointsAssumption DEF BreakFnBegin
  <2> QED
    BY <2>1, <2>2, <2>3
<1> DEFINE b == [line |-> l, mod |-> m, once |-> o, by |-> c, dapid |-> 0]
<1>2. b \in BP /\ b.by = c /\ b.dapid = 0
  BY DEF BP
<1>3. Allocate(h, b)
  BY <1>1
<1> HIDE DEF b
<1> QED
  BY <1>1, <1>2, <1>3

\* A new breakpoint takes the next local id.
LEMMA AllocateType ==
  ASSUME TypeTable, TypeLocal, NEW h \in Handlers, NEW b \in BP, Allocate(h, b)
  PROVE  /\ next \in Ids /\ bp' \in [Ids -> BP] /\ bp' = [bp EXCEPT ![next] = b]
         /\ next' \in 1..(MaxBPs + 1) /\ next' = next + 1
         /\ mine' \in [Procs -> Ids \cup {0}] /\ mine' = [mine EXCEPT ![h] = next]
<1>1. next \in Ids /\ next + 1 \in 1..(MaxBPs + 1) /\ h \in Procs
  BY BreakpointsAssumption DEF TypeTable, Allocate, Ids, Procs
<1> QED
  BY <1>1 DEF TypeTable, TypeLocal, Allocate

\* The adapter's id of a breakpoint is noted.
LEMMA NoteType ==
  ASSUME TypeTable, NEW i \in Ids, NEW d \in Nat, bp' = [bp EXCEPT ![i].dapid = d]
  PROVE  /\ bp' \in [Ids -> BP] /\ bp'[i].dapid = d
         /\ \A j \in Ids : bp'[j].by = bp[j].by /\ (j # i => bp'[j] = bp[j])
BY DEF TypeTable, BP

\* What an answer in hand holds.
LEMMA InHand ==
  ASSUME TypeLocal, TypeCalls, AnswerInv, NEW p \in Procs,
         pc[p] \in {"writing", "writingfn"}, snap[p] # <<>>
  PROVE  LET s == snap[p]  d == answer[p].ids
         IN  /\ d # <<>> /\ s \in Seq(Ids) /\ d \in Seq(Nat) /\ Len(d) = Len(s)
             /\ Head(s) \in Ids /\ Head(d) \in Nat /\ Owns(Head(d), Head(s))
             /\ Tail(s) \in Seq(Ids) /\ Tail(d) \in Seq(Nat)
             /\ Numbers(Tail(d), Tail(s))
<1> DEFINE s == snap[p]  d == answer[p].ids
<1>1. s \in Seq(Ids) /\ d \in Seq(Nat)
  BY DEF TypeLocal, TypeCalls, Answer
<1>2. Len(d) = Len(s) /\ \A k \in 1..Len(s) : Owns(d[k], s[k])
  BY DEF AnswerInv, Numbers
<1>3. s # <<>>
  OBVIOUS
<1> HIDE DEF s, d
<1>4. Len(s) \in Nat \ {0} /\ d # <<>> /\ 1 \in 1..Len(s)
  BY <1>1, <1>2, <1>3
<1>5. /\ Head(s) = s[1] /\ Head(d) = d[1] /\ Head(s) \in Ids /\ Head(d) \in Nat
      /\ Tail(s) \in Seq(Ids) /\ Tail(d) \in Seq(Nat)
      /\ Len(Tail(s)) = Len(s) - 1 /\ Len(Tail(d)) = Len(d) - 1
      /\ \A k \in 1..(Len(s) - 1) : Tail(s)[k] = s[k + 1] /\ Tail(d)[k] = d[k + 1]
  BY <1>1, <1>2, <1>3, <1>4
<1>6. Numbers(Tail(d), Tail(s))
  <2>1. \A k \in 1..(Len(s) - 1) : k + 1 \in 1..Len(s)
    BY <1>4
  <2>2. \A k \in 1..(Len(s) - 1) : Owns(Tail(d)[k], Tail(s)[k])
    BY <1>2, <1>5, <2>1
  <2> QED
    BY <1>2, <1>5, <2>2 DEF Numbers
<1> QED
  BY <1>1, <1>2, <1>4, <1>5, <1>6 DEF s, d

\* The table and the breakpoints keep their types.
LEMMA TableNext ==
  ASSUME TypeTable, TypeLocal, TypeCalls, MineInv, AnswerInv, Next
  PROVE  TypeTable'
<1>a. Handlers \subseteq Procs /\ Cleaners \subseteq Procs
  BY DEF Procs
<1>1. CASE UNCHANGED tableVars
  BY <1>1 DEF TypeTable, tableVars
<1>2. ASSUME NEW h \in Handlers, NEW b \in BP, Allocate(h, b), UNCHANGED <<table, open, located>>
      PROVE  TypeTable'
  BY <1>2, AllocateType DEF TypeTable
<1>3. ASSUME NEW h \in Handlers, BreakBegin(h) \/ UntilBegin(h) \/ BreakFnBegin(h)
      PROVE  TypeTable'
  <2>1. PICK b \in BP : Allocate(h, b)
    BY <1>3, NewBP
  <2>2. UNCHANGED <<table, open, located>>
    BY <1>3 DEF BreakBegin, UntilBegin, BreakFnBegin
  <2> QED
    BY <1>2, <2>1, <2>2
<1>4. ASSUME NEW h \in Handlers, UnbreakBegin(h) \/ ContinueBegin(h) PROVE TypeTable'
  BY <1>1, <1>4 DEF UnbreakBegin, ContinueBegin
<1>5. ASSUME NEW h \in Handlers, Put(h) PROVE TypeTable'
  BY <1>a, <1>5 DEF Put, MineInv, TypeTable
<1>6. ASSUME NEW h \in Handlers, WriteBack(h) PROVE TypeTable'
  <2>1. UNCHANGED <<table, next, open, located>>
    BY <1>6 DEF WriteBack
  <2>2. bp' \in [Ids -> BP]
    <3>1. CASE UNCHANGED bp
      BY <3>1 DEF TypeTable
    <3>2. CASE ~UNCHANGED bp
      <4>1. /\ snap[h] # <<>> /\ pc[h] = "writing"
            /\ bp' = [bp EXCEPT ![Head(snap[h])].dapid = Head(answer[h].ids)]
        BY <1>6, <3>2 DEF WriteBack
      <4> QED
        BY <1>a, <4>1, InHand, NoteType
    <3> QED
      BY <3>1, <3>2
  <2> QED
    BY <2>1, <2>2 DEF TypeTable
<1>7. ASSUME NEW h \in Handlers, UpdateFuncBP(h) PROVE TypeTable'
  <2>1. UNCHANGED <<table, next, open, located>>
    BY <1>7 DEF UpdateFuncBP
  <2>2. bp' \in [Ids -> BP]
    <3>1. CASE UNCHANGED bp
      BY <3>1 DEF TypeTable
    <3>2. CASE ~UNCHANGED bp
      <4>1. /\ snap[h] # <<>> /\ pc[h] = "writingfn"
            /\ bp' = [bp EXCEPT ![Head(snap[h])].dapid = Head(answer[h].ids)]
        BY <1>7, <3>2 DEF UpdateFuncBP
      <4> QED
        BY <1>a, <4>1, InHand, NoteType
    <3> QED
      BY <3>1, <3>2
  <2> QED
    BY <2>1, <2>2 DEF TypeTable
<1>8. ASSUME NEW h \in Handlers,
             ResumeSend(h) \/ ResumeOk(h) \/ ContinueTold(h) \/ ContinueTimeout(h) \/ LocateFails(h)
      PROVE  TypeTable'
  BY <1>1, <1>8 DEF ResumeSend, ResumeOk, ContinueTold, ContinueTimeout, LocateFails
<1>9. ASSUME NEW h \in Handlers,
             ResumeFails(h) \/ UntilReturns(h) \/ ClearOnceAt(h) \/ LocatesOnly(h)
      PROVE  TypeTable'
  BY <1>9 DEF ResumeFails, UntilReturns, ClearOnceAt, LocatesOnly, TypeTable
<1>10. ASSUME NEW p \in Procs, SyncStep(p) PROVE TypeTable'
  <2>1. CASE Remove(p) \/ SetFails(p)
    BY <2>1 DEF Remove, SetFails, TypeTable
  <2>2. CASE Removed(p) \/ Read(p) \/ Send(p) \/ SetOk(p)
    BY <1>1, <2>2 DEF Removed, Read, Send, SetOk
  <2> QED
    BY <1>10, <2>1, <2>2 DEF SyncStep
<1>11. CASE Pump
  BY <1>11 DEF Pump, TypeTable
<1>12. ASSUME NEW h \in Handlers,
              PutFuncBP(h) \/ FuncBPs(h) \/ FuncSend(h) \/ FuncOk(h) \/ FuncFails(h) \/ ExStep(h)
       PROVE  TypeTable'
  BY <1>1, <1>12 DEF PutFuncBP, FuncBPs, FuncSend, FuncOk, FuncFails, ExStep, BreakExBegin, ExSend,
     SetExcFilters, ExFails
<1>13. ASSUME NEW h \in Handlers, Stop(h) PROVE TypeTable'
  BY <1>13 DEF Stop, TypeTable
<1>14. CASE AdapterServes \/ TargetHits \/ TargetEnters \/ TargetThrows
  BY <1>1, <1>14 DEF AdapterServes, TargetHits, TargetEnters, TargetThrows, Halts
<1> QED
  BY <1>3, <1>4, <1>5, <1>6, <1>7, <1>8, <1>9, <1>10, <1>11, <1>12, <1>13, <1>14
  DEF Next, ClientStep, HandlerStep, FuncStep

\* The lists of BPsForFile are lists of entries of the table.
LEMMA ListingsType ==
  ASSUME table \subseteq Ids, NEW s \in Listings(table)
  PROVE  s \in Seq(Ids)
<1>1. IsFiniteSet(Ids)
  BY FS_Interval, BreakpointsAssumption DEF Ids
<1>2. Cardinality(table) \in Nat
  BY <1>1, FS_Subset, FS_CardinalityType
<1> QED
  BY <1>2 DEF Listings

\* What the goroutines keep has its type.
LEMMA LocalNext ==
  ASSUME TypeTable, TypeLocal, TypeCalls, TypeOther, TypeProgram, AnswerInv, Next
  PROVE  TypeLocal'
<1>a. Handlers \subseteq Procs /\ Cleaners \subseteq Procs /\ NoHit \in Hit /\ <<>> \in Seq(Ids)
  BY DEF Procs, NoHit, Hit, Reasons
<1>b. \A h \in Handlers : \A b : Allocate(h, b) => next \in Ids
  BY BreakpointsAssumption DEF Allocate, TypeTable, Ids
<1>f. ASSUME NEW p \in Procs, Finish(p), UNCHANGED cmds PROVE TypeLocal'
  BY <1>a, <1>f DEF Finish, Goto, TypeLocal, Labels, Commands
<1>g. ASSUME NEW p \in Procs, NEW l \in Labels, Goto(p, l), UNCHANGED <<localVars, cmds>>
      PROVE  TypeLocal'
  BY <1>g DEF Goto, localVars, TypeLocal
<1>u. CASE UNCHANGED <<pc, localVars, cmds>>
  BY <1>u DEF localVars, TypeLocal
<1>s. ASSUME NEW h \in Handlers, NEW c \in Issued, NEW l \in Labels, c # "stop",
             Begin(h, c), Goto(h, l)
      PROVE  pc' \in [Procs -> Labels] /\ cmd' \in [Procs -> Commands] /\ cmds' \in Nat
  <2>1. c \in Commands /\ h \in Procs
    BY <1>a, <1>s, BreakpointsAssumption DEF Commands
  <2> QED
    BY <1>s, <2>1 DEF Begin, Accept, Goto, TypeLocal
<1>1. ASSUME NEW h \in Handlers, BreakBegin(h) \/ UntilBegin(h) \/ BreakFnBegin(h)
      PROVE  TypeLocal'
  <2>1. PICK b : Allocate(h, b)
    BY <1>1 DEF BreakBegin, UntilBegin, BreakFnBegin
  <2>2. PICK c \in {"break", "until", "breakfn"}, l \in {"put", "putfn"} : Begin(h, c) /\ Goto(h, l)
    BY <1>1 DEF BreakBegin, UntilBegin, BreakFnBegin
  <2>3. UNCHANGED <<todo, touched, snap, told>>
    BY <1>1 DEF BreakBegin, UntilBegin, BreakFnBegin
  <2>4. pc' \in [Procs -> Labels] /\ cmd' \in [Procs -> Commands] /\ cmds' \in Nat
    BY <1>s, <2>2 DEF Begin, Accept, Labels
  <2>5. mine' \in [Procs -> Ids \cup {0}]
    BY <1>a, <1>b, <2>1 DEF Allocate, TypeLocal
  <2> QED
    BY <2>3, <2>4, <2>5 DEF TypeLocal
<1>2. ASSUME NEW h \in Handlers, UnbreakBegin(h) PROVE TypeLocal'
  <2>1. 1..(next - 1) \subseteq Ids
    BY BreakpointsAssumption DEF TypeTable, Ids
  <2>2. pc' \in [Procs -> Labels] /\ cmd' \in [Procs -> Commands] /\ cmds' \in Nat
    BY <1>s, <1>2 DEF UnbreakBegin, Begin, Accept, Labels
  <2>3. todo' \in [Procs -> SUBSET Ids]
    BY <1>a, <1>2, <2>1 DEF UnbreakBegin, TypeLocal
  <2>4. touched' \in [Procs -> BOOLEAN]
    <3>1. touched' = [touched EXCEPT ![h] = table # {}] /\ (table # {}) \in BOOLEAN
      BY <1>2 DEF UnbreakBegin
    <3> QED
      BY <1>a, <3>1 DEF TypeLocal
  <2> QED
    BY <1>2, <2>2, <2>3, <2>4 DEF UnbreakBegin, TypeLocal
<1>3. ASSUME NEW h \in Handlers, ContinueBegin(h) \/ BreakExBegin(h) PROVE TypeLocal'
  <2>1. PICK c \in {"continue", "breakex"}, l \in {"resume", "sendex"} : Begin(h, c) /\ Goto(h, l)
    BY <1>3 DEF ContinueBegin, BreakExBegin
  <2>2. UNCHANGED <<mine, todo, touched, snap, told>>
    BY <1>3 DEF ContinueBegin, BreakExBegin
  <2>3. pc' \in [Procs -> Labels] /\ cmd' \in [Procs -> Commands] /\ cmds' \in Nat
    BY <1>s, <2>1 DEF Begin, Accept, Labels
  <2> QED
    BY <2>2, <2>3 DEF TypeLocal
<1>4. ASSUME NEW h \in Handlers, Put(h) PROVE TypeLocal'
  BY <1>a, <1>f, <1>g, <1>4 DEF Put, Labels
<1>5. ASSUME NEW h \in Handlers, WriteBack(h) \/ UpdateFuncBP(h) PROVE TypeLocal'
  <2>1. CASE Finish(h)
    BY <1>a, <1>f, <1>5, <2>1 DEF WriteBack, UpdateFuncBP
  <2>2. CASE ~Finish(h)
    <3>1. /\ snap[h] # <<>> /\ snap' = [snap EXCEPT ![h] = Tail(@)]
          /\ UNCHANGED <<pc, cmd, mine, todo, touched, told, cmds>>
      BY <1>5, <2>2 DEF WriteBack, UpdateFuncBP
    <3>2. Tail(snap[h]) \in Seq(Ids)
      <4>1. snap[h] \in Seq(Ids)
        BY <1>a DEF TypeLocal
      <4> QED
        BY <3>1, <4>1
    <3> QED
      BY <1>a, <3>1, <3>2 DEF TypeLocal
  <2> QED
    BY <2>1, <2>2
<1>6. ASSUME NEW h \in Handlers, ResumeSend(h) \/ ResumeOk(h) \/ ContinueTold(h)
      PROVE  TypeLocal'
  BY <1>a, <1>g, <1>6 DEF ResumeSend, ResumeOk, ContinueTold, Labels
<1>7. ASSUME NEW h \in Handlers,
             ResumeFails(h) \/ ContinueTimeout(h) \/ LocatesOnly(h) \/ LocateFails(h)
      PROVE  TypeLocal'
  BY <1>a, <1>f, <1>7 DEF ResumeFails, ContinueTimeout, LocatesOnly, LocateFails
<1>8. ASSUME NEW h \in Handlers, UntilReturns(h) PROVE TypeLocal'
  BY <1>a, <1>8 DEF UntilReturns, Goto, TypeLocal, Labels, Commands
<1>9. ASSUME NEW h \in Handlers, ClearOnceAt(h) PROVE TypeLocal'
  <2>1. {i \in table : bp[i].once /\ bp[i].line = at} \subseteq Ids
    BY DEF TypeTable
  <2> QED
    BY <1>a, <1>9, <2>1 DEF ClearOnceAt, Goto, TypeLocal, Labels, Commands
<1>10. ASSUME NEW p \in Procs, Remove(p) PROVE TypeLocal'
  <2>1. PICK i \in todo[p] : /\ todo' = [todo EXCEPT ![p] = @ \ {i}]
                             /\ touched' = [touched EXCEPT ![p] = @ \/ i \in table]
    BY <1>10 DEF Remove
  <2>2. todo' \in [Procs -> SUBSET Ids]
    BY <2>1 DEF TypeLocal
  <2>3. (touched[p] \/ i \in table) \in BOOLEAN
    OBVIOUS
  <2>4. touched' \in [Procs -> BOOLEAN]
    BY <2>1, <2>3 DEF TypeLocal
  <2> QED
    BY <1>10, <2>2, <2>4 DEF Remove, TypeLocal
<1>11. ASSUME NEW p \in Procs, Removed(p) PROVE TypeLocal'
  BY <1>f, <1>g, <1>11 DEF Removed, Labels
<1>12. ASSUME NEW p \in Procs, Read(p) PROVE TypeLocal'
  <2>1. PICK s \in Listings(table) : snap' = [snap EXCEPT ![p] = s]
    BY <1>12 DEF Read
  <2>2. s \in Seq(Ids)
    BY ListingsType DEF TypeTable
  <2> QED
    BY <1>12, <2>1, <2>2 DEF Read, Goto, TypeLocal, Labels
<1>13. ASSUME NEW p \in Procs, Send(p) PROVE TypeLocal'
  BY <1>g, <1>13 DEF Send, Labels
<1>14. ASSUME NEW p \in Procs, SetOk(p) \/ SetFails(p) PROVE TypeLocal'
  BY <1>f, <1>g, <1>14 DEF SetOk, SetFails, Synced, Labels
<1>15. CASE Pump
  <2> DEFINE e == Head(events)
             hit == {i \in table : bp[i].once /\ bp[i].dapid \in e.ids}
             wait == {p \in Handlers : Armed(p) /\ told[p] = NoHit}
  <2>1. e \in Hit /\ hit \subseteq Ids
    <3>1. events # <<>> /\ events \in Seq(Hit)
      BY <1>15 DEF Pump, TypeProgram
    <3> QED
      BY <3>1 DEF TypeTable
  <2>2. told' = [p \in Procs |-> IF p \in wait THEN e ELSE told[p]]
    BY <1>15 DEF Pump
  <2>3. \/ UNCHANGED <<pc, cmd, todo>>
        \/ \E c \in Cleaners : /\ pc[c] = "idle" /\ Goto(c, "remove")
                               /\ cmd' = [cmd EXCEPT ![c] = "clear"]
                               /\ todo' = [todo EXCEPT ![c] = hit]
    BY <1>15 DEF Pump
  <2>4. UNCHANGED <<mine, touched, snap, cmds>>
    BY <1>15 DEF Pump
  <2> HIDE DEF e, hit, wait
  <2>5. told' \in [Procs -> Hit]
    BY <2>1, <2>2 DEF TypeLocal
  <2>6. /\ pc' \in [Procs -> Labels] /\ cmd' \in [Procs -> Commands]
        /\ todo' \in [Procs -> SUBSET Ids]
    BY <1>a, <2>1, <2>3 DEF Goto, TypeLocal, Labels, Commands
  <2> QED
    BY <2>4, <2>5, <2>6 DEF TypeLocal
<1>16. ASSUME NEW h \in Handlers, PutFuncBP(h) \/ FuncSend(h) \/ FuncOk(h) \/ ExSend(h)
       PROVE  TypeLocal'
  BY <1>a, <1>g, <1>16 DEF PutFuncBP, FuncSend, FuncOk, ExSend, Labels
<1>17. ASSUME NEW h \in Handlers, FuncBPs(h) PROVE TypeLocal'
  BY <1>a, <1>17 DEF FuncBPs, Goto, TypeLocal, TypeOther, Labels
<1>18. ASSUME NEW h \in Handlers, FuncFails(h) \/ SetExcFilters(h) \/ ExFails(h) PROVE TypeLocal'
  BY <1>a, <1>f, <1>18 DEF FuncFails, SetExcFilters, ExFails
<1>19. ASSUME NEW h \in Handlers, Stop(h) PROVE TypeLocal'
  BY <1>19 DEF Stop, Accept, localVars, TypeLocal
<1>20. CASE AdapterServes \/ TargetHits \/ TargetEnters \/ TargetThrows
  BY <1>u, <1>20 DEF AdapterServes, TargetHits, TargetEnters, TargetThrows, Halts
<1> QED
  BY <1>1, <1>2, <1>3, <1>4, <1>5, <1>6, <1>7, <1>8, <1>9, <1>10, <1>11, <1>12, <1>13, <1>14,
     <1>15, <1>16, <1>17, <1>18, <1>19, <1>20
  DEF Next, ClientStep, HandlerStep, SyncStep, FuncStep, ExStep

Item == [id : Ids, mod : {"none", "cond", "hit"}]

\* The two lists of breakpoints that go out.
LEMMA ListType ==
  ASSUME TypeTable, TypeLocal, NEW p \in Procs
  PROVE  LET s == snap[p]
             a == [i \in DOMAIN s |-> Sent(p, s[i])]
             b == [i \in DOMAIN s |-> [id |-> s[i], mod |-> bp[s[i]].mod]]
         IN  /\ a \in Seq(Item) /\ Lists(a, s)
             /\ b \in Seq(Item) /\ Lists(b, s)
<1> DEFINE s == snap[p]
           a == [i \in DOMAIN s |-> Sent(p, s[i])]
           b == [i \in DOMAIN s |-> [id |-> s[i], mod |-> bp[s[i]].mod]]
<1>1. s \in Seq(Ids)
  BY DEF TypeLocal
<1> HIDE DEF s
<1>2. Len(s) \in Nat /\ DOMAIN s = 1..Len(s) /\ \A i \in 1..Len(s) : s[i] \in Ids
  BY <1>1
<1>3. \A i \in 1..Len(s) : /\ Sent(p, s[i]) \in Item /\ Sent(p, s[i]).id = s[i]
                           /\ [id |-> s[i], mod |-> bp[s[i]].mod] \in Item
  BY <1>2 DEF Sent, TypeTable, BP, Item
<1>4. /\ a = [i \in 1..Len(s) |-> Sent(p, s[i])]
      /\ b = [i \in 1..Len(s) |-> [id |-> s[i], mod |-> bp[s[i]].mod]]
  BY <1>2
<1>5. a \in Seq(Item) /\ Len(a) = Len(s) /\ \A k \in 1..Len(s) : a[k] = Sent(p, s[k])
  <2> HIDE DEF a
  <2>1. a \in [1..Len(s) -> Item]
    BY <1>3, <1>4
  <2> QED
    BY <1>2, <1>4, <2>1
<1>6. b \in Seq(Item) /\ Len(b) = Len(s) /\ \A k \in 1..Len(s) : b[k].id = s[k]
  <2> HIDE DEF b
  <2>1. b \in [1..Len(s) -> Item]
    BY <1>3, <1>4
  <2> QED
    BY <1>2, <1>4, <2>1
<1> QED
  BY <1>3, <1>5, <1>6 DEF Lists, s

\* Concatenation, entry by entry.
LEMMA Concatenation ==
  ASSUME NEW s \in Seq(Ids), NEW t \in Seq(Ids)
  PROVE  /\ s \o t \in Seq(Ids) /\ Len(s \o t) = Len(s) + Len(t)
         /\ DOMAIN (s \o t) = 1..(Len(s) + Len(t))
         /\ \A i \in 1..(Len(s) + Len(t)) :
              (s \o t)[i] = IF i <= Len(s) THEN s[i] ELSE t[i - Len(s)]
OBVIOUS

\* The ids for a list belong to its breakpoints, and no id changes hands.
LEMMA NumberedOwns ==
  ASSUME TypeAdapter, NEW old, old \subseteq Place, \A q \in old : Owns(q.dap, q.id),
         NEW list \in Seq(Item)
  PROVE  LET dap == Numbered(list, old)
             o   == owner \o [i \in DOMAIN list |-> list[i].id]
         IN  /\ dap \in Seq(Nat) /\ Len(dap) = Len(list) /\ o \in Seq(Ids)
             /\ \A d, i : Owns(d, i) => OwnsIn(o, d, i)
             /\ \A k \in 1..Len(list) : OwnsIn(o, dap[k], list[k].id)
             /\ Entries(list, dap) \subseteq Place
             /\ \A q \in Entries(list, dap) : OwnsIn(o, q.dap, q.id)
<1> DEFINE dap == Numbered(list, old)
           new == [i \in DOMAIN list |-> list[i].id]
           o   == owner \o new
           kept(i) == {q.dap : q \in {q \in old : q.id = list[i].id}}
<1>1. Len(list) \in Nat /\ DOMAIN list = 1..Len(list) /\ \A k \in 1..Len(list) : list[k] \in Item
  OBVIOUS
<1>2. \A k \in 1..Len(list) : list[k].id \in Ids
  BY <1>1 DEF Item
<1>3. new \in Seq(Ids) /\ Len(new) = Len(list) /\ \A k \in 1..Len(list) : new[k] = list[k].id
  <2>1. new = [i \in 1..Len(list) |-> list[i].id]
    BY <1>1
  <2> HIDE DEF new
  <2>2. new \in [1..Len(list) -> Ids]
    BY <1>2, <2>1
  <2> QED
    BY <1>1, <2>1, <2>2
<1>4. owner \in Seq(Ids) /\ Len(owner) \in Nat /\ DOMAIN owner = 1..Len(owner)
  BY DEF TypeAdapter
<1> HIDE DEF new
<1>5. /\ o \in Seq(Ids) /\ Len(o) = Len(owner) + Len(list) /\ DOMAIN o = 1..(Len(owner) + Len(list))
      /\ \A k \in 1..Len(owner) : o[k] = owner[k]
      /\ \A k \in 1..Len(list) : o[Len(owner) + k] = new[k]
  <2>1. /\ o \in Seq(Ids) /\ Len(o) = Len(owner) + Len(list) /\ DOMAIN o = 1..(Len(owner) + Len(list))
        /\ \A i \in 1..(Len(owner) + Len(list)) :
             o[i] = IF i <= Len(owner) THEN owner[i] ELSE new[i - Len(owner)]
    <3>1. /\ o \in Seq(Ids) /\ Len(o) = Len(owner) + Len(new) /\ DOMAIN o = 1..(Len(owner) + Len(new))
          /\ \A i \in 1..(Len(owner) + Len(new)) :
               o[i] = IF i <= Len(owner) THEN owner[i] ELSE new[i - Len(owner)]
      BY <1>3, <1>4, Concatenation
    <3> HIDE DEF o
    <3> QED
      BY <1>3, <3>1
  <2> HIDE DEF o
  <2>2. ASSUME NEW k \in 1..Len(owner) PROVE o[k] = owner[k]
    <3>1. k \in 1..(Len(owner) + Len(list)) /\ k <= Len(owner)
      BY <1>1, <1>4
    <3> QED
      BY <2>1, <3>1
  <2>3. ASSUME NEW k \in 1..Len(list) PROVE o[Len(owner) + k] = new[k]
    <3>1. /\ Len(owner) + k \in 1..(Len(owner) + Len(list)) /\ ~(Len(owner) + k <= Len(owner))
          /\ (Len(owner) + k) - Len(owner) = k
      BY <1>1, <1>4
    <3> QED
      BY <2>1, <3>1
  <2> QED
    BY <2>1, <2>2, <2>3
<1> HIDE DEF o
<1>6. \A d, i : Owns(d, i) => OwnsIn(o, d, i)
  <2>1. \A d \in 1..Len(owner) : d \in 1..(Len(owner) + Len(list))
    BY <1>1, <1>4
  <2> QED
    BY <1>4, <1>5, <2>1 DEF Owns, OwnsIn
<1>7. dap = [i \in 1..Len(list) |->
               IF FreshIds \/ kept(i) = {} THEN Len(owner) + i ELSE CHOOSE d \in kept(i) : TRUE]
  BY <1>1 DEF Numbered
<1>8. ASSUME NEW k \in 1..Len(list)
      PROVE  dap[k] \in Nat /\ OwnsIn(o, dap[k], list[k].id)
  <2>1. dap[k] = IF FreshIds \/ kept(k) = {} THEN Len(owner) + k ELSE CHOOSE d \in kept(k) : TRUE
    BY <1>7
  <2>2. CASE FreshIds \/ kept(k) = {}
    <3>0. k \in Nat /\ Len(owner) + k \in 1..(Len(owner) + Len(list))
      BY <1>1, <1>4
    <3>1. dap[k] = Len(owner) + k /\ k \in Nat /\ Len(owner) + k \in DOMAIN o
      BY <1>5, <2>1, <2>2, <3>0
    <3>2. o[Len(owner) + k] = list[k].id
      BY <1>3, <1>5
    <3> QED
      BY <1>4, <3>1, <3>2 DEF OwnsIn
  <2>3. CASE ~(FreshIds \/ kept(k) = {})
    <3>1. dap[k] \in kept(k)
      BY <2>1, <2>3
    <3>2. PICK q \in old : q.id = list[k].id /\ dap[k] = q.dap
      BY <3>1
    <3>3. q \in Place /\ Owns(q.dap, q.id)
      OBVIOUS
    <3>4. q.dap \in Nat
      BY <3>3 DEF Place
    <3> QED
      BY <1>6, <3>2, <3>3, <3>4
  <2> QED
    BY <2>2, <2>3
<1>9. dap \in Seq(Nat) /\ Len(dap) = Len(list)
  <2> HIDE DEF dap
  <2>1. dap \in [1..Len(list) -> Nat]
    BY <1>7, <1>8
  <2> QED
    BY <1>1, <2>1
<1>10. ASSUME NEW q \in Entries(list, dap)
       PROVE  q \in Place /\ OwnsIn(o, q.dap, q.id)
  <2> HIDE DEF dap
  <2>1. PICK k \in 1..Len(list) : q = [id |-> list[k].id, mod |-> list[k].mod, dap |-> dap[k]]
    BY <1>1 DEF Entries
  <2>2. q.id = list[k].id /\ q.dap = dap[k]
    BY <2>1
  <2>3. q \in Place
    BY <1>1, <1>8, <2>1 DEF Item, Place
  <2> QED
    BY <1>8, <2>2, <2>3
<1> QED
  BY <1>5, <1>6, <1>8, <1>9, <1>10 DEF o, new

\* The adapter's answer to the caller of r, and what it notes.
Serves(r, ids) ==
  /\ Answered(r, ids) /\ ids \in Seq(Nat) /\ owner' \in Seq(Ids)
  /\ placed' \subseteq Place /\ placedFn' \subseteq Place /\ placedEx' \subseteq Filters
  /\ \A q \in placed' \cup placedFn' : OwnsIn(owner', q.dap, q.id)
  /\ \A d, i : Owns(d, i) => OwnsIn(owner', d, i)
  /\ r.req \in {"set", "functions"} =>
       Len(ids) = Len(r.list) /\ \A k \in 1..Len(r.list) : OwnsIn(owner', ids[k], r.list[k].id)

LEMMA ServeSteps ==
  ASSUME TypeAdapter, PlacedInv, NEW r \in Request, Serve(r)
  PROVE  \E ids : Serves(r, ids)
<1>a. /\ r.list \in Seq(Item) /\ r.set \subseteq Filters /\ placed \subseteq Place
      /\ placedFn \subseteq Place /\ placedEx \subseteq Filters /\ owner \in Seq(Ids)
      /\ <<>> \in Seq(Nat)
  BY DEF Request, Item, TypeAdapter
<1>b. /\ \A q \in placed : Owns(q.dap, q.id)
      /\ \A q \in placedFn : Owns(q.dap, q.id)
  BY DEF PlacedInv
<1>1. CASE ServeSet(r)
  <2> DEFINE dap == Numbered(r.list, placed)
             o == owner \o [i \in DOMAIN r.list |-> r.list[i].id]
  <2>1. /\ placed' = Entries(r.list, dap) /\ owner' = o /\ Answered(r, dap)
        /\ UNCHANGED <<placedFn, placedEx>>
    BY <1>1 DEF ServeSet, Replacing
  <2>2. /\ dap \in Seq(Nat) /\ Len(dap) = Len(r.list) /\ o \in Seq(Ids)
        /\ \A d, i : Owns(d, i) => OwnsIn(o, d, i)
        /\ \A k \in 1..Len(r.list) : OwnsIn(o, dap[k], r.list[k].id)
        /\ Entries(r.list, dap) \subseteq Place
        /\ \A q \in Entries(r.list, dap) : OwnsIn(o, q.dap, q.id)
    BY <1>a, <1>b, NumberedOwns
  <2> HIDE DEF dap, o
  <2>3. Serves(r, dap)
    BY <1>a, <1>b, <2>1, <2>2 DEF Serves
  <2> QED
    BY <2>3
<1>2. CASE ServeFunctions(r)
  <2> DEFINE dap == Numbered(r.list, placedFn)
             o == owner \o [i \in DOMAIN r.list |-> r.list[i].id]
  <2>1. /\ placedFn' = Entries(r.list, dap) /\ owner' = o /\ Answered(r, dap)
        /\ UNCHANGED <<placed, placedEx>>
    BY <1>2 DEF ServeFunctions, Replacing
  <2>2. /\ dap \in Seq(Nat) /\ Len(dap) = Len(r.list) /\ o \in Seq(Ids)
        /\ \A d, i : Owns(d, i) => OwnsIn(o, d, i)
        /\ \A k \in 1..Len(r.list) : OwnsIn(o, dap[k], r.list[k].id)
        /\ Entries(r.list, dap) \subseteq Place
        /\ \A q \in Entries(r.list, dap) : OwnsIn(o, q.dap, q.id)
    BY <1>a, <1>b, NumberedOwns
  <2> HIDE DEF dap, o
  <2>3. Serves(r, dap)
    BY <1>a, <1>b, <2>1, <2>2 DEF Serves
  <2> QED
    BY <2>3
<1>3. CASE ServeExceptions(r) \/ ServeContinue(r)
  <2>1. Serves(r, <<>>)
    BY <1>a, <1>b, <1>3 DEF ServeExceptions, ServeContinue, Serves, Owns
  <2> QED
    BY <2>1
<1> QED
  BY <1>1, <1>2, <1>3 DEF Serve

\* The oldest request.
LEMMA FirstRequest ==
  ASSUME TypeCalls, inbox # <<>>
  PROVE  /\ Head(inbox) \in Request /\ Head(inbox) = inbox[1] /\ Tail(inbox) \in Seq(Request)
         /\ Len(inbox) \in Nat /\ 1 \in DOMAIN inbox /\ DOMAIN inbox = 1..Len(inbox)
         /\ DOMAIN Tail(inbox) = 1..(Len(inbox) - 1)
         /\ \A j \in DOMAIN Tail(inbox) : j + 1 \in DOMAIN inbox /\ Tail(inbox)[j] = inbox[j + 1]
<1>1. inbox \in Seq(Request)
  BY DEF TypeCalls
<1>2. /\ Head(inbox) \in Request /\ Head(inbox) = inbox[1] /\ Tail(inbox) \in Seq(Request)
      /\ Len(inbox) \in Nat \ {0} /\ DOMAIN inbox = 1..Len(inbox)
      /\ Len(Tail(inbox)) = Len(inbox) - 1 /\ DOMAIN Tail(inbox) = 1..(Len(inbox) - 1)
      /\ \A j \in 1..(Len(inbox) - 1) : Tail(inbox)[j] = inbox[j + 1]
  BY <1>1
<1> QED
  BY <1>2

\* Requests and answers have their types.
LEMMA CallsNext ==
  ASSUME TypeTable, TypeLocal, TypeCalls, TypeAdapter, TypeOther, PlacedInv, AnswerInv, Next
  PROVE  TypeCalls'
<1>a. Handlers \subseteq Procs /\ NoAnswer \in Answer
  BY DEF Procs, NoAnswer, Answer
<1>u. CASE UNCHANGED callVars
  BY <1>u DEF callVars, TypeCalls
<1>c. ASSUME NEW p \in Procs, NEW r \in Request, Call(p, r) PROVE TypeCalls'
  BY <1>a, <1>c DEF Call, TypeCalls
<1>r. ASSUME NEW p \in Procs, Receive(p) PROVE TypeCalls'
  BY <1>a, <1>r DEF Receive, TypeCalls
<1>f. ASSUME NEW p \in Procs, CallFails(p) PROVE TypeCalls'
  <2>1. /\ inbox' = [i \in DOMAIN inbox |->
                       IF inbox[i].from = p THEN [inbox[i] EXCEPT !.live = FALSE] ELSE inbox[i]]
        /\ answer' = [answer EXCEPT ![p] = NoAnswer]
    BY <1>f DEF CallFails
  <2>2. Len(inbox) \in Nat /\ DOMAIN inbox = 1..Len(inbox) /\ \A i \in 1..Len(inbox) : inbox[i] \in Request
    BY DEF TypeCalls
  <2>3. \A i \in 1..Len(inbox) : [inbox[i] EXCEPT !.live = FALSE] \in Request
    BY <2>2 DEF Request
  <2>4. inbox' \in [1..Len(inbox) -> Request]
    BY <2>1, <2>2, <2>3
  <2>5. inbox' \in Seq(Request)
    BY <2>2, <2>4
  <2> QED
    BY <1>a, <2>1, <2>5 DEF TypeCalls
<1>1. ASSUME NEW h \in Handlers, ClientStep(h) PROVE TypeCalls'
  BY <1>u, <1>1 DEF ClientStep, BreakBegin, UntilBegin, UnbreakBegin, ContinueBegin
<1>2. ASSUME NEW h \in Handlers,
             \/ Put(h) \/ UntilReturns(h) \/ ContinueTold(h) \/ ContinueTimeout(h)
             \/ ClearOnceAt(h) \/ LocatesOnly(h) \/ LocateFails(h)
      PROVE  TypeCalls'
  BY <1>u, <1>2 DEF Put, UntilReturns, ContinueTold, ContinueTimeout, ClearOnceAt, LocatesOnly,
     LocateFails
<1>3. ASSUME NEW h \in Handlers, WriteBack(h) \/ UpdateFuncBP(h) PROVE TypeCalls'
  <2>1. CASE answer' = [answer EXCEPT ![h] = NoAnswer]
    BY <1>a, <1>3, <2>1 DEF WriteBack, UpdateFuncBP, TypeCalls
  <2>2. CASE ~(answer' = [answer EXCEPT ![h] = NoAnswer])
    <3>1. /\ snap[h] # <<>> /\ pc[h] \in {"writing", "writingfn"}
          /\ answer' = [answer EXCEPT ![h].ids = Tail(@)]
      BY <1>3, <2>2 DEF WriteBack, UpdateFuncBP
    <3>2. Tail(answer[h].ids) \in Seq(Nat)
      BY <1>a, <3>1, InHand
    <3>3. [answer[h] EXCEPT !.ids = Tail(answer[h].ids)] \in Answer
      BY <1>a, <3>2 DEF TypeCalls, Answer
    <3>4. answer' = [answer EXCEPT ![h] = [answer[h] EXCEPT !.ids = Tail(answer[h].ids)]]
      BY <1>a, <3>1 DEF TypeCalls
    <3>5. answer' \in [Procs -> Answer]
      BY <1>a, <3>3, <3>4 DEF TypeCalls
    <3> QED
      BY <1>3, <3>5 DEF WriteBack, UpdateFuncBP, TypeCalls
  <2> QED
    BY <2>1, <2>2
<1>4. ASSUME NEW h \in Handlers, ResumeSend(h) PROVE TypeCalls'
  <2>1. PICK r : Call(h, r) /\ r = [from |-> h, live |-> TRUE, req |-> "continue", list |-> <<>>,
                                     set |-> {}]
    BY <1>4 DEF ResumeSend
  <2>2. r \in Request
    BY <1>a, <2>1 DEF Request
  <2> QED
    BY <1>a, <1>c, <2>1, <2>2
<1>5. ASSUME NEW h \in Handlers, ExSend(h) PROVE TypeCalls'
  <2>1. PICK r : Call(h, r) /\ r = [from |-> h, live |-> TRUE, req |-> "exceptions", list |-> <<>>,
                                     set |-> chosen[h]]
    BY <1>5 DEF ExSend
  <2>2. r \in Request
    BY <1>a, <2>1 DEF Request, TypeOther
  <2> QED
    BY <1>a, <1>c, <2>1, <2>2
<1>6. ASSUME NEW p \in Procs, Send(p) PROVE TypeCalls'
  <2> DEFINE l == [i \in DOMAIN snap[p] |-> Sent(p, snap[p][i])]
  <2>1. l \in Seq(Item)
    BY ListType
  <2>2. Call(p, [from |-> p, live |-> TRUE, req |-> "set", list |-> l, set |-> {}])
    BY <1>6 DEF Send
  <2> HIDE DEF l
  <2>3. [from |-> p, live |-> TRUE, req |-> "set", list |-> l, set |-> {}] \in Request
    BY <2>1 DEF Request, Item
  <2> QED
    BY <1>c, <2>2, <2>3
<1>7. ASSUME NEW h \in Handlers, FuncSend(h) PROVE TypeCalls'
  <2> DEFINE l == [i \in DOMAIN snap[h] |-> [id |-> snap[h][i], mod |-> bp[snap[h][i]].mod]]
  <2>1. l \in Seq(Item)
    BY <1>a, ListType
  <2>2. Call(h, [from |-> h, live |-> TRUE, req |-> "functions", list |-> l, set |-> {}])
    BY <1>7 DEF FuncSend
  <2> HIDE DEF l
  <2>3. [from |-> h, live |-> TRUE, req |-> "functions", list |-> l, set |-> {}] \in Request
    BY <1>a, <2>1 DEF Request, Item
  <2> QED
    BY <1>a, <1>c, <2>2, <2>3
<1>8. ASSUME NEW h \in Handlers, ResumeOk(h) \/ SetExcFilters(h) PROVE TypeCalls'
  BY <1>a, <1>r, <1>8 DEF ResumeOk, SetExcFilters
<1>9. ASSUME NEW h \in Handlers, ResumeFails(h) \/ FuncFails(h) \/ ExFails(h) PROVE TypeCalls'
  BY <1>a, <1>f, <1>9 DEF ResumeFails, FuncFails, ExFails
<1>10. ASSUME NEW p \in Procs, Remove(p) \/ Removed(p) \/ Read(p) PROVE TypeCalls'
  BY <1>u, <1>10 DEF Remove, Removed, Read
<1>11. ASSUME NEW p \in Procs, SetOk(p) PROVE TypeCalls'
  BY <1>u, <1>r, <1>11 DEF SetOk
<1>12. ASSUME NEW p \in Procs, SetFails(p) PROVE TypeCalls'
  BY <1>f, <1>12 DEF SetFails
<1>13. ASSUME NEW h \in Handlers,
              BreakFnBegin(h) \/ PutFuncBP(h) \/ FuncBPs(h) \/ FuncOk(h) \/ BreakExBegin(h)
       PROVE  TypeCalls'
  BY <1>u, <1>13 DEF BreakFnBegin, PutFuncBP, FuncBPs, FuncOk, BreakExBegin
<1>14. ASSUME NEW h \in Handlers, Stop(h) PROVE TypeCalls'
  BY <1>14 DEF Stop, TypeCalls
<1>15. CASE Pump \/ TargetHits \/ TargetEnters \/ TargetThrows
  BY <1>u, <1>15 DEF Pump, TargetHits, TargetEnters, TargetThrows, Halts
<1>16. CASE AdapterServes
  <2> DEFINE r == Head(inbox)
  <2>1. Serve(r) /\ inbox # <<>> /\ inbox' = Tail(inbox)
    BY <1>16 DEF AdapterServes
  <2>2. r \in Request /\ Tail(inbox) \in Seq(Request)
    BY <2>1, FirstRequest
  <2>3. PICK ids : Answered(r, ids) /\ ids \in Seq(Nat)
    BY <2>1, <2>2, ServeSteps DEF Serves
  <2>4. [st |-> "ok", ids |-> ids] \in Answer
    BY <2>3 DEF Answer
  <2> HIDE DEF r
  <2>5. r.from \in Procs
    BY <2>2 DEF Request
  <2> QED
    BY <2>1, <2>2, <2>3, <2>4, <2>5 DEF Answered, TypeCalls
<1> QED
  BY <1>1, <1>2, <1>3, <1>4, <1>5, <1>6, <1>7, <1>8, <1>9, <1>10, <1>11, <1>12, <1>13, <1>14,
     <1>15, <1>16
  DEF Next, HandlerStep, SyncStep, FuncStep, ExStep

\* The adapter: its entries have their ids for good, and so has every breakpoint.
LEMMA AdapterNext ==
  ASSUME TypeCalls, TypeAdapter, PlacedInv, Next
  PROVE  TypeAdapter' /\ PlacedInv' /\ \A d, i : Owns(d, i) => OwnsIn(owner', d, i)
<1>1. CASE AdapterServes
  <2> DEFINE r == Head(inbox)
  <2>1. Serve(r) /\ inbox # <<>> /\ UNCHANGED alive
    BY <1>1 DEF AdapterServes
  <2>2. r \in Request
    BY <2>1, FirstRequest
  <2>3. PICK ids : Serves(r, ids)
    BY <2>1, <2>2, ServeSteps
  <2> QED
    BY <2>1, <2>3 DEF Serves, TypeAdapter, PlacedInv, Owns
<1>2. ASSUME UNCHANGED <<placed, placedFn, placedEx, owner>>, alive' \in BOOLEAN
      PROVE  TypeAdapter' /\ PlacedInv' /\ \A d, i : Owns(d, i) => OwnsIn(owner', d, i)
  BY <1>2 DEF TypeAdapter, PlacedInv, Owns
<1>3. alive \in BOOLEAN
  BY DEF TypeAdapter
<1>4. ASSUME NEW h \in Handlers, (ClientStep(h) \/ HandlerStep(h)) /\ UNCHANGED otherVars
      PROVE  UNCHANGED <<placed, placedFn, placedEx, owner, alive>>
  BY <1>4 DEF ClientStep, BreakBegin, UntilBegin, UnbreakBegin, ContinueBegin, HandlerStep, Put,
     WriteBack, ResumeSend, ResumeOk, ResumeFails, UntilReturns, ContinueTold, ContinueTimeout,
     ClearOnceAt, LocatesOnly, LocateFails, otherVars, adapterVars
<1>5. ASSUME NEW p \in Procs, SyncStep(p) /\ UNCHANGED otherVars
      PROVE  UNCHANGED <<placed, placedFn, placedEx, owner, alive>>
  BY <1>5 DEF SyncStep, Remove, Removed, Read, Send, SetOk, SetFails, otherVars, adapterVars
<1>6. CASE Pump /\ UNCHANGED otherVars
  BY <1>2, <1>3, <1>6 DEF Pump, otherVars, adapterVars
<1>7. ASSUME NEW h \in Handlers, FuncStep(h) \/ ExStep(h)
      PROVE  UNCHANGED <<placed, placedFn, placedEx, owner, alive>>
  BY <1>7 DEF FuncStep, BreakFnBegin, PutFuncBP, FuncBPs, FuncSend, FuncOk, FuncFails, UpdateFuncBP,
     ExStep, BreakExBegin, ExSend, SetExcFilters, ExFails, otherVars, adapterVars
<1>8. ASSUME NEW h \in Handlers, Stop(h)
      PROVE  UNCHANGED <<placed, placedFn, placedEx, owner>> /\ alive' = FALSE
  BY <1>8 DEF Stop
<1>9. CASE TargetHits \/ TargetEnters \/ TargetThrows
  BY <1>2, <1>3, <1>9 DEF TargetHits, TargetEnters, TargetThrows, Halts, otherVars, adapterVars
<1> QED
  BY <1>1, <1>2, <1>3, <1>4, <1>5, <1>6, <1>7, <1>8, <1>9 DEF Next

\* The function breakpoints and the exception filters.
LEMMA OtherNext ==
  ASSUME TypeOther, TypeLocal, MineInv, Next
  PROVE  TypeOther'
<1>a. Handlers \subseteq Procs
  BY DEF Procs
<1>u. CASE UNCHANGED <<funcs, filters, chosen>>
  BY <1>u DEF TypeOther
<1>1. CASE UNCHANGED otherVars
  BY <1>u, <1>1 DEF otherVars
<1>2. ASSUME NEW h \in Handlers, PutFuncBP(h) PROVE TypeOther'
  <2>1. mine[h] \in Ids
    BY <1>a, <1>2 DEF PutFuncBP, MineInv
  <2> QED
    BY <1>2, <2>1 DEF PutFuncBP, TypeOther
<1>3. ASSUME NEW h \in Handlers, BreakExBegin(h) \/ SetExcFilters(h) \/ ExFails(h) PROVE TypeOther'
  BY <1>a, <1>3 DEF BreakExBegin, SetExcFilters, ExFails, TypeOther
<1>4. ASSUME NEW h \in Handlers, Stop(h) PROVE TypeOther'
  BY <1>4 DEF Stop, TypeOther
<1>5. ASSUME NEW h \in Handlers,
             \/ BreakFnBegin(h) \/ FuncBPs(h) \/ FuncSend(h) \/ FuncOk(h) \/ FuncFails(h)
             \/ UpdateFuncBP(h) \/ ExSend(h)
      PROVE  TypeOther'
  BY <1>1, <1>5 DEF BreakFnBegin, FuncBPs, FuncSend, FuncOk, FuncFails, UpdateFuncBP, ExSend
<1>6. CASE AdapterServes \/ TargetHits \/ TargetEnters \/ TargetThrows
  BY <1>u, <1>1, <1>6 DEF AdapterServes, TargetHits, TargetEnters, TargetThrows, Halts
<1> QED
  BY <1>1, <1>2, <1>3, <1>4, <1>5, <1>6 DEF Next, FuncStep, ExStep

\* The program, its events, and what was reported.
LEMMA ProgramNext ==
  ASSUME TypeTable, TypeLocal, TypeAdapter, TypeProgram, Next
  PROVE  TypeProgram'
<1>a. Handlers \subseteq Procs
  BY DEF Procs
<1>u. CASE UNCHANGED <<programVars, reported, panicked>>
  BY <1>u DEF programVars, TypeProgram
<1>1. ASSUME NEW h \in Handlers, Put(h) PROVE TypeProgram'
  BY <1>1 DEF Put, programVars, TypeProgram
<1>2. ASSUME NEW h \in Handlers, ContinueTold(h) PROVE TypeProgram'
  BY <1>2 DEF ContinueTold, programVars, TypeProgram
<1>3. CASE Pump
  <2>1. events # <<>> /\ events \in Seq(Hit) /\ events' = Tail(events)
    BY <1>3 DEF Pump, TypeProgram
  <2>2. events' \in Seq(Hit)
    BY <2>1
  <2> QED
    BY <1>3, <2>2 DEF Pump, TypeProgram
<1>4. CASE AdapterServes
  <2>1. target' \in {"stopped", "running"}
    BY <1>4 DEF AdapterServes, Serve, ServeSet, ServeFunctions, ServeExceptions, ServeContinue,
       TypeProgram
  <2> QED
    BY <1>4, <2>1 DEF AdapterServes, TypeProgram
<1>5. ASSUME NEW l \in Lines \cup {0}, NEW here, here \subseteq Place, NEW who, who \subseteq Ids,
             NEW why \in Reasons, Halts(why, l, here, who)
      PROVE  TypeProgram'
  <2> DEFINE ids == IF HitIds THEN {q.dap : q \in here} ELSE {}
  <2>1. ids \subseteq Nat
    BY <1>5 DEF Place
  <2>2. events' = Append(events, [why |-> why, line |-> l, who |-> who, ids |-> ids])
    BY <1>5 DEF Halts
  <2> HIDE DEF ids
  <2>3. [why |-> why, line |-> l, who |-> who, ids |-> ids] \in Hit
    BY <1>5, <2>1 DEF Hit
  <2>4. events' \in Seq(Hit)
    BY <2>2, <2>3 DEF TypeProgram
  <2> QED
    BY <1>5, <2>4 DEF Halts, TypeProgram
<1>6. CASE TargetHits
  <2>1. PICK q0 \in placed :
          LET l == bp[q0.id].line
              here == {q \in placed : bp[q.id].line = l}
          IN  Halts("breakpoint", l, here, {q.id : q \in here})
    BY <1>6 DEF TargetHits
  <2> DEFINE l == bp[q0.id].line
             here == {q \in placed : bp[q.id].line = l}
  <2>2. \A q \in placed : q \in Place /\ q.id \in Ids
    BY DEF TypeAdapter, Place
  <2>3. l \in Lines \cup {0}
    BY <2>2 DEF TypeTable, BP
  <2>4. here \subseteq Place /\ {q.id : q \in here} \subseteq Ids
    BY <2>2
  <2> HIDE DEF l, here
  <2> QED
    BY <1>5, <2>1, <2>3, <2>4 DEF l, here, Reasons
<1>7. CASE TargetEnters \/ TargetThrows
  <2>1. \A q \in placedFn : {q} \subseteq Place
    BY DEF TypeAdapter
  <2>2. PICK why \in Reasons, l \in Lines :
          Halts(why, l, {}, {}) \/ \E q \in placedFn : Halts(why, l, {q}, {})
    BY <1>7 DEF TargetEnters, TargetThrows, Reasons
  <2>3. l \in Lines \cup {0} /\ {} \subseteq Place /\ {} \subseteq Ids
    OBVIOUS
  <2>4. CASE Halts(why, l, {}, {})
    BY <1>5, <2>3, <2>4
  <2>5. ASSUME NEW q \in placedFn, Halts(why, l, {q}, {}) PROVE TypeProgram'
    BY <1>5, <2>1, <2>3, <2>5
  <2> QED
    BY <2>2, <2>4, <2>5
<1>8. ASSUME NEW h \in Handlers,
             \/ ClientStep(h)
             \/ WriteBack(h) \/ ResumeSend(h) \/ ResumeOk(h) \/ ResumeFails(h) \/ UntilReturns(h)
             \/ ContinueTimeout(h) \/ ClearOnceAt(h) \/ LocatesOnly(h) \/ LocateFails(h)
      PROVE  TypeProgram'
  BY <1>u, <1>8 DEF ClientStep, BreakBegin, UntilBegin, UnbreakBegin, ContinueBegin, WriteBack,
     ResumeSend, ResumeOk, ResumeFails, UntilReturns, ContinueTimeout, ClearOnceAt, LocatesOnly,
     LocateFails
<1>9. ASSUME NEW p \in Procs, SyncStep(p) PROVE TypeProgram'
  BY <1>u, <1>9 DEF SyncStep, Remove, Removed, Read, Send, SetOk, SetFails
<1>10. ASSUME NEW h \in Handlers, FuncStep(h) \/ ExStep(h) \/ Stop(h) PROVE TypeProgram'
  BY <1>u, <1>10 DEF FuncStep, BreakFnBegin, PutFuncBP, FuncBPs, FuncSend, FuncOk, FuncFails,
     UpdateFuncBP, ExStep, BreakExBegin, ExSend, SetExcFilters, ExFails, Stop
<1> QED
  BY <1>1, <1>2, <1>3, <1>4, <1>6, <1>7, <1>8, <1>9, <1>10 DEF Next, HandlerStep

\* Every step keeps the types.
LEMMA TypeNext ==
  ASSUME TypeOK, MineInv, PlacedInv, AnswerInv, Next
  PROVE  TypeOK'
<1>1. TypeTable /\ TypeLocal /\ TypeCalls /\ TypeAdapter /\ TypeOther /\ TypeProgram
  BY Types
<1>2. TypeTable' /\ TypeLocal' /\ TypeCalls' /\ TypeAdapter' /\ TypeOther' /\ TypeProgram'
  BY <1>1, TableNext, LocalNext, CallsNext, AdapterNext, OtherNext, ProgramNext
<1> QED
  BY <1>2 DEF TypeOK, TypeTable, TypeLocal, TypeCalls, TypeAdapter, TypeOther, TypeProgram, Request,
     Place

-----------------------------------------------------------------------------
(* Where the goroutines are.                                               *)

\* A goroutine is where its command takes it.
LEMMA StageNext ==
  ASSUME TypeLocal, StageInv, Next
  PROVE  StageInv'
<1>a. /\ Handlers \subseteq Procs /\ Cleaners \subseteq Procs
      /\ pc \in [Procs -> Labels] /\ cmd \in [Procs -> Commands]
  BY DEF Procs, TypeLocal
<1>u. CASE UNCHANGED <<pc, cmd>>
  BY <1>u DEF StageInv
<1>s. ASSUME NEW p \in Procs, NEW l, NEW c \in Does(l),
             Goto(p, l), cmd' = [cmd EXCEPT ![p] = c]
      PROVE  StageInv'
  BY <1>a, <1>s DEF Goto, StageInv
<1>g. ASSUME NEW p \in Procs, NEW l, cmd[p] \in Does(l), Goto(p, l), UNCHANGED localVars
      PROVE  StageInv'
  BY <1>a, <1>g DEF Goto, localVars, StageInv
<1>f. ASSUME NEW p \in Procs, Finish(p) PROVE StageInv'
  BY <1>s, <1>f DEF Finish, Does
<1>1. ASSUME NEW h \in Handlers, ClientStep(h) \/ BreakFnBegin(h) \/ BreakExBegin(h)
      PROVE  StageInv'
  <2>1. PICK c, l : c \in Does(l) /\ Begin(h, c) /\ Goto(h, l)
    BY <1>1 DEF ClientStep, BreakBegin, UntilBegin, UnbreakBegin, ContinueBegin, BreakFnBegin,
       BreakExBegin, Does
  <2> QED
    BY <1>a, <1>s, <2>1 DEF Begin
<1>2. ASSUME NEW h \in Handlers, Put(h) PROVE StageInv'
  BY <1>a, <1>f, <1>g, <1>2 DEF Put, StageInv, Does
<1>3. ASSUME NEW h \in Handlers, WriteBack(h) \/ UpdateFuncBP(h) PROVE StageInv'
  BY <1>a, <1>f, <1>u, <1>3 DEF WriteBack, UpdateFuncBP
<1>4. ASSUME NEW h \in Handlers, ResumeSend(h) \/ ResumeOk(h) \/ ContinueTold(h) PROVE StageInv'
  BY <1>a, <1>g, <1>4 DEF ResumeSend, ResumeOk, ContinueTold, StageInv, Does
<1>5. ASSUME NEW h \in Handlers,
             ResumeFails(h) \/ ContinueTimeout(h) \/ LocatesOnly(h) \/ LocateFails(h)
      PROVE  StageInv'
  BY <1>a, <1>f, <1>5 DEF ResumeFails, ContinueTimeout, LocatesOnly, LocateFails
<1>6. ASSUME NEW h \in Handlers, UntilReturns(h) \/ ClearOnceAt(h) PROVE StageInv'
  BY <1>a, <1>s, <1>6 DEF UntilReturns, ClearOnceAt, Does
<1>7. ASSUME NEW p \in Procs, SyncStep(p) PROVE StageInv'
  <2>1. CASE Remove(p)
    BY <1>u, <2>1 DEF Remove
  <2>2. CASE Removed(p)
    BY <1>f, <1>g, <2>2 DEF Removed, StageInv, Does
  <2>3. CASE Read(p)
    BY <1>a, <2>3 DEF Read, Goto, StageInv, Does
  <2>4. CASE Send(p)
    BY <1>g, <2>4 DEF Send, StageInv, Does
  <2>5. CASE SetOk(p) \/ SetFails(p)
    BY <1>f, <1>g, <2>5 DEF SetOk, SetFails, Synced, Does
  <2> QED
    BY <1>7, <2>1, <2>2, <2>3, <2>4, <2>5 DEF SyncStep
<1>8. CASE Pump
  <2>1. \/ UNCHANGED <<pc, cmd>>
        \/ \E c \in Cleaners : Goto(c, "remove") /\ cmd' = [cmd EXCEPT ![c] = "clear"]
    BY <1>8 DEF Pump
  <2> QED
    BY <1>a, <1>s, <1>u, <2>1 DEF Does
<1>9. ASSUME NEW h \in Handlers, PutFuncBP(h) \/ FuncSend(h) \/ FuncOk(h) \/ ExSend(h)
      PROVE  StageInv'
  BY <1>a, <1>g, <1>9 DEF PutFuncBP, FuncSend, FuncOk, ExSend, StageInv, Does
<1>10. ASSUME NEW h \in Handlers, FuncBPs(h) PROVE StageInv'
  BY <1>a, <1>10 DEF FuncBPs, Goto, StageInv, Does
<1>11. ASSUME NEW h \in Handlers, FuncFails(h) \/ SetExcFilters(h) \/ ExFails(h) PROVE StageInv'
  BY <1>a, <1>f, <1>11 DEF FuncFails, SetExcFilters, ExFails
<1>12. ASSUME NEW h \in Handlers, Stop(h) PROVE StageInv'
  BY <1>u, <1>12 DEF Stop, localVars
<1>13. CASE AdapterServes \/ TargetHits \/ TargetEnters \/ TargetThrows
  BY <1>u, <1>13 DEF AdapterServes, TargetHits, TargetEnters, TargetThrows, Halts, localVars
<1> QED
  BY <1>1, <1>2, <1>3, <1>4, <1>5, <1>6, <1>7, <1>8, <1>9, <1>10, <1>11, <1>12, <1>13
  DEF Next, HandlerStep, FuncStep, ExStep

\* A command makes its breakpoint.
Makes(h, b) ==
  /\ pc[h] = "idle" /\ Allocate(h, b) /\ b \in BP
  /\ cmd' = [cmd EXCEPT ![h] = b.by] /\ \E l \in {"put", "putfn"} : Goto(h, l)
  /\ UNCHANGED <<table, open>>

\* It enters it.
Enters(h) ==
  /\ pc[h] = "put" /\ open /\ Goto(h, "read")
  /\ table' = table \cup {mine[h]}
  /\ UNCHANGED <<bp, next, open, cmd, mine>>

\* A goroutine keeps its breakpoint or is done with it; an until that is done has
\* taken it back.
Along(p) ==
  /\ mine'[p] \in {mine[p], 0}
  /\ pc'[p] \in {"put", "putfn"} => pc'[p] = pc[p] /\ mine'[p] = mine[p] /\ cmd'[p] = cmd[p]
  /\ cmd[p] = "until" => (cmd'[p] = "until" /\ mine'[p] = mine[p]) \/ mine[p] \notin table'

\* The origin of the breakpoints does not change.
Same == next' = next /\ \A i \in Ids : bp'[i].by = bp[i].by

Goes ==
  /\ Same /\ \A p \in Procs : Along(p)
  /\ (table' \subseteq table /\ open' = open) \/ table' = {}

\* Every step is one of the three.
LEMMA TableSteps ==
  ASSUME TypeTable, TypeLocal, TypeCalls, AnswerInv, StageInv, TableInv, Next
  PROVE  (\E h \in Handlers : \E b : Makes(h, b)) \/ (\E h \in Handlers : Enters(h)) \/ Goes
<1>a. /\ Handlers \subseteq Procs /\ Cleaners \subseteq Procs
      /\ pc \in [Procs -> Labels] /\ cmd \in [Procs -> Commands]
      /\ mine \in [Procs -> Ids \cup {0}]
  BY DEF Procs, TypeLocal
<1>b. UNCHANGED <<bp, next>> => Same
  BY DEF Same
<1>u. ASSUME UNCHANGED <<pc, cmd, mine, bp, next>>, table' \subseteq table, open' = open \/ table' = {}
      PROVE  Goes
  BY <1>b, <1>u DEF Goes, Along
<1>g. ASSUME NEW p \in Procs, NEW l, l \notin {"put", "putfn"}, Goto(p, l),
             cmd' = cmd \/ (cmd[p] # "until" /\ \E c : cmd' = [cmd EXCEPT ![p] = c]),
             UNCHANGED <<mine, bp, next, table, open>>
      PROVE  Goes
  BY <1>a, <1>b, <1>g DEF Goto, Goes, Along
<1>f. ASSUME NEW p \in Procs, Finish(p), Same, UNCHANGED open, table' \subseteq table,
             cmd[p] = "until" => mine[p] \notin table'
      PROVE  Goes
  BY <1>a, <1>f DEF Finish, Goto, Goes, Along
<1>1. ASSUME NEW h \in Handlers, BreakBegin(h) \/ UntilBegin(h) \/ BreakFnBegin(h)
      PROVE  \E b : Makes(h, b)
  <2>1. PICK b \in BP : Allocate(h, b) /\ Begin(h, b.by)
    BY <1>1, NewBP
  <2>2. UNCHANGED <<table, open>> /\ \E l \in {"put", "putfn"} : Goto(h, l)
    BY <1>1 DEF BreakBegin, UntilBegin, BreakFnBegin
  <2>3. Makes(h, b)
    BY <2>1, <2>2 DEF Begin, Accept, Makes
  <2> QED
    BY <2>3
<1>2. ASSUME NEW h \in Handlers, UnbreakBegin(h) \/ ContinueBegin(h) \/ BreakExBegin(h) PROVE Goes
  <2>1. PICK c, l : Begin(h, c) /\ Goto(h, l) /\ l \notin {"put", "putfn"}
    BY <1>2 DEF UnbreakBegin, ContinueBegin, BreakExBegin
  <2>2. UNCHANGED <<mine, bp, next, table, open>>
    BY <1>2 DEF UnbreakBegin, ContinueBegin, BreakExBegin, tableVars
  <2>3. cmd[h] # "until"
    BY <1>a, <2>1 DEF Begin, Accept, StageInv, Does
  <2> QED
    BY <1>a, <1>g, <2>1, <2>2, <2>3 DEF Begin
<1>3. ASSUME NEW h \in Handlers, Put(h) PROVE Enters(h) \/ Goes
  <2>1. CASE open
    BY <1>3, <2>1 DEF Put, Enters, localVars
  <2>2. CASE ~open
    BY <1>a, <1>b, <1>f, <1>3, <2>2 DEF Put, TableInv
  <2> QED
    BY <2>1, <2>2
<1>4. ASSUME NEW h \in Handlers, WriteBack(h) \/ UpdateFuncBP(h) PROVE Goes
  <2>1. UNCHANGED <<table, next, open>> /\ cmd[h] # "until"
    BY <1>a, <1>4 DEF WriteBack, UpdateFuncBP, StageInv, Does
  <2>2. Same
    <3>1. CASE UNCHANGED bp
      BY <1>b, <2>1, <3>1
    <3>2. CASE ~UNCHANGED bp
      <4>1. /\ snap[h] # <<>> /\ pc[h] \in {"writing", "writingfn"}
            /\ bp' = [bp EXCEPT ![Head(snap[h])].dapid = Head(answer[h].ids)]
        BY <1>4, <3>2 DEF WriteBack, UpdateFuncBP
      <4>2. Head(snap[h]) \in Ids /\ Head(answer[h].ids) \in Nat
        BY <1>a, <4>1, InHand
      <4> QED
        BY <2>1, <4>1, <4>2, NoteType DEF Same
    <3> QED
      BY <3>1, <3>2
  <2>3. CASE Finish(h)
    BY <1>a, <1>f, <2>1, <2>2, <2>3
  <2>4. CASE UNCHANGED <<pc, cmd, mine>>
    BY <2>1, <2>2, <2>4 DEF Goes, Along
  <2> QED
    BY <1>4, <2>3, <2>4 DEF WriteBack, UpdateFuncBP
<1>5. ASSUME NEW h \in Handlers,
             \/ ResumeSend(h) \/ ResumeOk(h) \/ ContinueTold(h)
             \/ PutFuncBP(h) \/ FuncSend(h) \/ FuncOk(h) \/ ExSend(h)
      PROVE  Goes
  BY <1>a, <1>g, <1>5 DEF ResumeSend, ResumeOk, ContinueTold, PutFuncBP, FuncSend, FuncOk, ExSend,
     localVars, tableVars
<1>6. ASSUME NEW h \in Handlers, FuncBPs(h) PROVE Goes
  BY <1>a, <1>g, <1>6 DEF FuncBPs, tableVars
<1>7. ASSUME NEW h \in Handlers,
             \/ ContinueTimeout(h) \/ LocatesOnly(h) \/ LocateFails(h)
             \/ FuncFails(h) \/ SetExcFilters(h) \/ ExFails(h)
      PROVE  Goes
  <2>1. Finish(h) /\ UNCHANGED <<table, bp, next, open>>
    BY <1>7 DEF ContinueTimeout, LocatesOnly, LocateFails, FuncFails, SetExcFilters, ExFails,
       tableVars
  <2>2. cmd[h] # "until"
    BY <1>a, <1>7 DEF ContinueTimeout, LocatesOnly, LocateFails, FuncFails, SetExcFilters, ExFails,
       StageInv, Does
  <2> QED
    BY <1>a, <1>b, <1>f, <2>1, <2>2
<1>8. ASSUME NEW h \in Handlers, ResumeFails(h) PROVE Goes
  BY <1>a, <1>b, <1>f, <1>8 DEF ResumeFails
<1>9. ASSUME NEW h \in Handlers, UntilReturns(h) PROVE Goes
  BY <1>a, <1>b, <1>9 DEF UntilReturns, Goto, Goes, Along
<1>10. ASSUME NEW h \in Handlers, ClearOnceAt(h) PROVE Goes
  BY <1>a, <1>g, <1>10 DEF ClearOnceAt
<1>11. ASSUME NEW p \in Procs, Remove(p) PROVE Goes
  BY <1>u, <1>11 DEF Remove
<1>12. ASSUME NEW p \in Procs, Removed(p) PROVE Goes
  <2>1. cmd[p] # "until"
    BY <1>12 DEF Removed, StageInv, Does
  <2> QED
    BY <1>b, <1>f, <1>g, <1>12, <2>1 DEF Removed, localVars, tableVars
<1>13. ASSUME NEW p \in Procs, Read(p) \/ Send(p) PROVE Goes
  BY <1>g, <1>13 DEF Read, Send, localVars, tableVars
<1>14. ASSUME NEW p \in Procs, SetOk(p) PROVE Goes
  <2>1. UNCHANGED <<table, bp, next, open>>
    BY <1>14 DEF SetOk, tableVars
  <2>2. \/ Finish(p) /\ cmd[p] # "until"
        \/ UNCHANGED localVars /\ \E l \in {"writing", "resume", "locate"} : Goto(p, l)
    BY <1>14 DEF SetOk, Synced
  <2> QED
    BY <1>b, <1>f, <1>g, <2>1, <2>2 DEF localVars
<1>15. ASSUME NEW p \in Procs, SetFails(p) PROVE Goes
  <2>1. CASE Finish(p)
    BY <1>b, <1>f, <1>15, <2>1 DEF SetFails
  <2>2. CASE ~Finish(p)
    <3>1. Goto(p, "locate") /\ UNCHANGED localVars /\ cmd[p] = "leave"
      BY <1>15, <2>2 DEF SetFails, Synced
    <3> QED
      BY <1>g, <1>15, <3>1 DEF SetFails, localVars
  <2> QED
    BY <2>1, <2>2
<1>16. CASE Pump
  <2>1. UNCHANGED <<table, bp, next, open, mine>>
    BY <1>16 DEF Pump
  <2>2. \/ UNCHANGED <<pc, cmd>>
        \/ \E c \in Cleaners : /\ pc[c] = "idle" /\ Goto(c, "remove")
                               /\ cmd' = [cmd EXCEPT ![c] = "clear"]
    BY <1>16 DEF Pump
  <2>3. ASSUME NEW c \in Cleaners, pc[c] = "idle", Goto(c, "remove"), cmd' = [cmd EXCEPT ![c] = "clear"]
        PROVE  Goes
    <3>1. cmd[c] # "until"
      BY <1>a, <2>3 DEF StageInv, Does
    <3> QED
      BY <1>a, <1>g, <2>1, <2>3, <3>1
  <2> QED
    BY <1>u, <2>1, <2>2, <2>3
<1>17. ASSUME NEW h \in Handlers, Stop(h) PROVE Goes
  BY <1>u, <1>17 DEF Stop, localVars
<1>18. CASE AdapterServes \/ TargetHits \/ TargetEnters \/ TargetThrows
  BY <1>u, <1>18 DEF AdapterServes, TargetHits, TargetEnters, TargetThrows, Halts, localVars, tableVars
<1> QED
  BY <1>1, <1>2, <1>3, <1>4, <1>5, <1>6, <1>7, <1>8, <1>9, <1>10, <1>11, <1>12, <1>13, <1>14,
     <1>15, <1>16, <1>17, <1>18
  DEF Next, ClientStep, HandlerStep, SyncStep, FuncStep, ExStep

\* until takes its breakpoint back.
LEMMA UntilNext ==
  ASSUME TypeTable, TypeLocal, TypeCalls, AnswerInv, StageInv, TableInv, MineInv, UntilCleansUp, Next
  PROVE  TableInv' /\ MineInv' /\ UntilCleansUp'
<1>a. /\ Handlers \subseteq Procs /\ table \subseteq Ids /\ next \in Nat
      /\ pc \in [Procs -> Labels] /\ cmd \in [Procs -> Commands]
      /\ mine \in [Procs -> Ids \cup {0}] /\ Ids \subseteq Nat
  BY DEF Procs, TypeLocal, TypeTable, Ids
<1>b. ASSUME NEW p \in Procs PROVE mine[p] \in Nat
  <2>1. mine[p] \in Ids \/ mine[p] = 0
    BY <1>a
  <2> QED
    BY <2>1 DEF Ids
<1>1. ASSUME NEW h \in Handlers, NEW b, Makes(h, b)
      PROVE  TableInv' /\ MineInv' /\ UntilCleansUp'
  <2>1. /\ next \in Ids /\ bp' \in [Ids -> BP] /\ bp' = [bp EXCEPT ![next] = b] /\ next' = next + 1
        /\ mine' = [mine EXCEPT ![h] = next]
    BY <1>1, AllocateType DEF Makes
  <2>2. \A i \in Ids : i # next => bp'[i] = bp[i]
    BY <2>1 DEF TypeTable
  <2>3. bp'[next] = b
    BY <2>1 DEF TypeTable
  <2>4. TableInv'
    BY <1>a, <1>1, <2>1 DEF Makes, TableInv
  <2>5. MineInv'
    <3> SUFFICES ASSUME NEW p \in Procs
                 PROVE  /\ mine'[p] < next'
                        /\ pc'[p] \in {"put", "putfn"} => mine'[p] \in Ids /\ bp'[mine'[p]].by = cmd'[p]
      BY DEF MineInv
    <3>1. CASE p = h
      BY <1>a, <1>1, <2>1, <2>3, <3>1 DEF Makes
    <3>2. CASE p # h
      <4>1. mine'[p] = mine[p] /\ pc'[p] = pc[p] /\ cmd'[p] = cmd[p] /\ mine[p] < next
            /\ mine[p] \in Nat
        BY <1>a, <1>b, <1>1, <2>1, <3>2 DEF Makes, Goto, MineInv
      <4> QED
        BY <1>a, <2>1, <2>2, <4>1 DEF MineInv
    <3> QED
      BY <3>1, <3>2
  <2>6. UntilCleansUp'
    <3> SUFFICES ASSUME NEW i \in table, bp'[i].by = "until"
                 PROVE  \E g \in Handlers : cmd'[g] = "until" /\ mine'[g] = i
      BY <1>1 DEF Makes, UntilCleansUp
    <3>1. i \in Ids /\ i # next
      BY <1>a DEF TableInv
    <3>2. PICK g \in Handlers : cmd[g] = "until" /\ mine[g] = i
      BY <2>2, <3>1 DEF UntilCleansUp
    <3>3. g # h
      BY <1>a, <1>1, <3>2 DEF Makes, StageInv, Does
    <3> QED
      BY <1>a, <1>1, <2>1, <3>2, <3>3 DEF Makes
  <2> QED
    BY <2>4, <2>5, <2>6
<1>2. ASSUME NEW h \in Handlers, Enters(h)
      PROVE  TableInv' /\ MineInv' /\ UntilCleansUp'
  <2>1. mine[h] \in Ids /\ mine[h] < next /\ bp[mine[h]].by = cmd[h]
    BY <1>a, <1>2 DEF Enters, MineInv
  <2>2. TableInv'
    BY <1>2, <2>1 DEF Enters, TableInv
  <2>3. MineInv'
    BY <1>a, <1>2 DEF Enters, Goto, MineInv
  <2>4. UntilCleansUp'
    BY <1>2, <2>1 DEF Enters, UntilCleansUp
  <2> QED
    BY <2>2, <2>3, <2>4
<1>3. CASE Goes
  <2>1. next' = next /\ \A i \in Ids : bp'[i].by = bp[i].by
    BY <1>3 DEF Goes, Same
  <2>2. \A p \in Procs : Along(p)
    BY <1>3 DEF Goes
  <2>3. table' \subseteq table
    BY <1>3 DEF Goes
  <2>4. TableInv'
    BY <1>3, <2>1, <2>3 DEF Goes, TableInv
  <2>5. MineInv'
    <3> SUFFICES ASSUME NEW p \in Procs
                 PROVE  /\ mine'[p] < next'
                        /\ pc'[p] \in {"put", "putfn"} => mine'[p] \in Ids /\ bp'[mine'[p]].by = cmd'[p]
      BY DEF MineInv
    <3>1. mine[p] < next /\ mine[p] \in Nat /\ Along(p)
      BY <1>b, <2>2 DEF MineInv
    <3>2. mine'[p] < next'
      BY <1>a, <2>1, <3>1 DEF Along
    <3> QED
      BY <2>1, <3>1, <3>2 DEF Along, MineInv
  <2>6. UntilCleansUp'
    <3> SUFFICES ASSUME NEW i \in table', bp'[i].by = "until"
                 PROVE  \E g \in Handlers : cmd'[g] = "until" /\ mine'[g] = i
      BY DEF UntilCleansUp
    <3>1. i \in table /\ bp[i].by = "until"
      BY <1>a, <2>1, <2>3
    <3>2. PICK g \in Handlers : cmd[g] = "until" /\ mine[g] = i
      BY <3>1 DEF UntilCleansUp
    <3> QED
      BY <1>a, <2>2, <3>2 DEF Along
  <2> QED
    BY <2>4, <2>5, <2>6
<1> QED
  BY <1>1, <1>2, <1>3, TableSteps

-----------------------------------------------------------------------------
(* Calls.                                                                  *)

\* Where a goroutine waits for an answer or works on one.
Busy == {"setting", "settingfn", "settingex", "resuming", "writing", "writingfn"}

Others(p) == \A q \in Procs \ {p} : pc'[q] = pc[q] /\ snap'[q] = snap[q] /\ answer'[q] = answer[q]

\* No id is noted: a breakpoint keeps the one it has, or is new.
Unnoted == \A i \in Ids : bp'[i].dapid \in {bp[i].dapid, 0}

Idles(p) ==
  /\ Others(p) /\ pc[p] \notin Busy /\ pc'[p] \notin Busy
  /\ UNCHANGED <<answer, inbox>>

Posts(p, r) ==
  /\ Others(p) /\ pc[p] \notin Busy /\ r \in Request /\ Call(p, r)
  /\ r.live /\ r.from = p /\ pc'[p] = Waits(r.req)
  /\ r.req \in {"set", "functions"} => Lists(r.list, snap'[p])

Returns(p) ==
  /\ Others(p) /\ pc[p] \in Busy /\ pc'[p] \notin Busy /\ answer'[p] = NoAnswer
  /\ (answer[p].st = "ok" /\ inbox' = inbox) \/ CallFails(p)

Keeps(p) ==
  /\ Others(p) /\ answer[p].st = "ok"
  /\ pc[p] \in {"setting", "settingfn"} /\ pc'[p] \in {"writing", "writingfn"}
  /\ UNCHANGED <<snap, answer, inbox>>

Notes(p) ==
  /\ Others(p) /\ pc[p] \in {"writing", "writingfn"} /\ pc'[p] = pc[p] /\ snap[p] # <<>>
  /\ snap'[p] = Tail(snap[p]) /\ answer'[p].st = "ok" /\ answer'[p].ids = Tail(answer[p].ids)
  /\ UNCHANGED inbox
  /\ \/ UNCHANGED bp
     \/ bp' = [bp EXCEPT ![Head(snap[p])].dapid = Head(answer[p].ids)]

Rests == UNCHANGED <<pc, snap, answer>> /\ (inbox' = inbox \/ inbox' = <<>>)

\* Every step is one of these.
LEMMA CallSteps ==
  ASSUME TypeTable, TypeLocal, TypeCalls, TypeOther, AnswerInv, Next
  PROVE  \/ \E p \in Procs : Notes(p)
         \/ Unnoted /\ \E p \in Procs : Idles(p) \/ Returns(p) \/ Keeps(p) \/ \E r : Posts(p, r)
         \/ Unnoted /\ Rests
         \/ Unnoted /\ AdapterServes
<1>a. /\ Handlers \subseteq Procs /\ Cleaners \subseteq Procs
      /\ pc \in [Procs -> Labels] /\ snap \in [Procs -> Seq(Ids)] /\ answer \in [Procs -> Answer]
  BY DEF Procs, TypeLocal, TypeCalls
<1>b. UNCHANGED bp => Unnoted
  BY DEF Unnoted
<1>g. ASSUME NEW p \in Procs, NEW l, pc[p] \notin Busy, l \notin Busy, Goto(p, l),
             snap' = snap \/ (\E s : snap' = [snap EXCEPT ![p] = s]), UNCHANGED callVars
      PROVE  Idles(p)
  BY <1>a, <1>g DEF Goto, callVars, Idles, Others
<1>f. ASSUME NEW p \in Procs, Finish(p), pc[p] \notin Busy, UNCHANGED callVars PROVE Idles(p)
  <2>1. snap' = [snap EXCEPT ![p] = <<>>] /\ Goto(p, "idle") /\ "idle" \notin Busy
    BY <1>f DEF Finish, Busy
  <2> QED
    BY <1>f, <1>g, <2>1
<1>r. ASSUME NEW p \in Procs, Receive(p) \/ CallFails(p), pc[p] \in Busy,
             \/ Finish(p)
             \/ UNCHANGED localVars /\ \E l \in {"resume", "waiting", "locate"} : Goto(p, l)
      PROVE  Returns(p)
  <2>1. answer' = [answer EXCEPT ![p] = NoAnswer]
    BY <1>r DEF Receive, CallFails
  <2>2. (answer[p].st = "ok" /\ inbox' = inbox) \/ CallFails(p)
    BY <1>r DEF Receive
  <2>3. pc'[p] \notin Busy /\ \A q \in Procs \ {p} : pc'[q] = pc[q] /\ snap'[q] = snap[q]
    BY <1>a, <1>r DEF Finish, Goto, localVars, Busy
  <2> QED
    BY <1>a, <1>r, <2>1, <2>2, <2>3 DEF Returns, Others
<1>p. ASSUME NEW p \in Procs, NEW r \in Request, NEW l, Call(p, r), r.live, r.from = p,
             l = Waits(r.req), Goto(p, l), pc[p] \notin Busy, UNCHANGED localVars,
             r.req \in {"set", "functions"} => Lists(r.list, snap[p])
      PROVE  Posts(p, r)
  BY <1>a, <1>p DEF Call, Goto, localVars, Posts, Others
<1>1. ASSUME NEW h \in Handlers, BreakBegin(h) \/ UntilBegin(h) \/ BreakFnBegin(h)
      PROVE  Unnoted /\ Idles(h)
  <2>1. PICK b : Allocate(h, b) /\ b.dapid = 0
    BY <1>1, NewBP
  <2>2. Unnoted
    BY <2>1 DEF Allocate, TypeTable, Unnoted
  <2>3. PICK l \in {"put", "putfn"} : Goto(h, l)
    BY <1>1 DEF BreakBegin, UntilBegin, BreakFnBegin
  <2>4. UNCHANGED <<snap, callVars>> /\ pc[h] = "idle"
    BY <1>1 DEF BreakBegin, UntilBegin, BreakFnBegin, Begin, Accept
  <2> QED
    BY <1>a, <1>g, <2>2, <2>3, <2>4 DEF Busy
<1>2. ASSUME NEW h \in Handlers, UnbreakBegin(h) \/ ContinueBegin(h) \/ BreakExBegin(h)
      PROVE  Unnoted /\ Idles(h)
  <2>1. PICK l \in {"remove", "resume", "sendex"} : Goto(h, l)
    BY <1>2 DEF UnbreakBegin, ContinueBegin, BreakExBegin
  <2>2. UNCHANGED <<bp, snap, callVars>> /\ pc[h] = "idle"
    BY <1>2 DEF UnbreakBegin, ContinueBegin, BreakExBegin, Begin, Accept, tableVars
  <2> QED
    BY <1>a, <1>b, <1>g, <2>1, <2>2 DEF Busy
<1>3. ASSUME NEW h \in Handlers,
             \/ Put(h) \/ ContinueTold(h) \/ UntilReturns(h) \/ ContinueTimeout(h)
             \/ ClearOnceAt(h) \/ LocatesOnly(h) \/ LocateFails(h) \/ PutFuncBP(h) \/ FuncBPs(h)
      PROVE  Unnoted /\ Idles(h)
  <2>1. UNCHANGED <<bp, callVars>> /\ pc[h] \in {"put", "waiting", "locate", "putfn", "readfn"}
    BY <1>3 DEF Put, ContinueTold, UntilReturns, ContinueTimeout, ClearOnceAt, LocatesOnly,
       LocateFails, PutFuncBP, FuncBPs, tableVars
  <2>2. \/ Finish(h)
        \/ /\ \E l \in {"read", "locate", "remove", "readfn", "sendfn"} : Goto(h, l)
           /\ snap' = snap \/ \E s : snap' = [snap EXCEPT ![h] = s]
    BY <1>3 DEF Put, ContinueTold, UntilReturns, ContinueTimeout, ClearOnceAt, LocatesOnly,
       LocateFails, PutFuncBP, FuncBPs, localVars
  <2> QED
    BY <1>a, <1>b, <1>f, <1>g, <2>1, <2>2 DEF Busy
<1>4. ASSUME NEW h \in Handlers, WriteBack(h) \/ UpdateFuncBP(h)
      PROVE  Notes(h) \/ (Unnoted /\ Returns(h))
  <2>1. pc[h] \in {"writing", "writingfn"} /\ UNCHANGED inbox
    BY <1>4 DEF WriteBack, UpdateFuncBP
  <2>2. answer[h].st = "ok"
    BY <1>a, <2>1 DEF AnswerInv
  <2>3. CASE snap[h] = <<>> \/ (answer[h].ids = <<>> /\ WriteBack(h))
    <3>1. Finish(h) /\ answer' = [answer EXCEPT ![h] = NoAnswer] /\ UNCHANGED bp
      BY <1>4, <2>3 DEF WriteBack, UpdateFuncBP
    <3>2. pc'[h] = "idle" /\ \A q \in Procs \ {h} : pc'[q] = pc[q] /\ snap'[q] = snap[q]
      BY <1>a, <3>1 DEF Finish, Goto
    <3> QED
      BY <1>a, <1>b, <2>1, <2>2, <3>1, <3>2 DEF Returns, Others, Busy
  <2>4. CASE ~(snap[h] = <<>> \/ (answer[h].ids = <<>> /\ WriteBack(h)))
    <3>1. /\ snap' = [snap EXCEPT ![h] = Tail(@)] /\ answer' = [answer EXCEPT ![h].ids = Tail(@)]
          /\ UNCHANGED pc /\ snap[h] # <<>>
          /\ UNCHANGED bp \/ bp' = [bp EXCEPT ![Head(snap[h])].dapid = Head(answer[h].ids)]
      BY <1>4, <2>4 DEF WriteBack, UpdateFuncBP
    <3>2. answer'[h].st = "ok" /\ answer'[h].ids = Tail(answer[h].ids)
      BY <1>a, <2>2, <3>1 DEF Answer
    <3> QED
      BY <1>a, <2>1, <3>1, <3>2 DEF Notes, Others
  <2> QED
    BY <2>3, <2>4
<1>5. ASSUME NEW h \in Handlers, ResumeSend(h) \/ ExSend(h)
      PROVE  Unnoted /\ \E r : Posts(h, r)
  <2>1. PICK r, l : /\ Call(h, r) /\ l = Waits(r.req) /\ Goto(h, l) /\ r.live /\ r.from = h
                    /\ r \in Request /\ r.req \notin {"set", "functions"}
    <3>1. CASE ResumeSend(h)
      <4> DEFINE r == [from |-> h, live |-> TRUE, req |-> "continue", list |-> <<>>, set |-> {}]
      <4>1. Call(h, r) /\ Goto(h, "resuming")
        BY <3>1 DEF ResumeSend
      <4>2. /\ r \in Request /\ r.live /\ r.from = h /\ Waits(r.req) = "resuming"
            /\ r.req \notin {"set", "functions"}
        BY <1>a DEF Request, Waits
      <4> HIDE DEF r
      <4> QED
        BY <4>1, <4>2
    <3>2. CASE ExSend(h)
      <4> DEFINE r == [from |-> h, live |-> TRUE, req |-> "exceptions", list |-> <<>>, set |-> chosen[h]]
      <4>1. Call(h, r) /\ Goto(h, "settingex")
        BY <3>2 DEF ExSend
      <4>2. /\ r \in Request /\ r.live /\ r.from = h /\ Waits(r.req) = "settingex"
            /\ r.req \notin {"set", "functions"}
        BY <1>a DEF Request, Waits, TypeOther
      <4> HIDE DEF r
      <4> QED
        BY <4>1, <4>2
    <3> QED
      BY <1>5, <3>1, <3>2
  <2>2. UNCHANGED <<bp, localVars>> /\ pc[h] \in {"resume", "sendex"}
    BY <1>5 DEF ResumeSend, ExSend, tableVars
  <2>3. Posts(h, r)
    BY <1>a, <1>p, <2>1, <2>2 DEF Busy
  <2> QED
    BY <1>b, <2>2, <2>3
<1>6. ASSUME NEW p \in Procs, Send(p) PROVE Unnoted /\ \E r : Posts(p, r)
  <2> DEFINE l == [i \in DOMAIN snap[p] |-> Sent(p, snap[p][i])]
             r == [from |-> p, live |-> TRUE, req |-> "set", list |-> l, set |-> {}]
  <2>1. l \in Seq(Item) /\ Lists(l, snap[p])
    BY ListType
  <2>2. Call(p, r) /\ Goto(p, "setting") /\ UNCHANGED <<bp, localVars>> /\ pc[p] = "send"
    BY <1>6 DEF Send, tableVars
  <2> HIDE DEF l
  <2>3. r \in Request /\ r.live /\ r.from = p /\ Waits(r.req) = "setting" /\ r.list = l
    BY <2>1 DEF Request, Item, Waits
  <2> HIDE DEF r
  <2>4. Posts(p, r)
    BY <1>p, <2>1, <2>2, <2>3 DEF Busy
  <2> QED
    BY <1>b, <2>2, <2>4
<1>7. ASSUME NEW h \in Handlers, FuncSend(h) PROVE Unnoted /\ \E r : Posts(h, r)
  <2> DEFINE l == [i \in DOMAIN snap[h] |-> [id |-> snap[h][i], mod |-> bp[snap[h][i]].mod]]
             r == [from |-> h, live |-> TRUE, req |-> "functions", list |-> l, set |-> {}]
  <2>1. l \in Seq(Item) /\ Lists(l, snap[h])
    BY <1>a, ListType
  <2>2. Call(h, r) /\ Goto(h, "settingfn") /\ UNCHANGED <<bp, localVars>> /\ pc[h] = "sendfn"
    BY <1>7 DEF FuncSend, tableVars
  <2> HIDE DEF l
  <2>3. r \in Request /\ r.live /\ r.from = h /\ Waits(r.req) = "settingfn" /\ r.list = l
    BY <1>a, <2>1 DEF Request, Item, Waits
  <2> HIDE DEF r
  <2>4. Posts(h, r)
    BY <1>a, <1>p, <2>1, <2>2, <2>3 DEF Busy
  <2> QED
    BY <1>b, <2>2, <2>4
<1>8. ASSUME NEW h \in Handlers,
             ResumeOk(h) \/ ResumeFails(h) \/ FuncFails(h) \/ SetExcFilters(h) \/ ExFails(h)
      PROVE  Unnoted /\ Returns(h)
  <2>1. /\ UNCHANGED bp /\ pc[h] \in {"resuming", "settingfn", "settingex"}
        /\ Receive(h) \/ CallFails(h)
        /\ Finish(h) \/ (UNCHANGED localVars /\ Goto(h, "waiting"))
    BY <1>8 DEF ResumeOk, ResumeFails, FuncFails, SetExcFilters, ExFails, tableVars
  <2> QED
    BY <1>a, <1>b, <1>r, <2>1 DEF Busy
<1>9. ASSUME NEW p \in Procs, Remove(p) PROVE Unnoted /\ Rests
  BY <1>b, <1>9 DEF Remove, callVars, Rests
<1>10. ASSUME NEW p \in Procs, Removed(p) \/ Read(p) PROVE Unnoted /\ Idles(p)
  <2>1. UNCHANGED <<bp, callVars>> /\ pc[p] \in {"remove", "read"}
    BY <1>10 DEF Removed, Read, tableVars
  <2>2. \/ Finish(p)
        \/ /\ \E l \in {"read", "send"} : Goto(p, l)
           /\ snap' = snap \/ \E s : snap' = [snap EXCEPT ![p] = s]
    BY <1>10 DEF Removed, Read, localVars
  <2> QED
    BY <1>b, <1>f, <1>g, <2>1, <2>2 DEF Busy
<1>11. ASSUME NEW p \in Procs, SetOk(p) PROVE Unnoted /\ (Returns(p) \/ Keeps(p))
  <2>1. UNCHANGED bp /\ pc[p] = "setting" /\ answer[p].st = "ok"
    BY <1>11 DEF SetOk, tableVars
  <2>2. CASE cmd[p] = "break"
    <3>1. Goto(p, "writing") /\ UNCHANGED <<localVars, callVars>>
      BY <1>11, <2>2 DEF SetOk
    <3> QED
      BY <1>a, <1>b, <2>1, <3>1 DEF Goto, localVars, callVars, Keeps, Others
  <2>3. CASE cmd[p] # "break"
    <3>1. /\ Receive(p)
          /\ \/ Finish(p)
             \/ UNCHANGED localVars /\ \E l \in {"resume", "locate"} : Goto(p, l)
      BY <1>11, <2>3 DEF SetOk, Synced
    <3> QED
      BY <1>b, <1>r, <2>1, <3>1 DEF Busy
  <2> QED
    BY <2>2, <2>3
<1>12. ASSUME NEW p \in Procs, SetFails(p) PROVE Unnoted /\ Returns(p)
  <2>1. /\ UNCHANGED bp /\ pc[p] = "setting" /\ CallFails(p)
        /\ Finish(p) \/ (UNCHANGED localVars /\ Goto(p, "locate"))
    BY <1>12 DEF SetFails, Synced
  <2> QED
    BY <1>b, <1>r, <2>1 DEF Busy
<1>13. ASSUME NEW h \in Handlers, FuncOk(h) PROVE Unnoted /\ Keeps(h)
  BY <1>a, <1>b, <1>13 DEF FuncOk, Goto, localVars, callVars, tableVars, Keeps, Others
<1>14. CASE Pump
  <2>1. UNCHANGED <<bp, snap, callVars>>
    BY <1>14 DEF Pump
  <2>2. UNCHANGED pc \/ \E c \in Cleaners : pc[c] = "idle" /\ Goto(c, "remove")
    BY <1>14 DEF Pump
  <2>3. CASE UNCHANGED pc
    BY <1>b, <2>1, <2>3 DEF callVars, Rests
  <2>4. ASSUME NEW c \in Cleaners, pc[c] = "idle", Goto(c, "remove")
        PROVE  Unnoted /\ Idles(c)
    BY <1>a, <1>b, <1>g, <2>1, <2>4 DEF Busy
  <2> QED
    BY <1>a, <2>2, <2>3, <2>4
<1>15. ASSUME NEW h \in Handlers, Stop(h) PROVE Unnoted /\ Rests
  BY <1>b, <1>15 DEF Stop, localVars, Rests
<1>16. CASE TargetHits \/ TargetEnters \/ TargetThrows
  BY <1>b, <1>16 DEF TargetHits, TargetEnters, TargetThrows, Halts, tableVars, localVars, callVars, Rests
<1>17. CASE AdapterServes
  BY <1>b, <1>17 DEF AdapterServes, tableVars
<1> QED
  BY <1>a, <1>1, <1>2, <1>3, <1>4, <1>5, <1>6, <1>7, <1>8, <1>9, <1>10, <1>11, <1>12, <1>13, <1>14,
     <1>15, <1>16, <1>17
  DEF Next, ClientStep, HandlerStep, SyncStep, FuncStep, ExStep

\* A goroutine that is not waiting has no request out that it would hear of.
LEMMA NoRequest ==
  ASSUME TypeCalls, RequestInv, NEW p \in Procs,
         pc[p] \notin Busy \/ answer[p].st = "ok", NEW j \in DOMAIN inbox, inbox[j].live
  PROVE  inbox[j].from # p
BY DEF RequestInv, Waits, Busy

\* A request that still has a caller says what the caller remembers.
LEMMA RequestNext ==
  ASSUME TypeOK, TypeOK', RequestInv, UniqueInv, AnswerInv, PlacedInv, Next
  PROVE  RequestInv' /\ UniqueInv'
<1>a. /\ pc \in [Procs -> Labels] /\ answer \in [Procs -> Answer] /\ inbox \in Seq(Request)
      /\ \A j \in DOMAIN inbox : inbox[j] \in Request /\ inbox[j].from \in Procs
  <2>1. TypeLocal /\ TypeCalls
    BY Types
  <2>2. inbox \in Seq(Request) /\ \A j \in DOMAIN inbox : inbox[j] \in Request
    BY <2>1 DEF TypeCalls
  <2>3. \A r \in Request : r.from \in Procs
    BY DEF Request
  <2> QED
    BY <2>1, <2>2, <2>3 DEF TypeLocal, TypeCalls
<1>t. TypeTable /\ TypeLocal /\ TypeCalls /\ TypeAdapter /\ TypeOther
  BY Types
<1>n. ASSUME NEW p \in Procs, Others(p), inbox' = inbox,
             pc[p] \notin Busy \/ answer[p].st = "ok"
      PROVE  RequestInv' /\ UniqueInv'
  <2>1. \A j \in DOMAIN inbox : inbox[j].live => inbox[j].from \in Procs \ {p}
    BY <1>a, <1>t, <1>n, NoRequest
  <2> QED
    BY <1>n, <2>1 DEF Others, RequestInv, UniqueInv
<1>1. ASSUME NEW p \in Procs, Notes(p) PROVE RequestInv' /\ UniqueInv'
  BY <1>n, <1>1 DEF Notes, AnswerInv
<1>2. ASSUME NEW p \in Procs, Idles(p) \/ Keeps(p) PROVE RequestInv' /\ UniqueInv'
  BY <1>n, <1>2 DEF Idles, Keeps
<1>3. ASSUME NEW p \in Procs, Returns(p) PROVE RequestInv' /\ UniqueInv'
  <2>1. CASE answer[p].st = "ok" /\ inbox' = inbox
    BY <1>n, <1>3, <2>1 DEF Returns
  <2>2. CASE CallFails(p)
    <3>1. DOMAIN inbox' = DOMAIN inbox
      BY <2>2 DEF CallFails
    <3>2. ASSUME NEW j \in DOMAIN inbox, inbox'[j].live
          PROVE  inbox'[j] = inbox[j] /\ inbox[j].from \in Procs \ {p}
      BY <1>a, <2>2, <3>2 DEF CallFails, Request
    <3>3. \A q \in Procs \ {p} : pc'[q] = pc[q] /\ snap'[q] = snap[q] /\ answer'[q] = answer[q]
      BY <1>3 DEF Returns, Others
    <3>4. RequestInv'
      BY <3>1, <3>2, <3>3 DEF RequestInv
    <3>5. UniqueInv'
      BY <3>1, <3>2 DEF UniqueInv
    <3> QED
      BY <3>4, <3>5
  <2> QED
    BY <1>3, <2>1, <2>2 DEF Returns
<1>4. ASSUME NEW p \in Procs, NEW r, Posts(p, r) PROVE RequestInv' /\ UniqueInv'
  <2>1. /\ r \in Request /\ r.live /\ r.from = p /\ pc'[p] = Waits(r.req) /\ answer'[p].st = "none"
        /\ r.req \in {"set", "functions"} => Lists(r.list, snap'[p])
    BY <1>a, <1>4 DEF Posts, Call, NoAnswer
  <2>2. \A j \in DOMAIN inbox : inbox[j].live => inbox[j].from \in Procs \ {p}
    BY <1>a, <1>t, <1>4, NoRequest DEF Posts
  <2>3. inbox' = inbox \/ inbox' = Append(inbox, r)
    BY <1>4 DEF Posts, Call
  <2>4. ASSUME NEW j \in DOMAIN inbox'
        PROVE  (j \in DOMAIN inbox /\ inbox'[j] = inbox[j]) \/ (j = Len(inbox) + 1 /\ inbox'[j] = r)
    BY <1>a, <2>1, <2>3
  <2>5. \A q \in Procs \ {p} : pc'[q] = pc[q] /\ snap'[q] = snap[q] /\ answer'[q] = answer[q]
    BY <1>4 DEF Posts, Others
  <2>6. RequestInv'
    BY <2>1, <2>2, <2>4, <2>5 DEF RequestInv
  <2>7. UniqueInv'
    BY <2>1, <2>2, <2>4 DEF UniqueInv
  <2> QED
    BY <2>6, <2>7
<1>5. CASE Rests
  BY <1>5 DEF Rests, RequestInv, UniqueInv
<1>6. CASE AdapterServes
  <2> DEFINE r == Head(inbox)
  <2>1. inbox # <<>> /\ inbox' = Tail(inbox) /\ UNCHANGED <<pc, snap>> /\ Serve(r)
    BY <1>6 DEF AdapterServes, localVars
  <2>2. /\ r \in Request /\ r = inbox[1] /\ 1 \in DOMAIN inbox
        /\ \A j \in DOMAIN inbox' : j \in Nat /\ j + 1 \in DOMAIN inbox /\ inbox'[j] = inbox[j + 1]
        /\ \A j \in DOMAIN inbox' : j + 1 # 1
    BY <1>t, <2>1, FirstRequest
  <2>3. \A q \in Procs : answer'[q] = answer[q] \/ (r.live /\ q = r.from)
    <3>1. PICK ids : Answered(r, ids)
      BY <1>t, <2>1, <2>2, ServeSteps DEF Serves
    <3> QED
      BY <1>a, <3>1 DEF Answered
  <2>4. ASSUME NEW j \in DOMAIN inbox', inbox'[j].live
        PROVE  answer'[inbox'[j].from] = answer[inbox'[j].from]
    <3>1. inbox[j + 1].live /\ inbox'[j] = inbox[j + 1] /\ inbox[j + 1].from \in Procs
          /\ j + 1 \in DOMAIN inbox /\ j + 1 # 1
      BY <1>a, <2>2, <2>4
    <3>2. ~(r.live /\ inbox[j + 1].from = r.from)
      BY <2>2, <3>1 DEF UniqueInv
    <3> QED
      BY <2>3, <3>1, <3>2
  <2> HIDE DEF r
  <2>5. RequestInv'
    BY <2>1, <2>2, <2>4 DEF RequestInv
  <2>6. UniqueInv'
    <3> SUFFICES ASSUME NEW j \in DOMAIN inbox', NEW k \in DOMAIN inbox',
                        inbox'[j].live, inbox'[k].live, inbox'[j].from = inbox'[k].from
                 PROVE  j = k
      BY DEF UniqueInv
    <3>1. j + 1 = k + 1 /\ j \in Nat /\ k \in Nat
      BY <2>2 DEF UniqueInv
    <3> QED
      BY <3>1
  <2> QED
    BY <2>5, <2>6
<1> QED
  BY <1>t, <1>1, <1>2, <1>3, <1>4, <1>5, <1>6, CallSteps

\* An answer numbers the breakpoints its caller remembers.
LEMMA AnswerNext ==
  ASSUME TypeOK, TypeOK', RequestInv, UniqueInv, AnswerInv, PlacedInv, Next
  PROVE  AnswerInv'
<1>t. TypeTable /\ TypeLocal /\ TypeCalls /\ TypeAdapter /\ TypeOther
  BY Types
<1>a. pc \in [Procs -> Labels] /\ answer \in [Procs -> Answer]
  BY <1>t DEF TypeLocal, TypeCalls
<1> DEFINE Good(p) ==
      /\ pc'[p] \in {"writing", "writingfn"} => answer'[p].st = "ok"
      /\ answer'[p].st = "ok" =>
           /\ pc'[p] \in Busy
           /\ pc'[p] \in {"setting", "settingfn", "writing", "writingfn"} =>
                /\ Len(answer'[p].ids) = Len(snap'[p])
                /\ \A k \in 1..Len(snap'[p]) : OwnsIn(owner', answer'[p].ids[k], snap'[p][k])
<1>b. (\A p \in Procs : Good(p)) => AnswerInv'
  BY DEF AnswerInv, Numbers, Owns, Busy
<1>o. \A d, i : Owns(d, i) => OwnsIn(owner', d, i)
  BY <1>t, AdapterNext
<1>u. ASSUME NEW p \in Procs, pc'[p] = pc[p], snap'[p] = snap[p], answer'[p] = answer[p]
      PROVE  Good(p)
  BY <1>o, <1>u DEF AnswerInv, Numbers, Busy
<1> HIDE DEF Good
<1>v. ASSUME NEW p \in Procs, Others(p), Good(p) PROVE AnswerInv'
  <2>1. \A q \in Procs \ {p} : Good(q)
    BY <1>u, <1>v DEF Others
  <2> QED
    BY <1>b, <1>v, <2>1
<1>1. ASSUME NEW p \in Procs, Notes(p) PROVE AnswerInv'
  <2>1. Numbers(Tail(answer[p].ids), Tail(snap[p]))
    BY <1>t, <1>1, InHand DEF Notes
  <2>2. /\ Others(p) /\ pc'[p] \in Busy /\ answer'[p].st = "ok"
        /\ snap'[p] = Tail(snap[p]) /\ answer'[p].ids = Tail(answer[p].ids)
    BY <1>1 DEF Notes, Busy
  <2>3. Good(p)
    BY <1>o, <2>1, <2>2 DEF Good, Numbers
  <2> QED
    BY <1>v, <2>2, <2>3
<1>2. ASSUME NEW p \in Procs, Idles(p) PROVE AnswerInv'
  <2>1. Others(p) /\ answer'[p].st # "ok" /\ pc'[p] \notin {"writing", "writingfn"}
    BY <1>2 DEF Idles, AnswerInv, Busy
  <2>2. Good(p)
    BY <2>1 DEF Good
  <2> QED
    BY <1>v, <2>1, <2>2
<1>3. ASSUME NEW p \in Procs, Returns(p) PROVE AnswerInv'
  <2>1. Others(p) /\ answer'[p].st # "ok" /\ pc'[p] \notin {"writing", "writingfn"}
    BY <1>3 DEF Returns, NoAnswer, Busy
  <2>2. Good(p)
    BY <2>1 DEF Good
  <2> QED
    BY <1>v, <2>1, <2>2
<1>4. ASSUME NEW p \in Procs, Keeps(p) PROVE AnswerInv'
  <2>1. /\ Others(p) /\ answer[p].st = "ok" /\ pc'[p] \in Busy /\ UNCHANGED <<snap, answer>>
        /\ pc[p] \in {"setting", "settingfn"}
    BY <1>4 DEF Keeps, Busy
  <2>2. Numbers(answer[p].ids, snap[p])
    BY <2>1 DEF AnswerInv
  <2>3. Good(p)
    BY <1>o, <2>1, <2>2 DEF Good, Numbers
  <2> QED
    BY <1>v, <2>1, <2>3
<1>5. ASSUME NEW p \in Procs, NEW r, Posts(p, r) PROVE AnswerInv'
  <2>1. Others(p) /\ answer'[p].st # "ok" /\ pc'[p] \notin {"writing", "writingfn"}
    BY <1>a, <1>5 DEF Posts, Call, NoAnswer, Waits
  <2>2. Good(p)
    BY <2>1 DEF Good
  <2> QED
    BY <1>v, <2>1, <2>2
<1>6. CASE Rests
  BY <1>b, <1>u, <1>6 DEF Rests
<1>7. CASE AdapterServes
  <2> DEFINE r == Head(inbox)
  <2>1. inbox # <<>> /\ UNCHANGED <<pc, snap>> /\ Serve(r)
    BY <1>7 DEF AdapterServes, localVars
  <2>2. r \in Request /\ r = inbox[1] /\ 1 \in DOMAIN inbox
    BY <1>t, <2>1, FirstRequest
  <2>3. PICK ids : Serves(r, ids)
    BY <1>t, <2>1, <2>2, ServeSteps
  <2>4. r.from \in Procs
    BY <2>2 DEF Request
  <2>5. r.live => pc[r.from] = Waits(r.req) /\ answer[r.from].st = "none"
                  /\ (r.req \in {"set", "functions"} => Lists(r.list, snap[r.from]))
    BY <2>2 DEF RequestInv
  <2> HIDE DEF r
  <2>6. CASE ~r.live
    BY <1>b, <1>u, <2>1, <2>3, <2>6 DEF Serves, Answered
  <2>7. CASE r.live
    <3> DEFINE p == r.from
    <3>1. answer' = [answer EXCEPT ![p] = [st |-> "ok", ids |-> ids]]
      BY <2>3, <2>7 DEF Serves, Answered
    <3>2. Others(p) /\ answer'[p].st = "ok" /\ answer'[p].ids = ids
      BY <1>a, <2>1, <2>4, <3>1 DEF Others
    <3>3. pc'[p] \in Busy /\ pc'[p] \notin {"writing", "writingfn"}
          /\ (pc'[p] \in {"setting", "settingfn"} => r.req \in {"set", "functions"})
      BY <2>1, <2>5, <2>7 DEF Waits, Busy
    <3>4. r.req \in {"set", "functions"} =>
            /\ Len(ids) = Len(snap[p])
            /\ \A k \in 1..Len(snap[p]) : OwnsIn(owner', ids[k], snap[p][k])
      BY <2>3, <2>5, <2>7 DEF Serves, Lists
    <3> HIDE DEF p
    <3>5. Good(p)
      BY <2>1, <3>2, <3>3, <3>4 DEF Good
    <3> QED
      BY <1>v, <2>4, <3>2, <3>5 DEF p
  <2> QED
    BY <2>6, <2>7
<1> QED
  BY <1>t, <1>1, <1>2, <1>3, <1>4, <1>5, <1>6, <1>7, CallSteps

\* So no breakpoint gets the id of another.
LEMMA DapidNext ==
  ASSUME TypeOK, TypeOK', AnswerInv, PlacedInv, DapidOwn, Next
  PROVE  DapidOwn'
<1>t. TypeTable /\ TypeLocal /\ TypeCalls /\ TypeAdapter /\ TypeOther
  BY Types
<1>o. \A d, i : Owns(d, i) => OwnsIn(owner', d, i)
  BY <1>t, AdapterNext
<1>b. (\A i \in Ids : bp'[i].dapid # 0 => OwnsIn(owner', bp'[i].dapid, i)) => DapidOwn'
  BY DEF DapidOwn, OwnsIn
<1>c. \A i \in Ids : bp[i].dapid # 0 => OwnsIn(owner', bp[i].dapid, i)
  BY <1>o DEF DapidOwn, Owns, OwnsIn
<1>1. CASE Unnoted
  BY <1>b, <1>c, <1>1 DEF Unnoted
<1>2. ASSUME NEW p \in Procs, Notes(p) PROVE DapidOwn'
  <2>1. CASE UNCHANGED bp
    BY <1>b, <1>c, <2>1
  <2>2. CASE bp' = [bp EXCEPT ![Head(snap[p])].dapid = Head(answer[p].ids)]
    <3> DEFINE j == Head(snap[p])  d == Head(answer[p].ids)
    <3>1. j \in Ids /\ d \in Nat /\ Owns(d, j)
      BY <1>t, <1>2, InHand DEF Notes
    <3> HIDE DEF j, d
    <3>2. bp'[j].dapid = d /\ \A i \in Ids : i # j => bp'[i] = bp[i]
      BY <1>t, <2>2, <3>1, NoteType DEF j, d
    <3> QED
      BY <1>b, <1>c, <1>o, <3>1, <3>2
  <2> QED
    BY <1>2, <2>1, <2>2 DEF Notes
<1> QED
  BY <1>t, <1>1, <1>2, CallSteps

-----------------------------------------------------------------------------
(* The theorems.                                                           *)

LEMMA InvInit == Init => TypeOK /\ Inv
<1> SUFFICES ASSUME Init PROVE TypeOK /\ Inv
  OBVIOUS
<1>a. NoBP \in BP /\ NoHit \in Hit /\ NoAnswer \in Answer /\ NoBP.dapid = 0
  BY DEF NoBP, BP, NoHit, Hit, Reasons, NoAnswer, Answer
<1>1. TypeTable
  <2>1. 1 \in 1..(MaxBPs + 1)
    BY BreakpointsAssumption
  <2>2. table \subseteq Ids /\ bp \in [Ids -> BP] /\ next \in 1..(MaxBPs + 1)
    BY <1>a, <2>1 DEF Init
  <2>3. open \in BOOLEAN /\ located \in BOOLEAN
    BY DEF Init
  <2> QED
    BY <2>2, <2>3 DEF TypeTable
<1>2. TypeLocal
  BY <1>a DEF Init, TypeLocal, Labels, Commands
<1>3. TypeCalls /\ TypeAdapter
  BY <1>a DEF Init, TypeCalls, TypeAdapter
<1>4. TypeOther /\ TypeProgram
  <2>1. TypeOther
    BY DEF Init, TypeOther
  <2>2. /\ target \in {"stopped", "running"} /\ at \in Lines \cup {0}
        /\ events \in Seq(Hit) /\ stops \in Nat /\ reported \in [Ids -> Nat]
    BY DEF Init
  <2>3. panicked \in BOOLEAN
    BY DEF Init
  <2> QED
    BY <2>1, <2>2, <2>3 DEF TypeProgram
<1>5. StageInv /\ MineInv /\ TableInv /\ UntilCleansUp
  BY DEF Init, StageInv, Does, MineInv, TableInv, UntilCleansUp
<1>6. RequestInv /\ UniqueInv /\ PlacedInv
  BY DEF Init, RequestInv, UniqueInv, PlacedInv
<1>7. AnswerInv
  BY DEF Init, AnswerInv, NoAnswer
<1>8. DapidOwn
  BY <1>a DEF Init, DapidOwn
<1> QED
  BY <1>1, <1>2, <1>3, <1>4, <1>5, <1>6, <1>7, <1>8, Types DEF Inv

LEMMA InvNext == TypeOK /\ Inv /\ [Next]_vars => TypeOK' /\ Inv'
<1> SUFFICES ASSUME TypeOK, Inv, [Next]_vars PROVE TypeOK' /\ Inv'
  OBVIOUS
<1>a. /\ StageInv /\ MineInv /\ TableInv /\ UntilCleansUp
      /\ RequestInv /\ UniqueInv /\ AnswerInv /\ PlacedInv /\ DapidOwn
  BY DEF Inv
<1>t. TypeTable /\ TypeLocal /\ TypeCalls /\ TypeAdapter /\ TypeOther
  BY Types
<1>1. CASE Next
  <2>1. TypeOK'
    BY <1>a, <1>1, TypeNext
  <2>2. StageInv' /\ MineInv' /\ TableInv' /\ UntilCleansUp'
    BY <1>a, <1>t, <1>1, StageNext, UntilNext
  <2>3. RequestInv' /\ UniqueInv' /\ AnswerInv' /\ DapidOwn'
    BY <1>a, <1>1, <2>1, RequestNext, AnswerNext, DapidNext
  <2>4. PlacedInv'
    BY <1>a, <1>t, <1>1, AdapterNext
  <2> QED
    BY <2>1, <2>2, <2>3, <2>4 DEF Inv
<1>2. CASE UNCHANGED vars
  <2> USE <1>2 DEF vars, tableVars, otherVars, localVars, adapterVars, callVars, programVars
  <2>1. TypeOK'
    BY DEF TypeOK
  <2>2. StageInv' /\ MineInv' /\ TableInv' /\ UntilCleansUp'
    BY <1>a DEF StageInv, MineInv, TableInv, UntilCleansUp
  <2>3. RequestInv' /\ UniqueInv'
    BY <1>a DEF RequestInv, UniqueInv
  <2>4. AnswerInv' /\ PlacedInv' /\ DapidOwn'
    BY <1>a DEF AnswerInv, Numbers, PlacedInv, DapidOwn, Owns
  <2> QED
    BY <2>1, <2>2, <2>3, <2>4 DEF Inv
<1> QED
  BY <1>1, <1>2

\* The inductive invariant holds in every reachable state.
THEOREM Invariance == Spec => [](TypeOK /\ Inv)
BY InvInit, InvNext, PTL DEF Spec

\* Every variable has its type: in particular every entry of the table and of a
\* list read from it is a breakpoint that was made, and every id noted an id that
\* the adapter could have given.
THEOREM TypeCorrect == Spec => []TypeOK
BY Invariance, PTL

\* The ids that handleBreak and handleBreakFn write back by position, without a lock
\* and after the list may have changed, are each the id of that very breakpoint.
THEOREM IdsStayWithTheirOwn == Spec => []DapidOwn
<1>1. TypeOK /\ Inv => DapidOwn
  BY DEF Inv
<1> QED
  BY <1>1, Invariance, PTL

\* On every path out of handleUntil its breakpoint is gone from the session's table.
THEOREM UntilLeavesNothing == Spec => []UntilCleansUp
<1>1. TypeOK /\ Inv => UntilCleansUp
  BY DEF Inv
<1> QED
  BY <1>1, Invariance, PTL

-----------------------------------------------------------------------------
(* One client, an adapter without hit ids, and calls that do not fail.     *)
(*                                                                         *)
(* Then only the handler changes anything, one command at a time, and the  *)
(* adapter can be compared with the tables.  With a second client, with a  *)
(* goroutine that cleans up or after a failed call what follows is false.  *)

OneClient == (\E h : Handlers = {h}) /\ ~HitIds /\ ~Failing

\* No goroutine cleans, every request has its caller, and once the session is
\* stopped nothing goes on.
AloneInv ==
  /\ \A c \in Cleaners : pc[c] = "idle"
  /\ \A k \in DOMAIN events : events[k].ids = {}
  /\ \A j \in DOMAIN inbox : inbox[j].live /\ inbox[j].from \in Handlers
  /\ open = alive
  /\ ~alive => \A h \in Handlers : pc[h] = "idle"

Elements(s) == {s[k] : k \in DOMAIN s}

\* Entries of the adapter or of a request are those of the breakpoints S.  (The
\* requests of unbreak leave hit conditions out.)
AgreesIn(b, E, S) ==
  /\ {e.id : e \in E} = S
  /\ "hit" \notin Mods => \A e \in E : e.mod = b[e.id].mod
Agrees(E, S) == AgreesIn(bp, E, S)

\* Where the table may differ from what the adapter holds.
Unsynced(h) ==
  \/ pc[h] \in {"read", "send"}
  \/ pc[h] = "setting" /\ answer[h].st # "ok"
  \/ pc[h] = "remove" /\ touched[h]

UnsyncedFn(h) ==
  \/ pc[h] \in {"readfn", "sendfn"}
  \/ pc[h] = "settingfn" /\ answer[h].st # "ok"

LinesInv ==
  \A h \in Handlers : alive =>
    /\ ~Unsynced(h) => Agrees(placed, table)
    /\ pc[h] = "send" => Elements(snap[h]) = table
    /\ \A j \in DOMAIN inbox : inbox[j].req = "set" => Agrees(Elements(inbox[j].list), table)

FuncsInv ==
  /\ \A i \in Elements(funcs) : i < next
  /\ \A h \in Handlers : alive =>
       /\ ~UnsyncedFn(h) => Agrees(placedFn, Elements(funcs))
       /\ pc[h] = "sendfn" => snap[h] = funcs
       /\ \A j \in DOMAIN inbox :
            inbox[j].req = "functions" => Agrees(Elements(inbox[j].list), Elements(funcs))

FiltersInv ==
  \A h \in Handlers : alive =>
    /\ placedEx = IF pc[h] = "settingex" /\ answer[h].st = "ok" THEN chosen[h] ELSE filters
    /\ \A j \in DOMAIN inbox : inbox[j].req = "exceptions" => inbox[j].set = chosen[h]

ModsInv == "hit" \notin Mods => \A i \in Ids : bp[i].mod # "hit"

\* A stop the client has yet to hear of, or has just heard of: the program still
\* stands there, and at breakpoints of the table.
Fresh(e) ==
  /\ target = "stopped" /\ e.line = at /\ at # 0
  /\ \A i \in e.who : i \in table /\ bp[i].line = at /\ e.why = "breakpoint"

\* The adapter has got the client's request to resume.
Resumed(h) == pc[h] = "waiting" \/ (pc[h] = "resuming" /\ answer[h].st = "ok")

\* The program runs only while the client waits for it, and stops once.
ProgramInv ==
  \A h \in Handlers :
    /\ ~Resumed(h) => target = "stopped" /\ events = <<>>
    /\ target = "running" => events = <<>> /\ told[h] = NoHit
    /\ events # <<>> => Len(events) = 1 /\ told[h] = NoHit /\ Fresh(events[1])
    /\ told[h] # NoHit => Resumed(h) \/ pc[h] = "locate" \/ cmd[h] \in {"clear", "leave"}
    /\ told[h] # NoHit /\ Resumed(h) => Fresh(told[h])

\* The breakpoints of the table are on lines.
PlacesInv ==
  /\ \A i \in table : bp[i].line # 0
  /\ \A h \in Handlers : pc[h] = "put" => bp[mine[h]].line # 0

\* i is out of the table for good, or about to be taken out.
Spent(h, i) ==
  \/ i \notin table /\ ~(pc[h] = "put" /\ mine[h] = i)
  \/ pc[h] = "locate" /\ cmd[h] = "continue" /\ told[h].why = "breakpoint" /\ bp[i].line = at
  \/ pc[h] = "remove" /\ cmd[h] = "clear" /\ i \in todo[h]

OnceInv ==
  \A h \in Handlers, i \in Ids :
    /\ reported[i] # 0 => i < next
    /\ bp[i].once /\ reported[i] # 0 => reported[i] = 1 /\ Spent(h, i)

SyncInv ==
  /\ AloneInv /\ LinesInv /\ FuncsInv /\ FiltersInv /\ ModsInv
  /\ ProgramInv /\ PlacesInv /\ OnceInv

\* The client is alone: its handler, the invariants, and what is assumed.
Alone(h) ==
  /\ Handlers = {h} /\ ~HitIds /\ ~Failing
  /\ TypeOK /\ Inv /\ SyncInv

\* What is known of the handler, and of the one request it may have out.
LEMMA AloneFacts ==
  ASSUME NEW h, Alone(h)
  PROVE  /\ h \in Handlers /\ h \in Procs /\ h \notin Cleaners
         /\ \A p \in Procs : p = h \/ p \in Cleaners
         /\ pc \in [Procs -> Labels] /\ cmd \in [Procs -> Commands]
         /\ mine \in [Procs -> Ids \cup {0}] /\ todo \in [Procs -> SUBSET Ids]
         /\ touched \in [Procs -> BOOLEAN] /\ snap \in [Procs -> Seq(Ids)]
         /\ told \in [Procs -> Hit] /\ answer \in [Procs -> Answer]
         /\ chosen \in [Procs -> SUBSET Filters]
         /\ cmd[h] \in Does(pc[h])
<1>1. h \in Handlers /\ h \in Procs /\ h \notin Cleaners /\ \A p \in Procs : p = h \/ p \in Cleaners
  BY BreakpointsAssumption DEF Alone, Procs
<1>2. TypeLocal /\ TypeCalls /\ TypeOther /\ StageInv
  BY Types DEF Alone, Inv
<1> QED
  BY <1>1, <1>2 DEF TypeLocal, TypeCalls, TypeOther, StageInv

LEMMA NoElements ==
  ASSUME NEW S, NEW s \in Seq(S), Len(s) = 0
  PROVE  s = <<>>
OBVIOUS

LEMMA OneRequest ==
  ASSUME NEW h, Alone(h)
  PROVE  \/ inbox = <<>>
         \/ LET r == Head(inbox)
            IN  /\ Len(inbox) = 1 /\ DOMAIN inbox = {1} /\ r = inbox[1] /\ Tail(inbox) = <<>>
                /\ r \in Request /\ r.live /\ r.from = h /\ pc[h] = Waits(r.req)
                /\ answer[h].st = "none"
<1> SUFFICES ASSUME inbox # <<>>
             PROVE  LET r == Head(inbox)
                    IN  /\ Len(inbox) = 1 /\ DOMAIN inbox = {1} /\ r = inbox[1] /\ Tail(inbox) = <<>>
                        /\ r \in Request /\ r.live /\ r.from = h /\ pc[h] = Waits(r.req)
                        /\ answer[h].st = "none"
  OBVIOUS
<1>1. TypeCalls /\ RequestInv /\ UniqueInv /\ AloneInv /\ Handlers = {h}
  BY Types DEF Alone, Inv, SyncInv
<1>2. inbox \in Seq(Request) /\ Len(inbox) \in Nat /\ DOMAIN inbox = 1..Len(inbox)
  BY <1>1 DEF TypeCalls
<1>3. /\ Head(inbox) \in Request /\ Head(inbox) = inbox[1] /\ 1 \in DOMAIN inbox
  BY <1>1, FirstRequest
<1>4. \A j \in DOMAIN inbox : inbox[j].live /\ inbox[j].from = h
  BY <1>1 DEF AloneInv
<1>5. \A j \in DOMAIN inbox : j = 1
  BY <1>1, <1>3, <1>4 DEF UniqueInv
<1>6. Len(inbox) = 1
  <2>1. Len(inbox) \in DOMAIN inbox
    BY <1>2, <1>3
  <2> QED
    BY <1>5, <2>1
<1>7. Tail(inbox) = <<>>
  <2>1. Tail(inbox) \in Seq(Request) /\ Len(Tail(inbox)) = 0
    BY <1>2, <1>3, <1>6
  <2> QED
    BY <2>1, NoElements
<1>8. pc[h] = Waits(inbox[1].req) /\ answer[h].st = "none"
  BY <1>1, <1>3, <1>4 DEF RequestInv
<1>9. DOMAIN inbox = {1}
  BY <1>3, <1>5
<1> QED
  BY <1>3, <1>4, <1>6, <1>7, <1>8, <1>9

\* So there is none unless the handler waits for an answer.
LEMMA NoneOut ==
  ASSUME NEW h, Alone(h),
         \/ pc[h] \notin {"setting", "settingfn", "settingex", "resuming"}
         \/ answer[h].st = "ok"
  PROVE  inbox = <<>>
<1> SUFFICES ASSUME inbox # <<>> PROVE FALSE
  OBVIOUS
<1>1. pc[h] = Waits(Head(inbox).req) /\ answer[h].st = "none"
  BY OneRequest
<1> QED
  BY <1>1 DEF Waits

\* The steps of a client that is alone.  None fails, and none follows a stop.
Moves(h) ==
  \/ /\ \/ BreakBegin(h) \/ UntilBegin(h) \/ UnbreakBegin(h) \/ ContinueBegin(h)
        \/ Put(h) \/ WriteBack(h) \/ ResumeOk(h) \/ UntilReturns(h)
        \/ ContinueTold(h) \/ ClearOnceAt(h) \/ LocatesOnly(h)
        \/ Remove(h) \/ Removed(h) \/ Read(h) \/ SetOk(h)
     /\ UNCHANGED otherVars
  \/ BreakFnBegin(h) \/ PutFuncBP(h) \/ FuncBPs(h) \/ FuncOk(h) \/ UpdateFuncBP(h)
  \/ BreakExBegin(h) \/ SetExcFilters(h)

Calls(h) ==
  \/ (ResumeSend(h) \/ Send(h)) /\ UNCHANGED otherVars
  \/ FuncSend(h) \/ ExSend(h)

Runs == (Pump /\ UNCHANGED otherVars) \/ TargetHits \/ TargetEnters \/ TargetThrows

Works(h) == Moves(h) \/ Calls(h) \/ Runs \/ AdapterServes \/ Stop(h)

LEMMA AloneSteps ==
  ASSUME NEW h, Alone(h), Next
  PROVE  alive /\ open /\ Works(h)
<1>f. /\ h \in Handlers /\ h \in Procs /\ \A p \in Procs : p = h \/ p \in Cleaners
      /\ Handlers = {h} /\ ~Failing /\ AloneInv /\ ProgramInv
  BY AloneFacts DEF Alone, SyncInv
<1>1. alive /\ open
  <2> SUFFICES ASSUME ~alive PROVE FALSE
    BY <1>f DEF AloneInv
  <2>1. ~open /\ pc[h] = "idle" /\ \A c \in Cleaners : pc[c] = "idle"
    BY <1>f DEF AloneInv
  <2>2. events = <<>>
    BY <1>f, <2>1 DEF ProgramInv, Resumed
  <2>3. ASSUME NEW g \in Handlers PROVE ~ClientStep(g) /\ ~HandlerStep(g)
    BY <1>f, <2>1 DEF ClientStep, BreakBegin, UntilBegin, UnbreakBegin, ContinueBegin, Begin, Accept,
       HandlerStep, Put, WriteBack, ResumeSend, ResumeOk, ResumeFails, UntilReturns, ContinueTold,
       ContinueTimeout, ClearOnceAt, LocatesOnly, LocateFails
  <2>4. ASSUME NEW p \in Procs PROVE ~SyncStep(p)
    BY <1>f, <2>1 DEF SyncStep, Remove, Removed, Read, Send, SetOk, SetFails
  <2>5. ASSUME NEW g \in Handlers PROVE ~FuncStep(g) /\ ~ExStep(g) /\ ~Stop(g)
    BY <1>f, <2>1 DEF FuncStep, BreakFnBegin, PutFuncBP, FuncBPs, FuncSend, FuncOk, FuncFails,
       UpdateFuncBP, ExStep, BreakExBegin, ExSend, SetExcFilters, ExFails, Stop, Begin, Accept
  <2>6. ~Pump /\ ~AdapterServes /\ ~TargetHits /\ ~TargetEnters /\ ~TargetThrows
    BY <2>2 DEF Pump, AdapterServes, TargetHits, TargetEnters, TargetThrows, Halts
  <2> QED
    BY <2>3, <2>4, <2>5, <2>6 DEF Next
<1>2. ASSUME NEW p \in Procs, SyncStep(p)
      PROVE  Remove(h) \/ Removed(h) \/ Read(h) \/ Send(h) \/ SetOk(h)
  <2>1. pc[p] # "idle"
    BY <1>2 DEF SyncStep, Remove, Removed, Read, Send, SetOk, SetFails
  <2>2. p = h
    BY <1>f, <2>1 DEF AloneInv
  <2>3. ~SetFails(h)
    BY <1>f, <1>1 DEF SetFails, CallFails
  <2> QED
    BY <1>2, <2>2, <2>3 DEF SyncStep
<1>3. ~ResumeFails(h) /\ ~ContinueTimeout(h) /\ ~FuncFails(h) /\ ~ExFails(h)
  BY <1>f, <1>1 DEF ResumeFails, ContinueTimeout, FuncFails, ExFails, CallFails
<1>4. ~LocateFails(h)
  <2>1. pc[h] = "locate" => target = "stopped"
    BY <1>f DEF ProgramInv, Resumed
  <2> QED
    BY <1>f, <1>1, <2>1 DEF LocateFails
<1>5. CASE /\ \/ \E g \in Handlers : ClientStep(g) \/ HandlerStep(g)
              \/ \E p \in Procs : SyncStep(p)
              \/ Pump
           /\ UNCHANGED otherVars
  BY <1>f, <1>1, <1>2, <1>3, <1>4, <1>5 DEF ClientStep, HandlerStep, Works, Moves, Calls, Runs
<1>6. CASE \E g \in Handlers : FuncStep(g) \/ ExStep(g) \/ Stop(g)
  BY <1>f, <1>1, <1>3, <1>6 DEF FuncStep, ExStep, Works, Moves, Calls
<1>7. CASE AdapterServes \/ TargetHits \/ TargetEnters \/ TargetThrows
  BY <1>1, <1>7 DEF Works, Runs
<1> QED
  BY <1>5, <1>6, <1>7 DEF Next

\* A breakpoint that was made keeps its line and its modifiers.
Steady ==
  \A i \in Ids : i < next =>
    bp'[i].mod = bp[i].mod /\ bp'[i].line = bp[i].line /\ bp'[i].once = bp[i].once

LEMMA SteadyNext ==
  ASSUME NEW h, Alone(h), Next
  PROVE  Steady /\ ModsInv' /\ next <= next'
<1>f. /\ h \in Handlers /\ h \in Procs /\ TypeTable /\ TypeLocal /\ TypeCalls /\ AnswerInv /\ ModsInv
      /\ Works(h) /\ next \in Nat
  BY AloneFacts, AloneSteps, Types DEF Alone, Inv, SyncInv, TypeTable
<1>1. CASE UNCHANGED <<bp, next>>
  BY <1>f, <1>1 DEF Steady, ModsInv
<1>2. CASE BreakBegin(h) \/ UntilBegin(h) \/ BreakFnBegin(h)
  <2>1. PICK b : Allocate(h, b) /\ b.mod \in Mods \cup {"none"}
    <3>1. CASE BreakBegin(h)
      BY <3>1 DEF BreakBegin
    <3>2. CASE UntilBegin(h)
      BY <3>2 DEF UntilBegin
    <3>3. CASE BreakFnBegin(h)
      BY <3>3 DEF BreakFnBegin
    <3> QED
      BY <1>2, <3>1, <3>2, <3>3
  <2>2. /\ next' = next + 1 /\ bp' = [bp EXCEPT ![next] = b] /\ next \in Ids
    BY <1>f, <2>1, BreakpointsAssumption DEF Allocate, Ids, TypeTable
  <2>3. bp'[next] = b /\ \A i \in Ids : i # next => bp'[i] = bp[i]
    BY <1>f, <2>2 DEF TypeTable
  <2>4. \A i \in Ids : i < next => i # next
    BY <1>f DEF Ids
  <2> QED
    BY <1>f, <2>1, <2>2, <2>3, <2>4 DEF Steady, ModsInv
<1>3. CASE WriteBack(h) \/ UpdateFuncBP(h)
  <2>1. CASE UNCHANGED bp
    BY <1>1, <1>3, <2>1 DEF WriteBack, UpdateFuncBP
  <2>2. CASE ~UNCHANGED bp
    <3>1. /\ snap[h] # <<>> /\ pc[h] \in {"writing", "writingfn"} /\ UNCHANGED next
          /\ bp' = [bp EXCEPT ![Head(snap[h])].dapid = Head(answer[h].ids)]
      BY <1>3, <2>2 DEF WriteBack, UpdateFuncBP
    <3>2. Head(snap[h]) \in Ids /\ Head(answer[h].ids) \in Nat
      BY <1>f, <3>1, InHand
    <3>3. \A i \in Ids : bp'[i].mod = bp[i].mod /\ bp'[i].line = bp[i].line /\ bp'[i].once = bp[i].once
      BY <1>f, <3>1, <3>2 DEF TypeTable, BP
    <3> QED
      BY <1>f, <3>1, <3>3 DEF Steady, ModsInv
  <2> QED
    BY <2>1, <2>2
<1>4. CASE ~(\/ BreakBegin(h) \/ UntilBegin(h) \/ BreakFnBegin(h) \/ WriteBack(h) \/ UpdateFuncBP(h))
  <2>1. UNCHANGED <<bp, next>>
    BY <1>f, <1>4 DEF Works, Moves, Calls, Runs, UnbreakBegin, ContinueBegin, Put, ResumeSend, ResumeOk, UntilReturns,
       ContinueTold, ClearOnceAt, LocatesOnly, Remove, Removed, Read, Send, SetOk, Pump, PutFuncBP,
       FuncBPs, FuncSend, FuncOk, BreakExBegin, ExSend, SetExcFilters, Stop, AdapterServes,
       TargetHits, TargetEnters, TargetThrows, Halts, tableVars
  <2> QED
    BY <1>1, <2>1
<1> QED
  BY <1>2, <1>3, <1>4

\* A stop hands no breakpoint to a goroutine.
LEMMA PumpAlone ==
  ASSUME NEW h, Alone(h), Pump
  PROVE  /\ events # <<>> /\ UNCHANGED <<pc, cmd, todo>> /\ events' = Tail(events)
         /\ told'[h] = IF Armed(h) /\ told[h] = NoHit THEN Head(events) ELSE told[h]
<1>f. /\ h \in Handlers /\ h \in Procs /\ AloneInv /\ TypeProgram
  BY AloneFacts, Types DEF Alone, SyncInv
<1>1. events # <<>> /\ events \in Seq(Hit)
  BY <1>f DEF Pump, TypeProgram
<1>2. Head(events) = events[1] /\ 1 \in DOMAIN events
  BY <1>1
<1>3. Head(events).ids = {}
  BY <1>f, <1>2 DEF AloneInv
<1> QED
  BY <1>f, <1>1, <1>3 DEF Pump

\* A program that halts says so, without ids.
LEMMA HaltsAlone ==
  ASSUME NEW h, Alone(h), TargetHits \/ TargetEnters \/ TargetThrows
  PROVE  \E why \in Reasons, l \in Lines \cup {0}, who \in SUBSET Ids :
           /\ target = "running" /\ target' = "stopped" /\ at' = l /\ alive
           /\ events' = Append(events, [why |-> why, line |-> l, who |-> who, ids |-> {}])
           /\ UNCHANGED <<tableVars, otherVars, pc, localVars, adapterVars, callVars, reported>>
           /\ \/ l \in Lines /\ who = {}
              \/ /\ why = "breakpoint"
                 /\ \E q \in placed : /\ l = bp[q.id].line
                                      /\ who = {r.id : r \in {r \in placed : bp[r.id].line = l}}
<1>f. ~HitIds /\ TypeTable /\ TypeAdapter
  BY Types DEF Alone
<1>1. ASSUME NEW why, NEW l, NEW here, NEW who, Halts(why, l, here, who)
      PROVE  /\ target = "running" /\ target' = "stopped" /\ at' = l /\ alive
             /\ events' = Append(events, [why |-> why, line |-> l, who |-> who, ids |-> {}])
             /\ UNCHANGED <<tableVars, otherVars, pc, localVars, adapterVars, callVars, reported>>
  BY <1>f, <1>1 DEF Halts
<1>2. CASE TargetHits
  <2>1. PICK q \in placed : LET l == bp[q.id].line  here == {r \in placed : bp[r.id].line = l}
                            IN  Halts("breakpoint", l, here, {r.id : r \in here})
    BY <1>2 DEF TargetHits
  <2> DEFINE l == bp[q.id].line  here == {r \in placed : bp[r.id].line = l}  who == {r.id : r \in here}
  <2>2. l \in Lines \cup {0} /\ who \in SUBSET Ids
    <3>1. \A r \in placed : r.id \in Ids
      BY <1>f DEF TypeAdapter, Place
    <3> QED
      BY <1>f, <3>1 DEF TypeTable, BP
  <2>3. Halts("breakpoint", l, here, who)
    BY <2>1
  <2>4. l = bp[q.id].line /\ who = {r.id : r \in {r \in placed : bp[r.id].line = l}}
    OBVIOUS
  <2> HIDE DEF l, here, who
  <2> QED
    BY <1>1, <2>2, <2>3, <2>4 DEF Reasons
<1>3. CASE TargetEnters \/ TargetThrows
  <2>1. PICK why, l, here : why \in Reasons /\ l \in Lines /\ Halts(why, l, here, {})
    BY <1>3 DEF TargetEnters, TargetThrows, Reasons
  <2> QED
    BY <1>1, <2>1
<1> QED
  BY <1>2, <1>3

LEMMA AloneNext ==
  ASSUME NEW h, Alone(h), Next
  PROVE  AloneInv'
<1>f. /\ h \in Handlers /\ h \in Procs /\ h \notin Cleaners /\ Cleaners \subseteq Procs /\ Handlers = {h}
      /\ AloneInv /\ TypeCalls /\ TypeProgram /\ Works(h) /\ alive /\ open
      /\ pc \in [Procs -> Labels] /\ inbox \in Seq(Request) /\ events \in Seq(Hit)
  BY AloneFacts, AloneSteps, Types DEF Alone, SyncInv, TypeCalls, TypeProgram, Procs
<1>p. ASSUME UNCHANGED pc \/ \E l : Goto(h, l) PROVE \A c \in Cleaners : pc'[c] = "idle"
  BY <1>f, <1>p DEF Goto, AloneInv
<1>e. UNCHANGED events => \A k \in DOMAIN events' : events'[k].ids = {}
  BY <1>f DEF AloneInv
<1>1. ASSUME UNCHANGED pc \/ \E l : Goto(h, l), UNCHANGED <<events, open, alive>>,
             \A j \in DOMAIN inbox' : inbox'[j].live /\ inbox'[j].from \in Handlers
      PROVE  AloneInv'
  BY <1>f, <1>p, <1>e, <1>1 DEF AloneInv
<1>2. CASE \/ BreakBegin(h) \/ UntilBegin(h) \/ UnbreakBegin(h) \/ ContinueBegin(h) \/ Put(h)
           \/ WriteBack(h) \/ ResumeOk(h) \/ UntilReturns(h) \/ ContinueTold(h) \/ ClearOnceAt(h)
           \/ LocatesOnly(h) \/ Remove(h) \/ Removed(h) \/ Read(h) \/ SetOk(h)
           \/ BreakFnBegin(h) \/ PutFuncBP(h) \/ FuncBPs(h) \/ FuncOk(h) \/ UpdateFuncBP(h)
           \/ BreakExBegin(h) \/ SetExcFilters(h)
  <2>1. UNCHANGED pc \/ \E l : Goto(h, l)
    BY <1>2 DEF BreakBegin, UntilBegin, UnbreakBegin, ContinueBegin, Put, WriteBack, ResumeOk,
       UntilReturns, ContinueTold, ClearOnceAt, LocatesOnly, Remove, Removed, Read, SetOk, Synced,
       BreakFnBegin, PutFuncBP, FuncBPs, FuncOk, UpdateFuncBP, BreakExBegin, SetExcFilters, Finish
  <2>2. UNCHANGED <<events, open, alive, inbox>>
    BY <1>2 DEF BreakBegin, UntilBegin, UnbreakBegin, ContinueBegin, Put, WriteBack, ResumeOk,
       UntilReturns, ContinueTold, ClearOnceAt, LocatesOnly, Remove, Removed, Read, SetOk,
       BreakFnBegin, PutFuncBP, FuncBPs, FuncOk, UpdateFuncBP, BreakExBegin, SetExcFilters, Receive,
       tableVars, adapterVars, programVars, callVars
  <2>3. \A j \in DOMAIN inbox' : inbox'[j].live /\ inbox'[j].from \in Handlers
    BY <1>f, <2>2 DEF AloneInv
  <2> QED
    BY <1>1, <2>1, <2>2, <2>3
<1>3. CASE ResumeSend(h) \/ Send(h) \/ FuncSend(h) \/ ExSend(h)
  <2>1. /\ \E l : Goto(h, l)
        /\ UNCHANGED <<events, open, alive>>
    BY <1>3 DEF ResumeSend, Send, FuncSend, ExSend, tableVars, adapterVars, programVars
  <2>2. PICK r : r.live /\ r.from = h /\ Call(h, r)
    BY <1>3 DEF ResumeSend, Send, FuncSend, ExSend
  <2>3. inbox' = Append(inbox, r)
    BY <1>f, <2>2 DEF Call
  <2>4. TypeOK'
    BY TypeNext DEF Alone, Inv
  <2>5. inbox' \in Seq(Request)
    BY <2>4 DEF TypeOK, Request
  <2>6. \A j \in DOMAIN inbox' : inbox'[j] = r \/ (j \in DOMAIN inbox /\ inbox'[j] = inbox[j])
    BY <1>f, <2>3, <2>5
  <2>7. \A j \in DOMAIN inbox' : inbox'[j].live /\ inbox'[j].from \in Handlers
    BY <1>f, <2>2, <2>6 DEF AloneInv
  <2> QED
    BY <1>1, <2>1, <2>7
<1>4. CASE Pump
  <2>1. /\ events # <<>> /\ UNCHANGED pc /\ events' = Tail(events)
        /\ UNCHANGED <<open, alive, inbox>>
    BY <1>4, PumpAlone DEF Pump, adapterVars, callVars
  <2>2. \A k \in DOMAIN Tail(events) : k + 1 \in DOMAIN events /\ Tail(events)[k] = events[k + 1]
    BY <1>f, <2>1
  <2> QED
    BY <1>f, <2>1, <2>2 DEF AloneInv
<1>5. CASE Stop(h)
  <2>1. /\ open' = FALSE /\ alive' = FALSE /\ inbox' = <<>> /\ pc[h] = "idle"
        /\ UNCHANGED <<pc, events>>
    BY <1>5 DEF Stop, Accept, programVars
  <2>2. \A c \in Cleaners : pc'[c] = "idle"
    BY <1>p, <2>1
  <2>3. /\ \A j \in DOMAIN inbox' : inbox'[j].live /\ inbox'[j].from \in Handlers
        /\ \A k \in DOMAIN events' : events'[k].ids = {}
    BY <1>e, <2>1
  <2>4. open' = alive' /\ \A g \in Handlers : pc'[g] = "idle"
    BY <1>f, <2>1
  <2> QED
    BY <2>2, <2>3, <2>4 DEF AloneInv
<1>6. CASE AdapterServes
  <2>1. inbox # <<>> /\ inbox' = Tail(inbox) /\ UNCHANGED <<pc, events, open, alive>>
    BY <1>6 DEF AdapterServes, tableVars
  <2>2. \A j \in DOMAIN inbox' : j + 1 \in DOMAIN inbox /\ inbox'[j] = inbox[j + 1]
    BY <1>f, <2>1, FirstRequest
  <2> QED
    BY <1>f, <1>e, <2>1, <2>2 DEF AloneInv
<1>7. CASE TargetHits \/ TargetEnters \/ TargetThrows
  <2>1. PICK e : /\ events' = Append(events, e) /\ e.ids = {}
                 /\ UNCHANGED <<pc, open, alive, inbox>>
    BY <1>7, HaltsAlone DEF tableVars, adapterVars, callVars
  <2>2. \A k \in DOMAIN events' : events'[k] = e \/ (k \in DOMAIN events /\ events'[k] = events[k])
    BY <1>f, <2>1
  <2> QED
    BY <1>f, <2>1, <2>2 DEF AloneInv
<1> QED
  BY <1>f, <1>2, <1>3, <1>4, <1>5, <1>6, <1>7 DEF Works, Moves, Calls, Runs

-----------------------------------------------------------------------------
(* What a list read from the table and sent says of it.                    *)

\* Breakpoints that keep their modifiers agree as before.
LEMMA AgreesKept ==
  ASSUME NEW E, NEW S, S \subseteq Ids, \A i \in S : i < next, Steady, Agrees(E, S)
  PROVE  AgreesIn(bp', E, S)
<1>1. \A e \in E : e.id \in Ids /\ e.id < next
  BY DEF Agrees, AgreesIn
<1> QED
  BY <1>1 DEF Agrees, AgreesIn, Steady

\* A list that was read holds the whole table.
LEMMA ListingAll ==
  ASSUME table \subseteq Ids, NEW s \in Listings(table)
  PROVE  Elements(s) = table
<1>1. IsFiniteSet(Ids)
  BY FS_Interval, BreakpointsAssumption DEF Ids
<1> DEFINE n == Cardinality(table)
<1>2. IsFiniteSet(table) /\ n \in Nat
  BY <1>1, FS_Subset, FS_CardinalityType
<1>3. IsFiniteSet(1..n) /\ Cardinality(1..n) = n
  BY <1>2, FS_Interval
<1>4. s \in [1..n -> table] /\ \A i, j \in 1..n : i # j => s[i] # s[j]
  BY DEF Listings
<1> HIDE DEF n
<1>5. s \in Injection(1..n, table)
  BY <1>4 DEF Injection, IsInjective
<1>6. s \in Surjection(1..n, table)
  BY <1>2, <1>3, <1>5, FS_Injection DEF n
<1> QED
  BY <1>4, <1>6 DEF Surjection, Elements

\* What the two lists that go out say.
LEMMA ListSays ==
  ASSUME NEW h, Alone(h), NEW s, s = snap[h], NEW l,
         \/ l = [i \in DOMAIN s |-> Sent(h, s[i])]
         \/ l = [i \in DOMAIN s |-> [id |-> s[i], mod |-> bp[s[i]].mod]]
  PROVE  Agrees(Elements(l), Elements(s))
<1>f. TypeTable /\ TypeLocal /\ ModsInv /\ h \in Procs
  BY AloneFacts, Types DEF Alone, SyncInv
<1>1. s \in Seq(Ids)
  BY <1>f DEF TypeLocal
<1>2. \A i \in DOMAIN s : s[i] \in Ids
  BY <1>1
<1>3. \A i \in DOMAIN s : /\ l[i].id = s[i]
                          /\ "hit" \notin Mods => l[i].mod = bp[s[i]].mod
  BY <1>f, <1>2 DEF Sent, ModsInv
<1>4. DOMAIN l = DOMAIN s
  OBVIOUS
<1>5. \A e \in Elements(l) : \E i \in DOMAIN s : e = l[i]
  BY <1>4 DEF Elements
<1>6. \A i \in DOMAIN s : l[i] \in Elements(l)
  BY <1>4 DEF Elements
<1>7. {e.id : e \in Elements(l)} = Elements(s)
  BY <1>3, <1>5, <1>6 DEF Elements
<1> QED
  BY <1>3, <1>5, <1>7 DEF Agrees, AgreesIn

\* The adapter's new entries say what the list says.
LEMMA EntriesSay ==
  ASSUME NEW list \in Seq(Item), NEW dap, NEW S, Agrees(Elements(list), S)
  PROVE  Agrees(Entries(list, dap), S)
<1> DEFINE E == Entries(list, dap)
<1>1. \A q \in E : \E k \in DOMAIN list : q.id = list[k].id /\ q.mod = list[k].mod
  BY DEF Entries
<1>2. ASSUME NEW k \in DOMAIN list PROVE \E q \in E : q.id = list[k].id
  <2>1. [id |-> list[k].id, mod |-> list[k].mod, dap |-> dap[k]] \in E
    BY DEF Entries
  <2> HIDE DEF E
  <2> QED
    BY <2>1
<1>3. \A k \in DOMAIN list : list[k] \in Elements(list)
  BY DEF Elements
<1>4. \A e \in Elements(list) : \E k \in DOMAIN list : e = list[k]
  BY DEF Elements
<1> HIDE DEF E
<1>5. {q.id : q \in E} = S
  <2>1. \A q \in E : q.id \in S
    BY <1>1, <1>3 DEF Agrees, AgreesIn
  <2>2. \A i \in S : \E e \in Elements(list) : i = e.id
    BY DEF Agrees, AgreesIn
  <2>3. \A i \in S : \E q \in E : i = q.id
    BY <1>2, <1>4, <2>2
  <2> QED
    BY <2>1, <2>3
<1>6. "hit" \notin Mods => \A q \in E : q.mod = bp[q.id].mod
  BY <1>1, <1>3 DEF Agrees, AgreesIn
<1>7. Agrees(E, S)
  BY <1>5, <1>6 DEF Agrees, AgreesIn
<1> QED
  BY <1>7 DEF E

-----------------------------------------------------------------------------
(* What the kinds of step do to requests and to the adapter.               *)

LEMMA MoveView ==
  ASSUME NEW h, Alone(h), Moves(h)
  PROVE  inbox = <<>> /\ inbox' = <<>> /\ UNCHANGED <<placed, placedFn, placedEx>>
<1>1. \/ pc[h] \notin {"setting", "settingfn", "settingex", "resuming"}
      \/ answer[h].st = "ok"
  BY DEF Moves, BreakBegin, UntilBegin, UnbreakBegin, ContinueBegin, Put, WriteBack, ResumeOk,
     UntilReturns, ContinueTold, ClearOnceAt, LocatesOnly, Remove, Removed, Read, SetOk,
     BreakFnBegin, PutFuncBP, FuncBPs, FuncOk, UpdateFuncBP, BreakExBegin, SetExcFilters, Receive,
     Begin, Accept
<1>2. UNCHANGED <<inbox, placed, placedFn, placedEx>>
  BY DEF Moves, BreakBegin, UntilBegin, UnbreakBegin, ContinueBegin, Put, WriteBack, ResumeOk,
     UntilReturns, ContinueTold, ClearOnceAt, LocatesOnly, Remove, Removed, Read, SetOk,
     BreakFnBegin, PutFuncBP, FuncBPs, FuncOk, UpdateFuncBP, BreakExBegin, SetExcFilters, Receive,
     adapterVars, callVars, otherVars
<1> QED
  BY <1>1, <1>2, NoneOut

\* The request that a call sends.
Asks(h, r) ==
  \/ Send(h) /\ r.req = "set" /\ r.list = [i \in DOMAIN snap[h] |-> Sent(h, snap[h][i])]
  \/ /\ FuncSend(h) /\ r.req = "functions"
     /\ r.list = [i \in DOMAIN snap[h] |-> [id |-> snap[h][i], mod |-> bp[snap[h][i]].mod]]
  \/ ExSend(h) /\ r.req = "exceptions" /\ r.set = chosen[h]
  \/ ResumeSend(h) /\ r.req = "continue"

LEMMA CallView ==
  ASSUME NEW h, Alone(h), alive, Calls(h)
  PROVE  \E r : /\ inbox = <<>> /\ DOMAIN inbox' = {1} /\ inbox'[1] = r /\ Asks(h, r)
                /\ pc'[h] = Waits(r.req) /\ answer'[h].st = "none"
                /\ UNCHANGED <<tableVars, otherVars, localVars, placed, programVars, reported>>
<1>f. h \in Procs /\ pc \in [Procs -> Labels] /\ answer \in [Procs -> Answer]
  BY AloneFacts
<1>1. /\ UNCHANGED <<tableVars, otherVars, localVars, placed, programVars, reported>>
      /\ pc[h] \in {"send", "sendfn", "sendex", "resume"}
  BY DEF Calls, ResumeSend, Send, FuncSend, ExSend, adapterVars
<1>2. inbox = <<>>
  BY <1>1, NoneOut
<1>3. ASSUME NEW r, Call(h, r) PROVE DOMAIN inbox' = {1} /\ inbox'[1] = r /\ answer'[h].st = "none"
  <2>1. inbox' = Append(<<>>, r) /\ answer' = [answer EXCEPT ![h] = NoAnswer]
    BY <1>2, <1>3 DEF Call
  <2>2. DOMAIN inbox' = {1} /\ inbox'[1] = r
    BY <2>1
  <2> QED
    BY <1>f, <2>1, <2>2 DEF NoAnswer
<1>4. ASSUME NEW r, Call(h, r), Goto(h, Waits(r.req)), Asks(h, r)
      PROVE  \E q : /\ inbox = <<>> /\ DOMAIN inbox' = {1} /\ inbox'[1] = q /\ Asks(h, q)
                    /\ pc'[h] = Waits(q.req) /\ answer'[h].st = "none"
                    /\ UNCHANGED <<tableVars, otherVars, localVars, placed, programVars, reported>>
  <2>1. pc'[h] = Waits(r.req)
    BY <1>f, <1>4 DEF Goto
  <2> QED
    BY <1>1, <1>2, <1>3, <1>4, <2>1
<1>5. CASE Send(h)
  <2> DEFINE l == [i \in DOMAIN snap[h] |-> Sent(h, snap[h][i])]
             r == [from |-> h, live |-> TRUE, req |-> "set", list |-> l, set |-> {}]
  <2>1. Call(h, r) /\ Goto(h, "setting")
    BY <1>5 DEF Send
  <2>2. r.req = "set" /\ r.list = l /\ Waits(r.req) = "setting"
    BY DEF Waits
  <2> HIDE DEF r
  <2>3. Asks(h, r)
    BY <1>5, <2>2 DEF Asks
  <2> QED
    BY <1>4, <2>1, <2>2, <2>3
<1>6. CASE FuncSend(h)
  <2> DEFINE l == [i \in DOMAIN snap[h] |-> [id |-> snap[h][i], mod |-> bp[snap[h][i]].mod]]
             r == [from |-> h, live |-> TRUE, req |-> "functions", list |-> l, set |-> {}]
  <2>1. Call(h, r) /\ Goto(h, "settingfn")
    BY <1>6 DEF FuncSend
  <2>2. r.req = "functions" /\ r.list = l /\ Waits(r.req) = "settingfn"
    BY DEF Waits
  <2> HIDE DEF r
  <2>3. Asks(h, r)
    BY <1>6, <2>2 DEF Asks
  <2> QED
    BY <1>4, <2>1, <2>2, <2>3
<1>7. CASE ExSend(h)
  <2> DEFINE r == [from |-> h, live |-> TRUE, req |-> "exceptions", list |-> <<>>, set |-> chosen[h]]
  <2>1. Call(h, r) /\ Goto(h, "settingex")
    BY <1>7 DEF ExSend
  <2>2. r.req = "exceptions" /\ r.set = chosen[h] /\ Waits(r.req) = "settingex"
    BY DEF Waits
  <2> HIDE DEF r
  <2>3. Asks(h, r)
    BY <1>7, <2>2 DEF Asks
  <2> QED
    BY <1>4, <2>1, <2>2, <2>3
<1>8. CASE ResumeSend(h)
  <2> DEFINE r == [from |-> h, live |-> TRUE, req |-> "continue", list |-> <<>>, set |-> {}]
  <2>1. Call(h, r) /\ Goto(h, "resuming")
    BY <1>8 DEF ResumeSend
  <2>2. r.req = "continue" /\ Waits(r.req) = "resuming"
    BY DEF Waits
  <2> HIDE DEF r
  <2>3. Asks(h, r)
    BY <1>8, <2>2 DEF Asks
  <2> QED
    BY <1>4, <2>1, <2>2, <2>3
<1> QED
  BY <1>5, <1>6, <1>7, <1>8 DEF Calls

LEMMA RunView ==
  ASSUME NEW h, Alone(h), Runs
  PROVE  UNCHANGED <<table, bp, next, open, alive, funcs, filters, chosen, placed, placedFn, placedEx,
                     pc, cmd, mine, todo, touched, snap, inbox, answer, reported>>
<1>1. CASE Pump /\ UNCHANGED otherVars
  BY <1>1, PumpAlone DEF Pump, adapterVars, callVars, otherVars
<1>2. CASE TargetHits \/ TargetEnters \/ TargetThrows
  BY <1>2 DEF TargetHits, TargetEnters, TargetThrows, Halts, tableVars, otherVars, localVars,
     adapterVars, callVars
<1> QED
  BY <1>1, <1>2 DEF Runs

\* The adapter answers the one request.
LEMMA ServeView ==
  ASSUME NEW h, Alone(h), AdapterServes
  PROVE  LET r == Head(inbox)
         IN  /\ r = inbox[1] /\ 1 \in DOMAIN inbox /\ r \in Request /\ inbox' = <<>>
             /\ pc[h] = Waits(r.req) /\ answer'[h].st = "ok" /\ answer[h].st = "none"
             /\ Serve(r)
             /\ UNCHANGED <<tableVars, funcs, filters, chosen, pc, localVars, alive, at, events,
                            reported>>
<1> DEFINE r == Head(inbox)
<1>f. h \in Procs /\ answer \in [Procs -> Answer] /\ TypeAdapter /\ PlacedInv
  BY AloneFacts, Types DEF Alone, Inv
<1>1. /\ inbox # <<>> /\ inbox' = Tail(inbox) /\ Serve(r)
      /\ UNCHANGED <<tableVars, funcs, filters, chosen, pc, localVars, alive, at, events, reported>>
  BY DEF AdapterServes
<1>2. /\ DOMAIN inbox = {1} /\ r = inbox[1] /\ Tail(inbox) = <<>>
      /\ r \in Request /\ r.live /\ r.from = h /\ pc[h] = Waits(r.req) /\ answer[h].st = "none"
  BY <1>1, OneRequest
<1>3. PICK ids : Answered(r, ids)
  BY <1>f, <1>1, <1>2, ServeSteps DEF Serves
<1> HIDE DEF r
<1>4. answer'[h].st = "ok"
  BY <1>f, <1>2, <1>3 DEF Answered
<1> QED
  BY <1>1, <1>2, <1>4 DEF r

-----------------------------------------------------------------------------
(* The adapter's sets and the session's tables.                            *)

\* The line breakpoints.
LEMMA LinesNext ==
  ASSUME NEW h, Alone(h), Next
  PROVE  LinesInv'
<1>f. /\ h \in Handlers /\ h \in Procs /\ Handlers = {h} /\ Works(h) /\ alive /\ Steady
      /\ TypeTable /\ LinesInv /\ TableInv /\ table \subseteq Ids /\ \A i \in table : i < next
      /\ pc \in [Procs -> Labels] /\ snap \in [Procs -> Seq(Ids)] /\ touched \in [Procs -> BOOLEAN]
  BY AloneFacts, AloneSteps, SteadyNext, Types DEF Alone, Inv, SyncInv, TypeTable, TableInv
<1>g. ASSUME ~Unsynced(h)' => AgreesIn(bp', placed', table'),
             pc'[h] = "send" => Elements(snap'[h]) = table',
             \A j \in DOMAIN inbox' :
               inbox'[j].req = "set" => AgreesIn(bp', Elements(inbox'[j].list), table')
      PROVE  LinesInv'
  BY <1>f, <1>g DEF LinesInv, Agrees
<1>a. /\ ~Unsynced(h) => Agrees(placed, table)
      /\ pc[h] = "send" => Elements(snap[h]) = table
      /\ \A j \in DOMAIN inbox : inbox[j].req = "set" => Agrees(Elements(inbox[j].list), table)
  BY <1>f DEF LinesInv
<1>k. \A E : Agrees(E, table) => AgreesIn(bp', E, table)
  BY <1>f, AgreesKept
\* In step before, and neither side changes.
<1>1. ASSUME ~Unsynced(h), UNCHANGED <<table, placed>>, pc'[h] # "send",
             \A j \in DOMAIN inbox' : inbox'[j].req # "set"
      PROVE  LinesInv'
  BY <1>a, <1>g, <1>k, <1>1
\* About to be brought in step.
<1>2. ASSUME pc'[h] = "read", inbox' = <<>> PROVE LinesInv'
  BY <1>g, <1>2 DEF Unsynced
<1>3. CASE Moves(h)
  <2>v. inbox = <<>> /\ inbox' = <<>> /\ UNCHANGED <<placed, placedFn, placedEx>>
    BY <1>3, MoveView
  <2>1. CASE \/ BreakBegin(h) \/ UntilBegin(h) \/ UnbreakBegin(h) \/ ContinueBegin(h)
             \/ BreakFnBegin(h) \/ BreakExBegin(h)
    <3>1. pc[h] = "idle" /\ UNCHANGED table
      BY <2>1 DEF BreakBegin, UntilBegin, UnbreakBegin, ContinueBegin, BreakFnBegin, BreakExBegin,
         Begin, Accept, tableVars
    <3>2. pc'[h] # "send"
      BY <1>f, <2>1 DEF BreakBegin, UntilBegin, UnbreakBegin, ContinueBegin, BreakFnBegin,
         BreakExBegin, Goto
    <3> QED
      BY <1>1, <2>v, <3>1, <3>2 DEF Unsynced
  <2>2. CASE \/ WriteBack(h) \/ ResumeOk(h) \/ ContinueTold(h) \/ ClearOnceAt(h) \/ LocatesOnly(h)
             \/ PutFuncBP(h) \/ FuncBPs(h) \/ FuncOk(h) \/ UpdateFuncBP(h) \/ SetExcFilters(h)
    <3>1. /\ pc[h] \in {"writing", "resuming", "waiting", "locate", "putfn", "readfn", "settingfn",
                        "writingfn", "settingex"}
          /\ UNCHANGED table
      BY <2>2 DEF WriteBack, ResumeOk, ContinueTold, ClearOnceAt, LocatesOnly, PutFuncBP, FuncBPs,
         FuncOk, UpdateFuncBP, SetExcFilters, tableVars
    <3>2. pc'[h] # "send"
      BY <1>f, <2>2 DEF WriteBack, ResumeOk, ContinueTold, ClearOnceAt, LocatesOnly, PutFuncBP,
         FuncBPs, FuncOk, UpdateFuncBP, SetExcFilters, Goto, Finish
    <3> QED
      BY <1>1, <2>v, <3>1, <3>2 DEF Unsynced
  <2>3. CASE Put(h) \/ UntilReturns(h)
    <3>1. pc'[h] = "read"
      BY <1>f, <2>3, AloneSteps DEF Put, UntilReturns, Goto
    <3> QED
      BY <1>2, <2>v, <3>1
  <2>4. CASE Remove(h)
    <3>1. PICK i \in todo[h] : /\ table' = table \ {i}
                               /\ touched' = [touched EXCEPT ![h] = @ \/ i \in table]
      BY <2>4 DEF Remove
    <3>2. pc[h] = "remove" /\ pc'[h] = "remove" /\ touched'[h] = (touched[h] \/ i \in table)
      BY <1>f, <2>4, <3>1 DEF Remove
    <3>3. CASE touched[h] \/ i \in table
      <4>1. Unsynced(h)'
        BY <3>2, <3>3 DEF Unsynced
      <4> QED
        BY <1>g, <2>v, <3>2, <4>1
    <3>4. CASE ~(touched[h] \/ i \in table)
      <4>1. table' = table /\ ~Unsynced(h)
        BY <3>1, <3>2, <3>4 DEF Unsynced
      <4> QED
        BY <1>1, <2>v, <3>2, <4>1
    <3> QED
      BY <3>3, <3>4
  <2>5. CASE Removed(h)
    <3>1. pc[h] = "remove" /\ UNCHANGED table
      BY <2>5 DEF Removed, tableVars
    <3>2. CASE touched[h]
      BY <1>2, <1>f, <2>v, <2>5, <3>2 DEF Removed, Goto
    <3>3. CASE ~touched[h]
      <4>1. pc'[h] = "idle"
        BY <1>f, <2>5, <3>3 DEF Removed, Goto, Finish
      <4> QED
        BY <1>1, <2>v, <3>1, <3>3, <4>1 DEF Unsynced
    <3> QED
      BY <3>2, <3>3
  <2>6. CASE Read(h)
    <3>1. PICK s \in Listings(table) : snap' = [snap EXCEPT ![h] = s]
      BY <2>6 DEF Read
    <3>2. pc'[h] = "send" /\ snap'[h] = s /\ UNCHANGED table
      BY <1>f, <2>6, <3>1 DEF Read, Goto, tableVars
    <3>3. Elements(s) = table
      BY <1>f, ListingAll
    <3> QED
      BY <1>g, <2>v, <3>2, <3>3 DEF Unsynced
  <2>7. CASE SetOk(h)
    <3>1. pc[h] = "setting" /\ answer[h].st = "ok" /\ UNCHANGED table
      BY <2>7 DEF SetOk, tableVars
    <3>2. pc'[h] # "send"
      BY <1>f, <2>7 DEF SetOk, Synced, Goto, Finish
    <3> QED
      BY <1>1, <2>v, <3>1, <3>2 DEF Unsynced
  <2> QED
    BY <1>3, <2>1, <2>2, <2>3, <2>4, <2>5, <2>6, <2>7 DEF Moves
<1>4. CASE Calls(h)
  <2>1. PICK r : /\ inbox = <<>> /\ DOMAIN inbox' = {1} /\ inbox'[1] = r /\ Asks(h, r)
                 /\ pc'[h] = Waits(r.req) /\ answer'[h].st = "none"
                 /\ UNCHANGED <<tableVars, otherVars, localVars, placed, programVars, reported>>
    BY <1>f, <1>4, CallView
  <2>2. UNCHANGED <<table, placed>>
    BY <2>1 DEF tableVars
  <2>3. CASE r.req = "set"
    <3>1. pc[h] = "send" /\ r.list = [i \in DOMAIN snap[h] |-> Sent(h, snap[h][i])]
      BY <2>1, <2>3 DEF Asks, Send
    <3>2. Agrees(Elements(r.list), table)
      BY <1>a, <3>1, ListSays
    <3>3. pc'[h] = "setting"
      BY <2>1, <2>3 DEF Waits
    <3> QED
      BY <1>g, <1>k, <2>1, <2>2, <3>2, <3>3 DEF Unsynced
  <2>4. CASE r.req # "set"
    <3>1. pc[h] \in {"sendfn", "sendex", "resume"}
      BY <2>1, <2>4 DEF Asks, FuncSend, ExSend, ResumeSend
    <3>2. pc'[h] # "send"
      BY <2>1 DEF Waits
    <3> QED
      BY <1>1, <2>1, <2>2, <2>4, <3>1, <3>2 DEF Unsynced
  <2> QED
    BY <2>3, <2>4
<1>5. CASE Runs
  <2>1. UNCHANGED <<table, placed, pc, touched, snap, inbox, answer>>
    BY <1>5, RunView
  <2>2. Unsynced(h)' <=> Unsynced(h)
    BY <2>1 DEF Unsynced
  <2> QED
    BY <1>a, <1>g, <1>k, <2>1, <2>2
<1>6. CASE AdapterServes
  <2> DEFINE r == Head(inbox)
  <2>1. /\ r = inbox[1] /\ 1 \in DOMAIN inbox /\ r \in Request /\ inbox' = <<>> /\ Serve(r)
        /\ pc[h] = Waits(r.req) /\ answer'[h].st = "ok" /\ UNCHANGED <<table, pc>>
    BY <1>6, ServeView DEF tableVars
  <2> HIDE DEF r
  <2>2. CASE r.req = "set"
    <3>1. Agrees(Elements(r.list), table) /\ r.list \in Seq(Item)
      BY <1>a, <2>1, <2>2 DEF Request, Item
    <3>2. PICK dap : placed' = Entries(r.list, dap)
      BY <2>1, <2>2 DEF Serve, ServeSet, ServeFunctions, ServeExceptions, ServeContinue
    <3>3. Agrees(placed', table)
      BY <3>1, <3>2, EntriesSay
    <3>4. pc'[h] # "send"
      BY <2>1 DEF Waits
    <3> QED
      BY <1>g, <1>k, <2>1, <3>3, <3>4
  <2>3. CASE r.req # "set"
    <3>1. UNCHANGED placed
      BY <2>1, <2>3 DEF Serve, ServeSet, ServeFunctions, ServeExceptions, ServeContinue
    <3>2. pc[h] \in {"settingfn", "settingex", "resuming"}
      BY <2>1, <2>3 DEF Request, Waits
    <3> QED
      BY <1>1, <2>1, <3>1, <3>2 DEF Unsynced
  <2> QED
    BY <2>2, <2>3
<1>7. CASE Stop(h)
  BY <1>7 DEF Stop, LinesInv
<1> QED
  BY <1>f, <1>3, <1>4, <1>5, <1>6, <1>7 DEF Works

\* The function breakpoints.
LEMMA FuncsNext ==
  ASSUME NEW h, Alone(h), Next
  PROVE  FuncsInv'
<1>f. /\ h \in Handlers /\ h \in Procs /\ Handlers = {h} /\ Works(h) /\ alive /\ Steady
      /\ FuncsInv /\ funcs \in Seq(Ids) /\ \A i \in Elements(funcs) : i < next
      /\ next \in Nat /\ next' \in Nat /\ next <= next'
      /\ pc \in [Procs -> Labels] /\ snap \in [Procs -> Seq(Ids)]
  <2>1. TypeTable /\ TypeOther /\ FuncsInv /\ TypeOK'
    BY Types, TypeNext DEF Alone, Inv, SyncInv
  <2>2. next \in Nat /\ next' \in Nat
    BY <2>1 DEF TypeTable, TypeOK
  <2> QED
    BY <2>1, <2>2, AloneFacts, AloneSteps, SteadyNext DEF Alone, TypeOther, FuncsInv
<1>s. Elements(funcs) \subseteq Ids
  BY <1>f DEF Elements
<1>l. UNCHANGED funcs => \A i \in Elements(funcs') : i < next'
  BY <1>f, <1>s DEF Ids
<1>g. ASSUME \A i \in Elements(funcs') : i < next',
             ~UnsyncedFn(h)' => AgreesIn(bp', placedFn', Elements(funcs')),
             pc'[h] = "sendfn" => snap'[h] = funcs',
             \A j \in DOMAIN inbox' :
               inbox'[j].req = "functions" => AgreesIn(bp', Elements(inbox'[j].list), Elements(funcs'))
      PROVE  FuncsInv'
  BY <1>f, <1>g DEF FuncsInv, Agrees
<1>a. /\ ~UnsyncedFn(h) => Agrees(placedFn, Elements(funcs))
      /\ pc[h] = "sendfn" => snap[h] = funcs
      /\ \A j \in DOMAIN inbox :
           inbox[j].req = "functions" => Agrees(Elements(inbox[j].list), Elements(funcs))
  BY <1>f DEF FuncsInv
<1>k. \A E : Agrees(E, Elements(funcs)) => AgreesIn(bp', E, Elements(funcs))
  BY <1>f, <1>s, AgreesKept
<1>1. ASSUME ~UnsyncedFn(h), UNCHANGED <<funcs, placedFn>>, pc'[h] # "sendfn",
             \A j \in DOMAIN inbox' : inbox'[j].req # "functions"
      PROVE  FuncsInv'
  BY <1>a, <1>g, <1>k, <1>l, <1>1
<1>2. CASE Moves(h)
  <2>v. inbox = <<>> /\ inbox' = <<>> /\ UNCHANGED <<placed, placedFn, placedEx>>
    BY <1>2, MoveView
  <2>1. CASE /\ \/ BreakBegin(h) \/ UntilBegin(h) \/ UnbreakBegin(h) \/ ContinueBegin(h)
                \/ Put(h) \/ WriteBack(h) \/ ResumeOk(h) \/ UntilReturns(h)
                \/ ContinueTold(h) \/ ClearOnceAt(h) \/ LocatesOnly(h)
                \/ Remove(h) \/ Removed(h) \/ Read(h) \/ SetOk(h)
             /\ UNCHANGED otherVars
    <3>1. /\ pc[h] \notin {"readfn", "sendfn", "settingfn"} /\ UNCHANGED funcs
      BY <2>1 DEF BreakBegin, UntilBegin, UnbreakBegin, ContinueBegin, Begin, Accept, Put, WriteBack,
         ResumeOk, UntilReturns, ContinueTold, ClearOnceAt, LocatesOnly, Remove, Removed, Read, SetOk,
         otherVars
    <3>2. pc'[h] # "sendfn"
      BY <1>f, <2>1, <3>1 DEF BreakBegin, UntilBegin, UnbreakBegin, ContinueBegin, Put, WriteBack,
         ResumeOk, UntilReturns, ContinueTold, ClearOnceAt, LocatesOnly, Remove, Removed, Read, SetOk,
         Synced, Goto, Finish
    <3> QED
      BY <1>1, <2>v, <3>1, <3>2 DEF UnsyncedFn
  <2>2. CASE BreakFnBegin(h) \/ FuncOk(h) \/ UpdateFuncBP(h) \/ BreakExBegin(h) \/ SetExcFilters(h)
    <3>1. /\ pc[h] \in {"idle", "settingfn", "writingfn", "settingex"} /\ UNCHANGED funcs
          /\ pc[h] = "settingfn" => answer[h].st = "ok"
      BY <2>2 DEF BreakFnBegin, FuncOk, UpdateFuncBP, BreakExBegin, SetExcFilters, Begin, Accept,
         otherVars
    <3>2. pc'[h] # "sendfn"
      BY <1>f, <2>2 DEF BreakFnBegin, FuncOk, UpdateFuncBP, BreakExBegin, SetExcFilters, Goto, Finish
    <3> QED
      BY <1>1, <2>v, <3>1, <3>2 DEF UnsyncedFn
  <2>3. CASE PutFuncBP(h)
    <3>1. funcs' = Append(funcs, mine[h]) /\ pc'[h] = "readfn" /\ pc[h] = "putfn" /\ UNCHANGED next
      BY <1>f, <2>3 DEF PutFuncBP, Goto, tableVars
    <3>2. mine[h] \in Ids /\ mine[h] < next
      BY <1>f, <3>1 DEF Alone, Inv, MineInv
    <3>3. \A k \in DOMAIN funcs' : funcs'[k] = mine[h] \/ (k \in DOMAIN funcs /\ funcs'[k] = funcs[k])
      BY <1>f, <3>1, <3>2
    <3>4. \A i \in Elements(funcs') : i < next'
      BY <1>f, <3>1, <3>2, <3>3 DEF Elements
    <3> QED
      BY <1>g, <2>v, <3>1, <3>4 DEF UnsyncedFn
  <2>4. CASE FuncBPs(h)
    <3>1. pc'[h] = "sendfn" /\ snap'[h] = funcs /\ UNCHANGED funcs
      BY <1>f, <2>4 DEF FuncBPs, Goto, otherVars
    <3> QED
      BY <1>g, <1>l, <2>v, <3>1 DEF UnsyncedFn
  <2> QED
    BY <1>2, <2>1, <2>2, <2>3, <2>4 DEF Moves
<1>3. CASE Calls(h)
  <2>1. PICK r : /\ inbox = <<>> /\ DOMAIN inbox' = {1} /\ inbox'[1] = r /\ Asks(h, r)
                 /\ pc'[h] = Waits(r.req) /\ answer'[h].st = "none"
                 /\ UNCHANGED <<tableVars, otherVars, localVars, placed, programVars, reported>>
    BY <1>f, <1>3, CallView
  <2>2. UNCHANGED <<funcs, placedFn>>
    BY <2>1 DEF otherVars
  <2>3. CASE r.req = "functions"
    <3>1. /\ pc[h] = "sendfn"
          /\ r.list = [i \in DOMAIN snap[h] |-> [id |-> snap[h][i], mod |-> bp[snap[h][i]].mod]]
      BY <2>1, <2>3 DEF Asks, FuncSend
    <3>2. Agrees(Elements(r.list), Elements(funcs))
      BY <1>a, <3>1, ListSays
    <3>3. pc'[h] = "settingfn"
      BY <2>1, <2>3 DEF Waits
    <3> QED
      BY <1>g, <1>k, <1>l, <2>1, <2>2, <3>2, <3>3 DEF UnsyncedFn
  <2>4. CASE r.req # "functions"
    <3>1. pc[h] \in {"send", "sendex", "resume"}
      BY <2>1, <2>4 DEF Asks, Send, ExSend, ResumeSend
    <3>2. pc'[h] # "sendfn"
      BY <2>1 DEF Waits
    <3> QED
      BY <1>1, <2>1, <2>2, <2>4, <3>1, <3>2 DEF UnsyncedFn
  <2> QED
    BY <2>3, <2>4
<1>4. CASE Runs
  <2>1. UNCHANGED <<funcs, placedFn, pc, snap, inbox, answer>>
    BY <1>4, RunView
  <2>2. UnsyncedFn(h)' <=> UnsyncedFn(h)
    BY <2>1 DEF UnsyncedFn
  <2> QED
    BY <1>a, <1>g, <1>k, <1>l, <2>1, <2>2
<1>5. CASE AdapterServes
  <2> DEFINE r == Head(inbox)
  <2>1. /\ r = inbox[1] /\ 1 \in DOMAIN inbox /\ r \in Request /\ inbox' = <<>> /\ Serve(r)
        /\ pc[h] = Waits(r.req) /\ answer'[h].st = "ok" /\ UNCHANGED <<funcs, pc>>
    BY <1>5, ServeView
  <2> HIDE DEF r
  <2>2. CASE r.req = "functions"
    <3>1. Agrees(Elements(r.list), Elements(funcs)) /\ r.list \in Seq(Item)
      BY <1>a, <2>1, <2>2 DEF Request, Item
    <3>2. PICK dap : placedFn' = Entries(r.list, dap)
      BY <2>1, <2>2 DEF Serve, ServeSet, ServeFunctions, ServeExceptions, ServeContinue
    <3>3. Agrees(placedFn', Elements(funcs))
      BY <3>1, <3>2, EntriesSay
    <3>4. pc'[h] # "sendfn"
      BY <2>1 DEF Waits
    <3> QED
      BY <1>g, <1>k, <1>l, <2>1, <3>3, <3>4
  <2>3. CASE r.req # "functions"
    <3>1. UNCHANGED placedFn
      BY <2>1, <2>3 DEF Serve, ServeSet, ServeFunctions, ServeExceptions, ServeContinue
    <3>2. pc[h] \in {"setting", "settingex", "resuming"}
      BY <2>1, <2>3 DEF Request, Waits
    <3> QED
      BY <1>1, <2>1, <3>1, <3>2 DEF UnsyncedFn
  <2> QED
    BY <2>2, <2>3
<1>6. CASE Stop(h)
  BY <1>6 DEF Stop, FuncsInv, Elements
<1> QED
  BY <1>f, <1>2, <1>3, <1>4, <1>5, <1>6 DEF Works

\* The exception filters.
LEMMA FiltersNext ==
  ASSUME NEW h, Alone(h), Next
  PROVE  FiltersInv'
<1>f. /\ h \in Handlers /\ h \in Procs /\ Handlers = {h} /\ Works(h) /\ alive /\ FiltersInv
      /\ pc \in [Procs -> Labels] /\ chosen \in [Procs -> SUBSET Filters]
  BY AloneFacts, AloneSteps DEF Alone, SyncInv
<1>g. ASSUME placedEx' = IF pc'[h] = "settingex" /\ answer'[h].st = "ok" THEN chosen'[h] ELSE filters',
             \A j \in DOMAIN inbox' : inbox'[j].req = "exceptions" => inbox'[j].set = chosen'[h]
      PROVE  FiltersInv'
  BY <1>f, <1>g DEF FiltersInv
<1>a. /\ placedEx = IF pc[h] = "settingex" /\ answer[h].st = "ok" THEN chosen[h] ELSE filters
      /\ \A j \in DOMAIN inbox : inbox[j].req = "exceptions" => inbox[j].set = chosen[h]
  BY <1>f DEF FiltersInv
<1>1. CASE Moves(h)
  <2>v. inbox' = <<>> /\ UNCHANGED placedEx
    BY <1>1, MoveView
  <2>1. CASE /\ \/ BreakBegin(h) \/ UntilBegin(h) \/ UnbreakBegin(h) \/ ContinueBegin(h)
                \/ Put(h) \/ WriteBack(h) \/ ResumeOk(h) \/ UntilReturns(h)
                \/ ContinueTold(h) \/ ClearOnceAt(h) \/ LocatesOnly(h)
                \/ Remove(h) \/ Removed(h) \/ Read(h) \/ SetOk(h)
             /\ UNCHANGED otherVars
    <3>1. pc[h] # "settingex" /\ UNCHANGED filters
      BY <2>1 DEF BreakBegin, UntilBegin, UnbreakBegin, ContinueBegin, Begin, Accept, Put, WriteBack,
         ResumeOk, UntilReturns, ContinueTold, ClearOnceAt, LocatesOnly, Remove, Removed, Read, SetOk,
         otherVars
    <3>2. pc'[h] # "settingex"
      BY <1>f, <2>1, <3>1 DEF BreakBegin, UntilBegin, UnbreakBegin, ContinueBegin, Put, WriteBack,
         ResumeOk, UntilReturns, ContinueTold, ClearOnceAt, LocatesOnly, Remove, Removed, Read, SetOk,
         Synced, Goto, Finish
    <3> QED
      BY <1>a, <1>g, <2>v, <3>1, <3>2
  <2>2. CASE \/ BreakFnBegin(h) \/ PutFuncBP(h) \/ FuncBPs(h) \/ FuncOk(h) \/ UpdateFuncBP(h)
             \/ BreakExBegin(h)
    <3>1. pc[h] # "settingex" /\ UNCHANGED filters
      BY <2>2 DEF BreakFnBegin, PutFuncBP, FuncBPs, FuncOk, UpdateFuncBP, BreakExBegin, Begin, Accept,
         otherVars
    <3>2. pc'[h] # "settingex"
      BY <1>f, <2>2, <3>1 DEF BreakFnBegin, PutFuncBP, FuncBPs, FuncOk, UpdateFuncBP, BreakExBegin,
         Goto, Finish
    <3> QED
      BY <1>a, <1>g, <2>v, <3>1, <3>2
  <2>3. CASE SetExcFilters(h)
    <3>1. pc[h] = "settingex" /\ answer[h].st = "ok" /\ filters' = chosen[h] /\ pc'[h] = "idle"
      BY <1>f, <2>3 DEF SetExcFilters, Receive, Finish, Goto
    <3> QED
      BY <1>a, <1>g, <2>v, <3>1
  <2> QED
    BY <1>1, <2>1, <2>2, <2>3 DEF Moves
<1>2. CASE Calls(h)
  <2>1. PICK r : /\ inbox = <<>> /\ DOMAIN inbox' = {1} /\ inbox'[1] = r /\ Asks(h, r)
                 /\ pc'[h] = Waits(r.req) /\ answer'[h].st = "none"
                 /\ UNCHANGED <<tableVars, otherVars, localVars, placed, programVars, reported>>
    BY <1>f, <1>2, CallView
  <2>2. UNCHANGED <<filters, chosen, placedEx>> /\ pc[h] # "settingex"
    BY <2>1 DEF otherVars, Asks, Send, FuncSend, ExSend, ResumeSend
  <2>3. r.req = "exceptions" => r.set = chosen[h]
    BY <2>1 DEF Asks
  <2> QED
    BY <1>a, <1>g, <2>1, <2>2, <2>3
<1>3. CASE Runs
  BY <1>a, <1>g, <1>3, RunView
<1>4. CASE AdapterServes
  <2> DEFINE r == Head(inbox)
  <2>1. /\ r = inbox[1] /\ 1 \in DOMAIN inbox /\ r \in Request /\ inbox' = <<>> /\ Serve(r)
        /\ pc[h] = Waits(r.req) /\ answer'[h].st = "ok" /\ answer[h].st = "none"
        /\ UNCHANGED <<filters, chosen, pc>>
    BY <1>4, ServeView
  <2> HIDE DEF r
  <2>2. CASE r.req = "exceptions"
    <3>1. placedEx' = r.set
      BY <2>1, <2>2 DEF Serve, ServeSet, ServeFunctions, ServeExceptions, ServeContinue
    <3>2. pc'[h] = "settingex"
      BY <2>1, <2>2 DEF Waits
    <3> QED
      BY <1>a, <1>g, <2>1, <2>2, <3>1, <3>2
  <2>3. CASE r.req # "exceptions"
    <3>1. UNCHANGED placedEx
      BY <2>1, <2>3 DEF Serve, ServeSet, ServeFunctions, ServeExceptions, ServeContinue
    <3>2. pc[h] # "settingex"
      BY <2>1, <2>3 DEF Waits
    <3> QED
      BY <1>a, <1>g, <2>1, <3>1, <3>2
  <2> QED
    BY <2>2, <2>3
<1>5. CASE Stop(h)
  BY <1>5 DEF Stop, FiltersInv
<1> QED
  BY <1>f, <1>1, <1>2, <1>3, <1>4, <1>5 DEF Works

-----------------------------------------------------------------------------
(* The program, and what its stops mean for once breakpoints.              *)

\* The breakpoints of the table are on lines.
LEMMA PlacesNext ==
  ASSUME NEW h, Alone(h), Next
  PROVE  PlacesInv'
<1>f. /\ h \in Handlers /\ h \in Procs /\ Handlers = {h} /\ Works(h) /\ alive /\ open /\ Steady
      /\ PlacesInv /\ TypeTable /\ MineInv /\ table \subseteq Ids /\ \A i \in table : i < next
      /\ pc \in [Procs -> Labels] /\ mine \in [Procs -> Ids \cup {0}]
  BY AloneFacts, AloneSteps, SteadyNext, Types DEF Alone, Inv, SyncInv, TypeTable, TableInv
<1>1. ASSUME table' \subseteq table, pc'[h] # "put" PROVE PlacesInv'
  BY <1>f, <1>1 DEF PlacesInv, Steady
<1>2. CASE BreakBegin(h) \/ UntilBegin(h)
  <2>1. PICK b : Allocate(h, b) /\ b.line \in Lines
    <3>1. CASE BreakBegin(h)
      BY <3>1 DEF BreakBegin
    <3>2. CASE UntilBegin(h)
      BY <3>2 DEF UntilBegin
    <3> QED
      BY <1>2, <3>1, <3>2
  <2>2. next \in Ids /\ bp' = [bp EXCEPT ![next] = b] /\ mine' = [mine EXCEPT ![h] = next]
    BY <1>f, <2>1, BreakpointsAssumption DEF Allocate, Ids, TypeTable
  <2>3. bp'[mine'[h]] = b
    BY <1>f, <2>2 DEF TypeTable
  <2>4. b.line # 0 /\ UNCHANGED table
    BY <1>2, <2>1, BreakpointsAssumption DEF BreakBegin, UntilBegin
  <2> QED
    BY <1>f, <2>3, <2>4 DEF PlacesInv, Steady
<1>3. CASE Put(h)
  <2>1. pc[h] = "put" /\ table' = table \cup {mine[h]} /\ pc'[h] = "read" /\ UNCHANGED bp
    BY <1>f, <1>3 DEF Put, Goto
  <2> QED
    BY <1>f, <2>1 DEF PlacesInv
<1>4. CASE Moves(h) /\ ~(BreakBegin(h) \/ UntilBegin(h) \/ Put(h))
  <2>1. table' \subseteq table
    BY <1>4 DEF Moves, UnbreakBegin, ContinueBegin, WriteBack, ResumeOk, UntilReturns, ContinueTold,
       ClearOnceAt, LocatesOnly, Remove, Removed, Read, SetOk, BreakFnBegin, PutFuncBP, FuncBPs,
       FuncOk, UpdateFuncBP, BreakExBegin, SetExcFilters, tableVars
  <2>2. pc'[h] # "put"
    BY <1>f, <1>4 DEF Moves, UnbreakBegin, ContinueBegin, WriteBack, ResumeOk, UntilReturns,
       ContinueTold, ClearOnceAt, LocatesOnly, Remove, Removed, Read, SetOk, Synced, BreakFnBegin,
       PutFuncBP, FuncBPs, FuncOk, UpdateFuncBP, BreakExBegin, SetExcFilters, Goto, Finish
  <2> QED
    BY <1>1, <2>1, <2>2
<1>5. CASE Calls(h)
  BY <1>f, <1>1, <1>5, CallView DEF Waits, tableVars
<1>6. CASE Runs
  BY <1>f, <1>6, RunView DEF PlacesInv
<1>7. CASE AdapterServes
  BY <1>1, <1>7, ServeView DEF Waits, tableVars
<1>8. CASE Stop(h)
  BY <1>f, <1>1, <1>8 DEF Stop, Accept
<1> QED
  BY <1>f, <1>2, <1>3, <1>4, <1>5, <1>6, <1>7, <1>8 DEF Works

\* The program stops once for each time it is resumed.
LEMMA RunsNext ==
  ASSUME NEW h, Alone(h), Next
  PROVE  ProgramInv'
<1>f. /\ h \in Handlers /\ h \in Procs /\ Handlers = {h} /\ Works(h) /\ alive /\ Steady /\ ~Failing
      /\ TypeTable /\ TypeProgram /\ PlacesInv /\ LinesInv /\ table \subseteq Ids
      /\ cmd[h] \in Does(pc[h])
      /\ pc \in [Procs -> Labels] /\ cmd \in [Procs -> Commands] /\ told \in [Procs -> Hit]
      /\ answer \in [Procs -> Answer] /\ target \in {"stopped", "running"} /\ events \in Seq(Hit)
  BY AloneFacts, AloneSteps, SteadyNext, Types DEF Alone, Inv, SyncInv, TypeTable, TypeProgram
<1>a. /\ ~Resumed(h) => target = "stopped" /\ events = <<>>
      /\ target = "running" => events = <<>> /\ told[h] = NoHit
      /\ events # <<>> => Len(events) = 1 /\ told[h] = NoHit /\ Fresh(events[1])
      /\ told[h] # NoHit => Resumed(h) \/ pc[h] = "locate" \/ cmd[h] \in {"clear", "leave"}
      /\ told[h] # NoHit /\ Resumed(h) => Fresh(told[h])
  BY <1>f DEF Alone, SyncInv, ProgramInv
<1>g. ASSUME ~Resumed(h)' => target' = "stopped" /\ events' = <<>>,
             target' = "running" => events' = <<>> /\ told'[h] = NoHit,
             events' # <<>> => Len(events') = 1 /\ told'[h] = NoHit /\ Fresh(events[1])',
             told'[h] # NoHit => Resumed(h)' \/ pc'[h] = "locate" \/ cmd'[h] \in {"clear", "leave"},
             told'[h] # NoHit /\ Resumed(h)' => Fresh(told[h])'
      PROVE  ProgramInv'
  BY <1>f, <1>g DEF ProgramInv
\* The program stands still and the handler is busy otherwise.
<1>1. ASSUME ~Resumed(h), ~Resumed(h)', UNCHANGED <<target, events>>,
             told'[h] # NoHit => pc'[h] = "locate" \/ cmd'[h] \in {"clear", "leave"}
      PROVE  ProgramInv'
  BY <1>a, <1>g, <1>1
<1>2. ASSUME ~Resumed(h), ~Resumed(h)', UNCHANGED <<target, events>>, pc[h] # "locate",
             \/ told'[h] = NoHit
             \/ told'[h] = told[h] /\ (cmd'[h] = cmd[h] \/ pc[h] = "idle")
      PROVE  ProgramInv'
  <2>1. told'[h] # NoHit => cmd'[h] \in {"clear", "leave"}
    BY <1>a, <1>f, <1>2 DEF Does
  <2> QED
    BY <1>1, <1>2, <2>1
<1>3. CASE \/ BreakBegin(h) \/ UntilBegin(h) \/ UnbreakBegin(h) \/ ContinueBegin(h)
           \/ BreakFnBegin(h) \/ BreakExBegin(h)
  <2>1. pc[h] = "idle" /\ UNCHANGED <<target, events, told>>
    BY <1>3 DEF BreakBegin, UntilBegin, UnbreakBegin, ContinueBegin, BreakFnBegin, BreakExBegin,
       Begin, Accept, programVars
  <2>2. pc'[h] \notin {"waiting", "resuming"}
    BY <1>f, <1>3 DEF BreakBegin, UntilBegin, UnbreakBegin, ContinueBegin, BreakFnBegin, BreakExBegin,
       Goto
  <2> QED
    BY <1>2, <2>1, <2>2 DEF Resumed
<1>4. CASE \/ Put(h) \/ WriteBack(h) \/ Remove(h) \/ Removed(h) \/ Read(h) \/ SetOk(h)
           \/ PutFuncBP(h) \/ FuncBPs(h) \/ FuncOk(h) \/ UpdateFuncBP(h) \/ SetExcFilters(h)
  <2>1. /\ pc[h] \in {"put", "writing", "remove", "read", "setting", "putfn", "readfn", "settingfn",
                      "writingfn", "settingex"}
        /\ UNCHANGED <<target, events>>
    BY <1>4 DEF Put, WriteBack, Remove, Removed, Read, SetOk, PutFuncBP, FuncBPs, FuncOk, UpdateFuncBP,
       SetExcFilters, programVars
  <2>2. pc'[h] \notin {"waiting", "resuming"}
    BY <1>f, <1>4, <2>1 DEF Put, WriteBack, Remove, Removed, Read, SetOk, Synced, PutFuncBP, FuncBPs,
       FuncOk, UpdateFuncBP, SetExcFilters, Goto, Finish
  <2>3. told'[h] = NoHit \/ (told'[h] = told[h] /\ cmd'[h] = cmd[h])
    BY <1>f, <1>4 DEF Put, WriteBack, Remove, Removed, Read, SetOk, Synced, PutFuncBP, FuncBPs,
       FuncOk, UpdateFuncBP, SetExcFilters, Finish, localVars
  <2> QED
    BY <1>2, <2>1, <2>2, <2>3 DEF Resumed
<1>5. CASE ResumeOk(h)
  <2>1. /\ pc[h] = "resuming" /\ answer[h].st = "ok" /\ pc'[h] = "waiting"
        /\ UNCHANGED <<table, bp, target, at, events, told>>
    BY <1>f, <1>5 DEF ResumeOk, Receive, Goto, tableVars, programVars, localVars
  <2>2. Resumed(h) /\ Resumed(h)'
    BY <2>1 DEF Resumed
  <2>3. Fresh(events[1])' = Fresh(events[1]) /\ Fresh(told[h])' = Fresh(told[h])
    BY <2>1 DEF Fresh
  <2> QED
    BY <1>a, <1>g, <2>1, <2>2, <2>3
<1>6. CASE UntilReturns(h) \/ ContinueTold(h)
  <2>1. /\ pc[h] = "waiting" /\ told[h] # NoHit /\ UNCHANGED <<target, events>>
        /\ pc'[h] \in {"read", "locate"} /\ (pc'[h] = "read" => cmd'[h] = "leave")
    BY <1>f, <1>6 DEF UntilReturns, ContinueTold, Goto, programVars
  <2>2. target = "stopped" /\ events = <<>>
    BY <1>a, <1>f, <2>1
  <2>3. ~Resumed(h)'
    BY <2>1 DEF Resumed
  <2> QED
    BY <1>g, <2>1, <2>2, <2>3
<1>7. CASE ClearOnceAt(h) \/ LocatesOnly(h)
  <2>1. /\ pc[h] = "locate" /\ UNCHANGED <<target, events>>
        /\ pc'[h] \in {"remove", "idle"} /\ (cmd'[h] = "clear" \/ told'[h] = NoHit)
    BY <1>f, <1>7 DEF ClearOnceAt, LocatesOnly, Goto, Finish, programVars
  <2> QED
    BY <1>1, <2>1 DEF Resumed
<1>8. CASE Calls(h)
  <2>1. PICK r : /\ Asks(h, r) /\ pc'[h] = Waits(r.req) /\ answer'[h].st = "none"
                 /\ UNCHANGED <<localVars, programVars>>
    BY <1>f, <1>8, CallView
  <2>2. pc[h] \in {"send", "sendfn", "sendex", "resume"}
    BY <2>1 DEF Asks, Send, FuncSend, ExSend, ResumeSend
  <2>3. ~Resumed(h) /\ ~Resumed(h)'
    BY <2>1, <2>2 DEF Resumed, Waits
  <2> QED
    BY <1>2, <2>1, <2>2, <2>3 DEF localVars, programVars
<1>9. CASE Pump
  <2>1. /\ events # <<>> /\ events' = Tail(events) /\ UNCHANGED <<pc, cmd>>
        /\ told'[h] = IF Armed(h) /\ told[h] = NoHit THEN Head(events) ELSE told[h]
    BY <1>9, PumpAlone
  <2>2. UNCHANGED <<table, bp, target, at, answer>>
    BY <1>9 DEF Pump, callVars
  <2>3. Resumed(h) /\ Len(events) = 1 /\ told[h] = NoHit /\ Fresh(events[1]) /\ target # "running"
    BY <1>a, <2>1
  <2>4. Armed(h) /\ Head(events) = events[1] /\ Resumed(h)'
    BY <1>f, <2>1, <2>2, <2>3 DEF Resumed, Armed
  <2>5. events' = <<>>
    <3>1. Tail(events) \in Seq(Hit) /\ Len(Tail(events)) = 0
      BY <1>f, <2>1, <2>3
    <3> QED
      BY <2>1, <3>1, NoElements
  <2>6. told'[h] = events[1]
    BY <2>1, <2>3, <2>4
  <2>7. Fresh(told[h])'
    BY <2>2, <2>3, <2>6 DEF Fresh
  <2> QED
    BY <1>g, <2>2, <2>3, <2>4, <2>5, <2>7
<1>10. CASE TargetHits \/ TargetEnters \/ TargetThrows
  <2>1. PICK why \in Reasons, l \in Lines \cup {0}, who \in SUBSET Ids :
           /\ target = "running" /\ target' = "stopped" /\ at' = l /\ alive
           /\ events' = Append(events, [why |-> why, line |-> l, who |-> who, ids |-> {}])
           /\ UNCHANGED <<tableVars, otherVars, pc, localVars, adapterVars, callVars, reported>>
           /\ \/ l \in Lines /\ who = {}
              \/ /\ why = "breakpoint"
                 /\ \E q \in placed : /\ l = bp[q.id].line
                                      /\ who = {r.id : r \in {r \in placed : bp[r.id].line = l}}
    BY <1>10, HaltsAlone
  <2>2. Resumed(h) /\ events = <<>> /\ told[h] = NoHit
    BY <1>a, <2>1
  <2>3. UNCHANGED <<table, bp, pc, cmd, told, answer>>
    BY <2>1 DEF tableVars, localVars, callVars
  <2>4. Agrees(placed, table)
    BY <1>f, <2>2 DEF LinesInv, Unsynced, Resumed
  <2>5. \A q \in placed : q.id \in table /\ bp[q.id].line # 0
    BY <1>f, <2>4 DEF Agrees, AgreesIn, PlacesInv
  <2>6. l # 0 /\ \A i \in who : i \in table /\ bp[i].line = l /\ why = "breakpoint"
    BY <2>1, <2>5, BreakpointsAssumption
  <2>7. Len(events') = 1 /\ events'[1] = [why |-> why, line |-> l, who |-> who, ids |-> {}]
    BY <2>1, <2>2
  <2>8. Fresh(events[1])'
    BY <2>1, <2>3, <2>6, <2>7 DEF Fresh
  <2>9. Resumed(h)' /\ told'[h] = NoHit
    BY <2>2, <2>3 DEF Resumed
  <2> QED
    BY <1>g, <2>1, <2>7, <2>8, <2>9
<1>11. CASE AdapterServes
  <2> DEFINE r == Head(inbox)
  <2>1. /\ r \in Request /\ Serve(r) /\ pc[h] = Waits(r.req)
        /\ answer'[h].st = "ok" /\ answer[h].st = "none"
        /\ UNCHANGED <<pc, localVars, events>>
    BY <1>11, ServeView
  <2> HIDE DEF r
  <2>2. UNCHANGED <<cmd, told>> /\ ~Resumed(h)
    BY <2>1 DEF localVars, Resumed, Waits
  <2>3. CASE r.req = "continue"
    <3>1. target' = "running" /\ pc[h] = "resuming"
      BY <2>1, <2>3 DEF Serve, ServeSet, ServeFunctions, ServeExceptions, ServeContinue, Waits
    <3>2. told[h] = NoHit /\ events = <<>>
      BY <1>a, <1>f, <2>2, <3>1 DEF Does
    <3>3. Resumed(h)'
      BY <2>1, <3>1 DEF Resumed
    <3> QED
      BY <1>g, <2>1, <2>2, <3>2, <3>3
  <2>4. CASE r.req # "continue"
    <3>1. UNCHANGED target
      BY <2>1, <2>4 DEF Serve, ServeSet, ServeFunctions, ServeExceptions, ServeContinue
    <3>2. pc[h] \in {"setting", "settingfn", "settingex"}
      BY <2>1, <2>4 DEF Request, Waits
    <3>3. ~Resumed(h)'
      BY <2>1, <3>2 DEF Resumed
    <3> QED
      BY <1>2, <2>1, <2>2, <3>1, <3>2, <3>3
  <2> QED
    BY <2>3, <2>4
<1>12. CASE Stop(h)
  <2>1. pc[h] = "idle" /\ UNCHANGED <<pc, localVars, programVars>>
    BY <1>12 DEF Stop, Accept
  <2> QED
    BY <1>2, <2>1 DEF Resumed, localVars, programVars
<1> QED
  BY <1>f, <1>3, <1>4, <1>5, <1>6, <1>7, <1>8, <1>9, <1>10, <1>11, <1>12 DEF Works, Moves, Runs

\* A once breakpoint that was reported is out of the table or on its way out.
LEMMA OnceNext ==
  ASSUME NEW h, Alone(h), Next
  PROVE  OnceInv'
<1>f. /\ h \in Handlers /\ h \in Procs /\ Handlers = {h} /\ Works(h) /\ alive /\ open /\ Steady
      /\ TypeTable /\ table \subseteq Ids /\ (\A i \in table : i < next) /\ reported \in [Ids -> Nat]
      /\ pc \in [Procs -> Labels] /\ cmd \in [Procs -> Commands] /\ todo \in [Procs -> SUBSET Ids]
      /\ mine \in [Procs -> Ids \cup {0}]
  BY AloneFacts, AloneSteps, SteadyNext, Types
     DEF Alone, Inv, SyncInv, TypeTable, TableInv, TypeProgram
<1>n. next \in Nat /\ next' \in Nat /\ next <= next' /\ Ids \subseteq Nat
  <2>1. TypeOK' /\ TypeOK
    BY TypeNext DEF Alone, Inv
  <2> QED
    BY <2>1, SteadyNext DEF TypeOK, Ids
<1>a. \A i \in Ids : /\ reported[i] # 0 => i < next
                     /\ bp[i].once /\ reported[i] # 0 => reported[i] = 1 /\ Spent(h, i)
  BY <1>f DEF Alone, SyncInv, OnceInv
<1>b. ASSUME UNCHANGED reported,
             \A i \in Ids : i < next /\ bp[i].once /\ reported[i] # 0 /\ Spent(h, i) => Spent(h, i)'
      PROVE  OnceInv'
  <2>1. ASSUME NEW i \in Ids, reported[i] # 0 PROVE i < next'
    BY <1>a, <1>n, <2>1
  <2>2. ASSUME NEW i \in Ids, bp'[i].once, reported[i] # 0
        PROVE  reported[i] = 1 /\ Spent(h, i)'
    BY <1>a, <1>b, <1>f, <2>2 DEF Steady
  <2> QED
    BY <1>f, <1>b, <2>1, <2>2 DEF OnceInv
\* Nothing is on its way out or in.
<1>1. ASSUME UNCHANGED reported, pc[h] \notin {"locate", "remove", "put"}, table' \subseteq table,
             pc'[h] # "put"
      PROVE  OnceInv'
  BY <1>b, <1>1 DEF Spent
<1>2. CASE BreakBegin(h) \/ UntilBegin(h) \/ BreakFnBegin(h)
  <2>1. /\ pc[h] = "idle" /\ UNCHANGED <<table, reported>> /\ mine' = [mine EXCEPT ![h] = next]
    BY <1>2 DEF BreakBegin, UntilBegin, BreakFnBegin, Begin, Accept, Allocate
  <2>2. mine'[h] = next /\ \A i \in Ids : i < next => i # next
    BY <1>f, <1>n, <2>1
  <2> QED
    BY <1>b, <2>1, <2>2 DEF Spent
<1>3. CASE Put(h)
  <2>1. /\ pc[h] = "put" /\ table' = table \cup {mine[h]} /\ pc'[h] = "read" /\ UNCHANGED reported
    BY <1>f, <1>3 DEF Put, Goto
  <2> QED
    BY <1>b, <2>1 DEF Spent
<1>4. CASE Remove(h)
  <2>1. PICK j \in todo[h] : table' = table \ {j} /\ todo' = [todo EXCEPT ![h] = @ \ {j}]
    BY <1>4 DEF Remove
  <2>2. pc[h] = "remove" /\ todo'[h] = todo[h] \ {j} /\ UNCHANGED <<pc, cmd, reported>>
    BY <1>f, <1>4, <2>1 DEF Remove
  <2> QED
    BY <1>b, <2>1, <2>2 DEF Spent
<1>5. CASE Removed(h)
  <2>1. pc[h] = "remove" /\ todo[h] = {} /\ UNCHANGED <<table, reported>> /\ pc'[h] # "put"
    BY <1>f, <1>5 DEF Removed, Goto, Finish, tableVars
  <2> QED
    BY <1>b, <2>1 DEF Spent
<1>6. CASE ContinueTold(h)
  <2>1. /\ pc[h] = "waiting" /\ cmd[h] = "continue" /\ told[h] # NoHit /\ pc'[h] = "locate"
        /\ cmd'[h] = "continue" /\ UNCHANGED <<table, bp, next, told, at>>
        /\ reported' = [i \in Ids |-> IF i \in told[h].who THEN reported[i] + 1 ELSE reported[i]]
    BY <1>f, <1>6 DEF ContinueTold, Goto, tableVars, localVars, programVars
  <2>2. \A i \in told[h].who : i \in table /\ bp[i].line = at /\ told[h].why = "breakpoint"
    BY <1>f, <2>1 DEF Alone, SyncInv, ProgramInv, Resumed, Fresh
  <2>3. ASSUME NEW i \in Ids
        PROVE  /\ reported'[i] # 0 => i < next'
               /\ bp'[i].once /\ reported'[i] # 0 => reported'[i] = 1 /\ Spent(h, i)'
    <3>1. CASE i \in told[h].who
      <4>1. bp[i].once => reported[i] = 0
        BY <1>a, <2>1, <2>2, <3>1 DEF Spent
      <4>2. i < next /\ Spent(h, i)'
        BY <1>f, <2>1, <2>2, <3>1 DEF Spent
      <4>3. reported'[i] = reported[i] + 1
        BY <2>1, <3>1
      <4> QED
        BY <2>1, <4>1, <4>2, <4>3
    <3>2. CASE i \notin told[h].who
      <4>1. reported'[i] = reported[i]
        BY <2>1, <3>2
      <4>2. Spent(h, i) => Spent(h, i)'
        BY <2>1 DEF Spent
      <4> QED
        BY <1>a, <2>1, <4>1, <4>2
    <3> QED
      BY <3>1, <3>2
  <2> QED
    BY <1>f, <2>3 DEF OnceInv
<1>7. CASE ClearOnceAt(h)
  <2>1. /\ pc[h] = "locate" /\ pc'[h] = "remove" /\ cmd'[h] = "clear" /\ UNCHANGED <<table, reported>>
        /\ todo'[h] = {i \in table : bp[i].once /\ bp[i].line = at}
    BY <1>f, <1>7 DEF ClearOnceAt, Goto
  <2> QED
    BY <1>b, <2>1 DEF Spent
<1>8. CASE LocatesOnly(h)
  <2>1. /\ pc[h] = "locate" /\ (cmd[h] = "continue" => told[h].why # "breakpoint")
        /\ pc'[h] = "idle" /\ UNCHANGED <<table, reported>>
    BY <1>f, <1>8 DEF LocatesOnly, Goto, Finish
  <2> QED
    BY <1>b, <2>1 DEF Spent
<1>9. CASE \/ UnbreakBegin(h) \/ ContinueBegin(h) \/ WriteBack(h) \/ ResumeOk(h) \/ UntilReturns(h)
           \/ Read(h) \/ SetOk(h) \/ PutFuncBP(h) \/ FuncBPs(h) \/ FuncOk(h) \/ UpdateFuncBP(h)
           \/ BreakExBegin(h) \/ SetExcFilters(h) \/ Stop(h)
  <2>1. /\ pc[h] \notin {"locate", "remove", "put"} /\ table' \subseteq table /\ UNCHANGED reported
    BY <1>9 DEF UnbreakBegin, ContinueBegin, Begin, Accept, WriteBack, ResumeOk, UntilReturns, Read,
       SetOk, PutFuncBP, FuncBPs, FuncOk, UpdateFuncBP, BreakExBegin, SetExcFilters, Stop, tableVars
  <2>2. pc'[h] # "put"
    BY <1>f, <1>9, <2>1 DEF UnbreakBegin, ContinueBegin, WriteBack, ResumeOk, UntilReturns, Read,
       SetOk, Synced, PutFuncBP, FuncBPs, FuncOk, UpdateFuncBP, BreakExBegin, SetExcFilters, Stop,
       Goto, Finish
  <2> QED
    BY <1>1, <2>1, <2>2
<1>10. CASE Calls(h)
  <2>1. PICK r : Asks(h, r) /\ pc'[h] = Waits(r.req) /\ UNCHANGED <<tableVars, reported>>
    BY <1>f, <1>10, CallView
  <2>2. pc[h] \in {"send", "sendfn", "sendex", "resume"} /\ pc'[h] # "put"
    BY <2>1 DEF Asks, Send, FuncSend, ExSend, ResumeSend, Waits
  <2> QED
    BY <1>1, <2>1, <2>2 DEF tableVars
<1>11. CASE Pump
  <2>1. /\ UNCHANGED <<table, bp, pc, cmd, mine, todo, at, reported>>
        /\ pc[h] = "locate" => told'[h] = told[h]
    BY <1>11, PumpAlone DEF Pump, Armed
  <2> QED
    BY <1>b, <2>1 DEF Spent
<1>12. CASE TargetHits \/ TargetEnters \/ TargetThrows
  <2>1. target = "running" /\ UNCHANGED <<table, pc, reported>>
    BY <1>12, HaltsAlone DEF tableVars
  <2>2. pc[h] \in {"waiting", "resuming"}
    BY <1>f, <2>1 DEF Alone, SyncInv, ProgramInv, Resumed
  <2> QED
    BY <1>1, <2>1, <2>2
<1>13. CASE AdapterServes
  <2>1. pc[h] = Waits(Head(inbox).req) /\ UNCHANGED <<tableVars, pc, reported>>
    BY <1>13, ServeView
  <2> QED
    BY <1>1, <2>1 DEF Waits, tableVars
<1> QED
  BY <1>f, <1>2, <1>3, <1>4, <1>5, <1>6, <1>7, <1>8, <1>9, <1>10, <1>11, <1>12, <1>13
  DEF Works, Moves, Runs

-----------------------------------------------------------------------------
(* The theorems about a client that is alone.                              *)

LEMMA SyncInit == ASSUME OneClient, Init PROVE SyncInv
<1>1. PICK h : Handlers = {h}
  BY DEF OneClient
<1>2. h \in Procs /\ Cleaners \subseteq Procs /\ DOMAIN inbox = {} /\ DOMAIN events = {}
  BY <1>1 DEF Procs, Init
<1>3. /\ pc[h] = "idle" /\ cmd[h] = "none" /\ told[h] = NoHit /\ alive /\ open
      /\ \A c \in Cleaners : pc[c] = "idle"
  BY <1>2 DEF Init
<1>4. AloneInv
  BY <1>1, <1>2, <1>3 DEF AloneInv
<1>5. LinesInv /\ FuncsInv /\ FiltersInv
  <2>1. Elements(funcs) = {} /\ Agrees({}, {})
    BY DEF Init, Elements, Agrees, AgreesIn
  <2>2. LinesInv
    BY <1>1, <1>2, <1>3, <2>1 DEF LinesInv, Init
  <2>3. FuncsInv
    BY <1>1, <1>2, <1>3, <2>1 DEF FuncsInv, Init
  <2>4. FiltersInv
    BY <1>1, <1>2, <1>3 DEF FiltersInv, Init
  <2> QED
    BY <2>2, <2>3, <2>4
<1>6. ModsInv
  BY DEF Init, ModsInv, NoBP
<1>7. ProgramInv
  BY <1>1, <1>3 DEF Init, ProgramInv
<1>8. PlacesInv
  BY <1>1, <1>3 DEF Init, PlacesInv
<1>9. OnceInv
  BY DEF Init, OnceInv
<1> QED
  BY <1>4, <1>5, <1>6, <1>7, <1>8, <1>9 DEF SyncInv

LEMMA SyncNext == ASSUME OneClient, TypeOK, Inv, SyncInv, [Next]_vars PROVE SyncInv'
<1>1. PICK h : Alone(h)
  BY DEF OneClient, Alone
<1>2. CASE Next
  BY <1>1, <1>2, AloneNext, LinesNext, FuncsNext, FiltersNext, SteadyNext, RunsNext, PlacesNext, OnceNext
     DEF SyncInv
<1>3. CASE UNCHANGED vars
  <2>0. /\ AloneInv /\ LinesInv /\ FuncsInv /\ FiltersInv /\ ModsInv
        /\ ProgramInv /\ PlacesInv /\ OnceInv
    BY DEF SyncInv
  <2> USE <1>3 DEF vars, tableVars, otherVars, localVars, adapterVars, callVars, programVars
  <2>1. AloneInv' /\ ModsInv' /\ PlacesInv'
    BY <2>0 DEF AloneInv, ModsInv, PlacesInv
  <2>2. LinesInv'
    BY <2>0 DEF LinesInv, Unsynced, Agrees, AgreesIn, Elements
  <2>3. FuncsInv'
    <3>1. Elements(funcs)' = Elements(funcs) /\ \A g \in Handlers : UnsyncedFn(g)' <=> UnsyncedFn(g)
      BY DEF Elements, UnsyncedFn
    <3>2. \A E, S : AgreesIn(bp, E, S) <=> AgreesIn(bp', E, S)
      OBVIOUS
    <3> QED
      BY <2>0, <3>1, <3>2 DEF FuncsInv, Agrees, Elements
  <2>4. FiltersInv'
    BY <2>0 DEF FiltersInv
  <2>5. ProgramInv'
    BY <2>0 DEF ProgramInv, Resumed, Fresh
  <2>6. OnceInv'
    BY <2>0 DEF OnceInv, Spent
  <2> QED
    BY <2>1, <2>2, <2>3, <2>4, <2>5, <2>6 DEF SyncInv
<1> QED
  BY <1>2, <1>3

\* With one client the strengthened invariant holds in every reachable state.
THEOREM SyncInvariance == ASSUME OneClient PROVE Spec => [](TypeOK /\ Inv /\ SyncInv)
<1>1. Init => SyncInv
  BY SyncInit
<1>2. TypeOK /\ Inv /\ SyncInv /\ [Next]_vars => SyncInv'
  BY SyncNext
<1> QED
  BY <1>1, <1>2, InvInit, InvNext, PTL DEF Spec

\* Entries that agree with the breakpoints S show exactly them.
LEMMA AgreesShown ==
  ASSUME NEW E, NEW S, Agrees(E, S), "hit" \notin Mods
  PROVE  {[id |-> e.id, mod |-> e.mod] : e \in E} = {[id |-> i, mod |-> bp[i].mod] : i \in S}
<1>1. {e.id : e \in E} = S /\ \A e \in E : e.mod = bp[e.id].mod
  BY DEF Agrees, AgreesIn
<1>2. ASSUME NEW i \in S PROVE \E e \in E : e.id = i /\ e.mod = bp[i].mod
  BY <1>1
<1>3. ASSUME NEW e \in E PROVE e.id \in S /\ e.mod = bp[e.id].mod
  BY <1>1
<1>4. ASSUME NEW x \in {[id |-> e.id, mod |-> e.mod] : e \in E}
      PROVE  x \in {[id |-> i, mod |-> bp[i].mod] : i \in S}
  <2>1. PICK e \in E : x = [id |-> e.id, mod |-> e.mod]
    BY <1>4
  <2> QED
    BY <1>3, <2>1
<1>5. ASSUME NEW x \in {[id |-> i, mod |-> bp[i].mod] : i \in S}
      PROVE  x \in {[id |-> e.id, mod |-> e.mod] : e \in E}
  <2>1. PICK i \in S : x = [id |-> i, mod |-> bp[i].mod]
    BY <1>5
  <2> QED
    BY <1>2, <2>1
<1> QED
  BY <1>4, <1>5

\* Every setBreakpoints of handleBreak, handleUnbreak, handleUntil and clearOnceAt
\* replaces the adapter's set by the table as it is, in whatever order the map is
\* listed and however the adapter numbers it; likewise the function breakpoints and the
\* exception filters.  So a client that is the only one, whose calls do not fail, and
\* whose adapter does not name the breakpoints hit (no goroutine cleans up behind it),
\* finds the adapter and the tables in step after every command, for any number of
\* commands.  Hit counts and logpoints are excluded: handleUnbreak sends the list
\* without them.
THEOREM BreaksInSync == ASSUME OneClient, "hit" \notin Mods PROVE Spec => []InSync
<1>1. SyncInv => InSync
  <2> SUFFICES ASSUME SyncInv, Quiet
               PROVE  /\ {[id |-> q.id, mod |-> q.mod] : q \in placed}
                           = {[id |-> i, mod |-> bp[i].mod] : i \in table}
                      /\ {[id |-> q.id, mod |-> q.mod] : q \in placedFn}
                           = {[id |-> i, mod |-> bp[i].mod] : i \in {funcs[k] : k \in DOMAIN funcs}}
                      /\ placedEx = filters
    BY DEF InSync
  <2>1. PICK h : Handlers = {h}
    BY DEF OneClient
  <2>2. h \in Handlers /\ pc[h] = "idle" /\ alive
    BY <2>1 DEF Quiet, Procs
  <2>3. LinesInv /\ FuncsInv /\ FiltersInv
    BY DEF SyncInv
  <2>4. Agrees(placed, table)
    BY <2>2, <2>3 DEF LinesInv, Unsynced
  <2>5. Agrees(placedFn, {funcs[k] : k \in DOMAIN funcs})
    BY <2>2, <2>3 DEF FuncsInv, UnsyncedFn, Elements
  <2>6. placedEx = filters
    BY <2>2, <2>3 DEF FiltersInv
  <2> QED
    BY <2>4, <2>5, <2>6, AgreesShown
<1> QED
  BY <1>1, SyncInvariance, PTL

\* A once breakpoint is reported once: with one client, no failed call and an
\* adapter that fills no hit ids, clearOnceAt has taken it out of the table and
\* brought the adapter up to date before the command that reported it returns, so
\* before the program can run into it again.
THEOREM OnceIsOnce == ASSUME OneClient PROVE Spec => []OnceReportedOnce
<1>1. TypeOK /\ SyncInv => OnceReportedOnce
  <2> SUFFICES ASSUME TypeOK, SyncInv, NEW i \in Ids, bp[i].once PROVE reported[i] <= 1
    BY DEF OnceReportedOnce
  <2>1. PICK h \in Handlers : TRUE
    BY DEF OneClient
  <2>2. reported[i] = 0 \/ reported[i] = 1
    BY <2>1 DEF SyncInv, OnceInv
  <2> QED
    BY <2>2
<1> QED
  BY <1>1, SyncInvariance, PTL

=============================================================================
