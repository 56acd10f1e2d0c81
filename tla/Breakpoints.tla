---------------------------- MODULE Breakpoints ----------------------------
(***************************************************************************)
(* The breakpoints of one session: the table bpsByID, the list funcBPs and *)
(* the exception filters of session.go, the handlers that change them      *)
(* (break, break-fn, break-ex, unbreak, until, the execution commands),    *)
(* the goroutines that remove "once" breakpoints, and what the adapter     *)
(* holds.                                                                  *)
(*                                                                         *)
(* setBreakpoints replaces the adapter's set for a file, so every change   *)
(* is made in three steps that other goroutines can come between: change   *)
(* the table, read the whole list, send it.  One file is modelled: the     *)
(* code synchronises each file by itself, and likewise the function        *)
(* breakpoints and the exception filters.  A breakpoint is identified by   *)
(* its local id; hit counts and verification are left out.                 *)
(*                                                                         *)
(* The adapter and the program are external.                               *)
(***************************************************************************)
EXTENDS Naturals, Sequences, FiniteSets

CONSTANTS
  Handlers,     \* goroutines serving client connections
  Cleaners,     \* bound: goroutines running clearOnceBPs at a time
  Lines,        \* source lines
  Mods,         \* modifiers in use: "none", "cond", and "hit" for --hit and --log
  Filters,      \* the adapter's exception filters; {} when it has none
  HitIds,       \* TRUE when the adapter fills hitBreakpointIds
  FreshIds,     \* TRUE when the adapter numbers breakpoints anew with every request
  Failing,      \* TRUE when calls may fail and waits may time out
  Issued,       \* the commands the clients issue
  MaxBPs,       \* bound: breakpoints ever allocated
  MaxCmds,      \* bound: commands
  MaxStops      \* bound: how often the program stops

ASSUME BreakpointsAssumption ==
  /\ Handlers \cap Cleaners = {}
  /\ Lines \subseteq Nat \ {0} /\ Mods \subseteq {"none", "cond", "hit"}
  /\ HitIds \in BOOLEAN /\ FreshIds \in BOOLEAN /\ Failing \in BOOLEAN
  /\ Issued \subseteq {"break", "breakfn", "breakex", "unbreak", "until", "continue", "stop"}
  /\ MaxBPs \in Nat /\ MaxCmds \in Nat /\ MaxStops \in Nat

VARIABLES
  table, bp, next, open,      \* bpsByID, the BP objects, bpNextLocalID, not closed yet
  located,                    \* lastLocation is set
  funcs, filters,             \* funcBPs, excFilters
  pc, cmd, mine, todo, touched, snap, told,   \* per goroutine
  chosen,                     \* per goroutine: the filters of break-ex
  cmds,                       \* commands so far
  placed, owner, alive,       \* the adapter: its set, whose each id was, is it there
  placedFn, placedEx,         \* its function breakpoints and exception filters
  inbox, answer,              \* its requests and responses
  target, at, events, stops,  \* the program, the line it stands at, its stopped events
  reported,                   \* how often a continue was answered with the breakpoint
  panicked                    \* a write to a nil map

tableVars   == <<table, bp, next, open, located>>
localVars   == <<cmd, mine, todo, touched, snap, told>>
callVars    == <<inbox, answer>>
adapterVars == <<placed, owner, alive>>
programVars == <<target, at, events, stops>>
otherVars   == <<funcs, filters, chosen, placedFn, placedEx>>
vars == <<tableVars, otherVars, pc, localVars, cmds, adapterVars, callVars, programVars, reported, panicked>>

Procs == Handlers \cup Cleaners
Ids   == 1..MaxBPs

\* by is the command that made it, dapid the adapter's id for it (0 = none).
BP   == [line : Lines \cup {0}, mod : {"none", "cond", "hit"}, once : BOOLEAN,
         by : {"none", "break", "breakfn", "until"}, dapid : Nat]
NoBP == [line |-> 0, mod |-> "none", once |-> FALSE, by |-> "none", dapid |-> 0]

\* A stop: the reason of the StoppedEvent ("other" than "breakpoint" is that of a
\* function breakpoint or an exception), the line, the adapter's ids for it, the
\* line breakpoints.
Reasons == {"breakpoint", "other"}
Hit     == [why : Reasons, line : Lines \cup {0}, ids : SUBSET Nat, who : SUBSET Ids]
NoHit   == [why |-> "other", line |-> 0, ids |-> {}, who |-> {}]

\* ids holds the adapter's ids in the order of the request's list.
Answer   == [st : {"none", "ok", "error"}, ids : Seq(Nat)]
NoAnswer == [st |-> "none", ids |-> <<>>]

\* "clear" is clearOnceAt or clearOnceBPs, "leave" what is left of until after
\* its wait.
Commands == {"none", "break", "breakfn", "breakex", "unbreak", "until", "continue", "clear", "leave"}
Labels   == {"idle", "put", "read", "send", "setting", "writing", "resume", "resuming",
             "waiting", "locate", "remove", "putfn", "readfn", "sendfn", "settingfn",
             "writingfn", "sendex", "settingex"}

\* The lists BPsForFile may return: map iteration has no fixed order.
Listings(S) == {s \in [1..Cardinality(S) -> S] : \A i, j \in DOMAIN s : i # j => s[i] # s[j]}

Init ==
  /\ table = {} /\ bp = [i \in Ids |-> NoBP] /\ next = 1 /\ open = TRUE
  /\ located = FALSE
  /\ funcs = <<>> /\ filters = {} /\ chosen = [p \in Procs |-> {}]
  /\ placedFn = {} /\ placedEx = {}
  /\ pc = [p \in Procs |-> "idle"] /\ cmd = [p \in Procs |-> "none"]
  /\ mine = [p \in Procs |-> 0] /\ todo = [p \in Procs |-> {}]
  /\ touched = [p \in Procs |-> FALSE] /\ snap = [p \in Procs |-> <<>>]
  /\ told = [p \in Procs |-> NoHit]
  /\ cmds = 0
  /\ placed = {} /\ owner = <<>> /\ alive = TRUE
  /\ inbox = <<>> /\ answer = [p \in Procs |-> NoAnswer]
  /\ target = "stopped" /\ at = 0 /\ events = <<>> /\ stops = 0
  /\ reported = [i \in Ids |-> 0]
  /\ panicked = FALSE

-----------------------------------------------------------------------------
(* Steps shared by the handlers.                                           *)

Goto(p, l) == pc' = [pc EXCEPT ![p] = l]

Finish(p) ==
  /\ Goto(p, "idle")
  /\ cmd' = [cmd EXCEPT ![p] = "none"] /\ mine' = [mine EXCEPT ![p] = 0]
  /\ todo' = [todo EXCEPT ![p] = {}] /\ touched' = [touched EXCEPT ![p] = FALSE]
  /\ snap' = [snap EXCEPT ![p] = <<>>] /\ told' = [told EXCEPT ![p] = NoHit]

\* A connection reads its next request and Manager.Get finds the session.
Accept(h, c) ==
  /\ pc[h] = "idle" /\ open /\ c \in Issued /\ cmds < MaxCmds
  /\ cmds' = cmds + 1

Begin(h, c) == Accept(h, c) /\ cmd' = [cmd EXCEPT ![h] = c]

\* AllocBP and the new BP.
Allocate(h, b) ==
  /\ next <= MaxBPs
  /\ bp' = [bp EXCEPT ![next] = b]
  /\ mine' = [mine EXCEPT ![h] = next]
  /\ next' = next + 1

Call(p, r) ==
  /\ inbox' = IF alive THEN Append(inbox, r) ELSE inbox
  /\ answer' = [answer EXCEPT ![p] = NoAnswer]

Receive(p) ==
  /\ answer[p].st = "ok"
  /\ answer' = [answer EXCEPT ![p] = NoAnswer]
  /\ UNCHANGED inbox

\* The call ends with an error, and its late answer finds nobody.
CallFails(p) ==
  /\ Failing \/ ~alive
  /\ inbox' = [i \in DOMAIN inbox |->
                 IF inbox[i].from = p THEN [inbox[i] EXCEPT !.live = FALSE] ELSE inbox[i]]
  /\ answer' = [answer EXCEPT ![p] = NoAnswer]

-----------------------------------------------------------------------------
(* The beginnings of the commands.                                         *)

BreakBegin(h) ==
  /\ Begin(h, "break")
  /\ \E l \in Lines, m \in Mods, o \in BOOLEAN :
       Allocate(h, [line |-> l, mod |-> m, once |-> o, by |-> "break", dapid |-> 0])
  /\ Goto(h, "put")
  /\ UNCHANGED <<table, open, located, todo, touched, snap, told, adapterVars, callVars, programVars,
                 reported, panicked>>

\* handleUntil: needs a pause location, and sets a breakpoint of its own.
UntilBegin(h) ==
  /\ Begin(h, "until") /\ located
  /\ \E l \in Lines :
       Allocate(h, [line |-> l, mod |-> "none", once |-> FALSE, by |-> "until", dapid |-> 0])
  /\ Goto(h, "put")
  /\ UNCHANGED <<table, open, located, todo, touched, snap, told, adapterVars, callVars, programVars,
                 reported, panicked>>

\* handleUnbreak: ids or --all.  The files of all breakpoints are synchronised.
UnbreakBegin(h) ==
  /\ Begin(h, "unbreak")
  /\ \E R \in SUBSET (1..(next - 1)) : todo' = [todo EXCEPT ![h] = R]
  /\ touched' = [touched EXCEPT ![h] = table # {}]
  /\ Goto(h, "remove")
  /\ UNCHANGED <<tableVars, mine, snap, told, adapterVars, callVars, programVars, reported,
                 panicked>>

\* handleExec
ContinueBegin(h) ==
  /\ Begin(h, "continue")
  /\ Goto(h, "resume")
  /\ UNCHANGED <<tableVars, mine, todo, touched, snap, told, adapterVars, callVars, programVars,
                 reported, panicked>>

\* handleStop: the adapter is killed and Close empties the tables.  One step:
\* what a handler enters between the two is lost with the table.
Stop(h) ==
  /\ Accept(h, "stop")
  /\ open' = FALSE /\ table' = {} /\ funcs' = <<>> /\ located' = FALSE
  /\ alive' = FALSE /\ inbox' = <<>>
  /\ UNCHANGED <<bp, next, filters, chosen, pc, localVars, placed, placedFn, placedEx, owner, answer,
                 programVars, reported, panicked>>

-----------------------------------------------------------------------------
(* Changing the table and bringing the adapter up to date.                 *)

\* PutBP.  Writing to the nil map of a closed session panics.
Put(h) ==
  /\ pc[h] = "put"
  /\ IF open
     THEN table' = table \cup {mine[h]} /\ Goto(h, "read") /\ UNCHANGED <<localVars, panicked>>
     ELSE Finish(h) /\ panicked' = TRUE /\ UNCHANGED table
  /\ UNCHANGED <<bp, next, open, located, cmds, adapterVars, callVars, programVars, reported>>

\* RemoveBP, one id at a time.
Remove(p) ==
  /\ pc[p] = "remove"
  /\ \E i \in todo[p] :
       /\ table' = table \ {i}
       /\ todo' = [todo EXCEPT ![p] = @ \ {i}]
       /\ touched' = [touched EXCEPT ![p] = @ \/ i \in table]
  /\ UNCHANGED <<bp, next, open, located, pc, cmd, mine, snap, told, cmds, adapterVars, callVars,
                 programVars, reported, panicked>>

\* All are removed: a file that was touched is sent again.
Removed(p) ==
  /\ pc[p] = "remove" /\ todo[p] = {}
  /\ IF touched[p] THEN Goto(p, "read") /\ UNCHANGED localVars ELSE Finish(p)
  /\ UNCHANGED <<tableVars, cmds, adapterVars, callVars, programVars, reported, panicked>>

\* BPsForFile
Read(p) ==
  /\ pc[p] = "read"
  /\ \E s \in Listings(table) : snap' = [snap EXCEPT ![p] = s]
  /\ Goto(p, "send")
  /\ UNCHANGED <<tableVars, cmd, mine, todo, touched, told, cmds, adapterVars, callVars,
                 programVars, reported, panicked>>

\* A faulty variant: only the line is sent.
SentBare(p, i) == [id |-> i, mod |-> "none"]

\* What the request says of a breakpoint: handleUnbreak only copies conditions.
Sent(p, i) ==
  [id |-> i, mod |-> IF cmd[p] = "unbreak" /\ bp[i].mod = "hit" THEN "none" ELSE bp[i].mod]

Send(p) ==
  /\ pc[p] = "send"
  /\ Call(p, [from |-> p, live |-> TRUE, req |-> "set",
              list |-> [i \in DOMAIN snap[p] |-> Sent(p, snap[p][i])], set |-> {}])
  /\ Goto(p, "setting")
  /\ UNCHANGED <<tableVars, localVars, cmds, adapterVars, programVars, reported, panicked>>

\* A synchronisation is over.  An until that was stopped looks up its location.
Synced(p) ==
  IF cmd[p] = "leave" /\ told[p] # NoHit
  THEN Goto(p, "locate") /\ UNCHANGED localVars
  ELSE Finish(p)

\* A faulty variant: the answer is matched with a list read after the call.
SetOkRereads(p) ==
  /\ pc[p] = "setting" /\ answer[p].st = "ok"
  /\ \/ /\ cmd[p] = "break" /\ Goto(p, "writing") /\ UNCHANGED callVars
        /\ \E s \in Listings(table) : snap' = [snap EXCEPT ![p] = s]
        /\ UNCHANGED <<cmd, mine, todo, touched, told>>
     \/ cmd[p] = "until" /\ Goto(p, "resume") /\ Receive(p) /\ UNCHANGED localVars
     \/ cmd[p] \in {"unbreak", "clear", "leave"} /\ Synced(p) /\ Receive(p)
  /\ UNCHANGED <<tableVars, cmds, adapterVars, programVars, reported, panicked>>

\* The list is on the adapter's side.  break notes the ids, until resumes, the
\* others go on without a look at the answer.
SetOk(p) ==
  /\ pc[p] = "setting" /\ answer[p].st = "ok"
  /\ \/ cmd[p] = "break" /\ Goto(p, "writing") /\ UNCHANGED <<localVars, callVars>>
     \/ cmd[p] = "until" /\ Goto(p, "resume") /\ Receive(p) /\ UNCHANGED localVars
     \/ cmd[p] \in {"unbreak", "clear", "leave"} /\ Synced(p) /\ Receive(p)
  /\ UNCHANGED <<tableVars, cmds, adapterVars, programVars, reported, panicked>>

\* existing[i].DAPID = rbp.Id, without the lock: the i-th answer goes to the
\* i-th breakpoint of the list as it was read.
WriteBack(h) ==
  /\ pc[h] = "writing"
  /\ IF snap[h] = <<>> \/ answer[h].ids = <<>>
     THEN /\ answer' = [answer EXCEPT ![h] = NoAnswer]
          /\ Finish(h)
          /\ UNCHANGED bp
     ELSE /\ bp' = [bp EXCEPT ![Head(snap[h])].dapid = Head(answer[h].ids)]
          /\ snap' = [snap EXCEPT ![h] = Tail(@)]
          /\ answer' = [answer EXCEPT ![h].ids = Tail(@)]
          /\ UNCHANGED <<pc, cmd, mine, todo, touched, told>>
  /\ UNCHANGED <<table, next, open, located, cmds, adapterVars, inbox, programVars, reported, panicked>>

\* A failed break leaves its entry, a failed until takes it back; the others
\* ignore the error.
SetFails(p) ==
  /\ pc[p] = "setting" /\ CallFails(p)
  /\ table' = IF cmd[p] = "until" THEN table \ {mine[p]} ELSE table
  /\ Synced(p)
  /\ UNCHANGED <<bp, next, open, located, cmds, adapterVars, programVars, reported, panicked>>

-----------------------------------------------------------------------------
(* Resuming and waiting (until and the execution commands).                *)

ResumeSend(h) ==
  /\ pc[h] = "resume"
  /\ Call(h, [from |-> h, live |-> TRUE, req |-> "continue", list |-> <<>>, set |-> {}])
  /\ Goto(h, "resuming")
  /\ UNCHANGED <<tableVars, localVars, cmds, adapterVars, programVars, reported, panicked>>

ResumeOk(h) ==
  /\ pc[h] = "resuming" /\ Receive(h)
  /\ Goto(h, "waiting")
  /\ UNCHANGED <<tableVars, localVars, cmds, adapterVars, programVars, reported, panicked>>

\* A faulty variant: an error path that forgets RemoveBP.
ResumeFailsKeeping(h) ==
  /\ pc[h] = "resuming" /\ CallFails(h)
  /\ Finish(h)
  /\ UNCHANGED <<tableVars, cmds, adapterVars, programVars, reported, panicked>>

\* until takes its entry back and leaves the adapter as it is.
ResumeFails(h) ==
  /\ pc[h] = "resuming" /\ CallFails(h)
  /\ table' = IF cmd[h] = "until" THEN table \ {mine[h]} ELSE table
  /\ Finish(h)
  /\ UNCHANGED <<bp, next, open, located, cmds, adapterVars, programVars, reported, panicked>>

\* until clears its breakpoint whatever the wait came to, and is then left with
\* the synchronisation.
UntilReturns(h) ==
  /\ pc[h] = "waiting" /\ cmd[h] = "until"
  /\ told[h] # NoHit \/ Failing \/ ~alive
  /\ table' = table \ {mine[h]}
  /\ cmd' = [cmd EXCEPT ![h] = "leave"]
  /\ Goto(h, "read")
  /\ UNCHANGED <<bp, next, open, located, mine, todo, touched, snap, told, cmds, adapterVars, callVars,
                 programVars, reported, panicked>>

ContinueTold(h) ==
  /\ pc[h] = "waiting" /\ cmd[h] = "continue" /\ told[h] # NoHit
  /\ Goto(h, "locate")
  /\ reported' = [i \in Ids |-> IF i \in told[h].who THEN reported[i] + 1 ELSE reported[i]]
  /\ UNCHANGED <<tableVars, localVars, cmds, adapterVars, callVars, programVars, panicked>>

ContinueTimeout(h) ==
  /\ pc[h] = "waiting" /\ cmd[h] = "continue" /\ (Failing \/ ~alive)
  /\ Finish(h)
  /\ UNCHANGED <<tableVars, cmds, adapterVars, callVars, programVars, reported, panicked>>

\* A faulty variant: the fallback for adapters without hit ids is missing.
ClearOnceAtNothing(h) ==
  /\ pc[h] = "locate" /\ cmd[h] = "continue" /\ told[h].why = "breakpoint"
  /\ alive /\ target = "stopped"
  /\ located' = TRUE
  /\ Finish(h)
  /\ UNCHANGED <<table, bp, next, open, cmds, adapterVars, callVars, programVars, reported,
                 panicked>>

\* fetchTopLocation and, after a stop whose reason is a breakpoint, the first half
\* of clearOnceAt: the once breakpoints at the line the program stands at now.
ClearOnceAt(h) ==
  /\ pc[h] = "locate" /\ cmd[h] = "continue" /\ told[h].why = "breakpoint"
  /\ alive /\ target = "stopped"
  /\ todo' = [todo EXCEPT ![h] = {i \in table : bp[i].once /\ bp[i].line = at}]
  /\ touched' = [touched EXCEPT ![h] = TRUE]
  /\ cmd' = [cmd EXCEPT ![h] = "clear"]
  /\ located' = TRUE
  /\ Goto(h, "remove")
  /\ UNCHANGED <<table, bp, next, open, mine, snap, told, cmds, adapterVars, callVars,
                 programVars, reported, panicked>>

\* fetchTopLocation of until, and of continue after any other stop: nothing is
\* cleared and nothing sent.
LocatesOnly(h) ==
  /\ pc[h] = "locate"
  /\ cmd[h] = "continue" => told[h].why # "breakpoint"
  /\ alive /\ target = "stopped"
  /\ located' = TRUE
  /\ Finish(h)
  /\ UNCHANGED <<table, bp, next, open, cmds, adapterVars, callVars, programVars, reported,
                 panicked>>

\* There is no location: the pause is reported without one.
LocateFails(h) ==
  /\ pc[h] = "locate" /\ (Failing \/ ~alive \/ target # "stopped")
  /\ Finish(h)
  /\ UNCHANGED <<tableVars, cmds, adapterVars, callVars, programVars, reported, panicked>>

-----------------------------------------------------------------------------
(* Function breakpoints and exception filters.                             *)

\* handleBreakFn.  The adapter supports function breakpoints.
BreakFnBegin(h) ==
  /\ Begin(h, "breakfn")
  /\ \E m \in Mods :
       Allocate(h, [line |-> 0, mod |-> m, once |-> FALSE, by |-> "breakfn", dapid |-> 0])
  /\ Goto(h, "putfn")
  /\ UNCHANGED <<table, open, located, otherVars, todo, touched, snap, told, adapterVars, callVars,
                 programVars, reported, panicked>>

\* Unlike PutBP this can follow Close: append makes a list of nil.
PutFuncBP(h) ==
  /\ pc[h] = "putfn"
  /\ funcs' = Append(funcs, mine[h])
  /\ Goto(h, "readfn")
  /\ UNCHANGED <<tableVars, filters, chosen, placedFn, placedEx, localVars, cmds, adapterVars,
                 callVars, programVars, reported, panicked>>

FuncBPs(h) ==
  /\ pc[h] = "readfn"
  /\ snap' = [snap EXCEPT ![h] = funcs]
  /\ Goto(h, "sendfn")
  /\ UNCHANGED <<tableVars, otherVars, cmd, mine, todo, touched, told, cmds, adapterVars, callVars,
                 programVars, reported, panicked>>

FuncSend(h) ==
  /\ pc[h] = "sendfn"
  /\ Call(h, [from |-> h, live |-> TRUE, req |-> "functions",
              list |-> [i \in DOMAIN snap[h] |-> [id |-> snap[h][i], mod |-> bp[snap[h][i]].mod]],
              set |-> {}])
  /\ Goto(h, "settingfn")
  /\ UNCHANGED <<tableVars, otherVars, localVars, cmds, adapterVars, programVars, reported, panicked>>

\* The entry of a refused break-fn stays.
FuncFails(h) ==
  /\ pc[h] = "settingfn" /\ CallFails(h)
  /\ Finish(h)
  /\ UNCHANGED <<tableVars, otherVars, cmds, adapterVars, programVars, reported, panicked>>

FuncOk(h) ==
  /\ pc[h] = "settingfn" /\ answer[h].st = "ok"
  /\ Goto(h, "writingfn")
  /\ UNCHANGED <<tableVars, otherVars, localVars, cmds, adapterVars, callVars, programVars, reported,
                 panicked>>

\* Each id of the answer under a lock of its own; an entry that is gone is passed over.
UpdateFuncBP(h) ==
  /\ pc[h] = "writingfn"
  /\ IF snap[h] = <<>>
     THEN /\ answer' = [answer EXCEPT ![h] = NoAnswer]
          /\ Finish(h)
          /\ UNCHANGED bp
     ELSE /\ bp' = IF \E k \in DOMAIN funcs : funcs[k] = Head(snap[h])
                   THEN [bp EXCEPT ![Head(snap[h])].dapid = Head(answer[h].ids)] ELSE bp
          /\ snap' = [snap EXCEPT ![h] = Tail(@)]
          /\ answer' = [answer EXCEPT ![h].ids = Tail(@)]
          /\ UNCHANGED <<pc, cmd, mine, todo, touched, told>>
  /\ UNCHANGED <<table, next, open, located, otherVars, cmds, adapterVars, inbox, programVars,
                 reported, panicked>>

\* handleBreakEx: names that match no filter are refused before anything happens.
BreakExBegin(h) ==
  /\ Begin(h, "breakex") /\ Filters # {}
  /\ \E F \in SUBSET Filters : chosen' = [chosen EXCEPT ![h] = F]
  /\ Goto(h, "sendex")
  /\ UNCHANGED <<tableVars, funcs, filters, placedFn, placedEx, mine, todo, touched, snap, told,
                 adapterVars, callVars, programVars, reported, panicked>>

ExSend(h) ==
  /\ pc[h] = "sendex"
  /\ Call(h, [from |-> h, live |-> TRUE, req |-> "exceptions", list |-> <<>>, set |-> chosen[h]])
  /\ Goto(h, "settingex")
  /\ UNCHANGED <<tableVars, otherVars, localVars, cmds, adapterVars, programVars, reported, panicked>>

\* The filters are recorded once the adapter has them.
SetExcFilters(h) ==
  /\ pc[h] = "settingex" /\ Receive(h)
  /\ filters' = chosen[h] /\ chosen' = [chosen EXCEPT ![h] = {}]
  /\ Finish(h)
  /\ UNCHANGED <<tableVars, funcs, placedFn, placedEx, cmds, adapterVars, programVars, reported,
                 panicked>>

ExFails(h) ==
  /\ pc[h] = "settingex" /\ CallFails(h)
  /\ chosen' = [chosen EXCEPT ![h] = {}]
  /\ Finish(h)
  /\ UNCHANGED <<tableVars, funcs, filters, placedFn, placedEx, cmds, adapterVars, programVars,
                 reported, panicked>>

-----------------------------------------------------------------------------
\* The waiter is installed: by handleExec before anything else, by handleUntil
\* with the resume request.
Armed(h) ==
  \/ pc[h] \in {"resuming", "waiting"}
  \/ pc[h] = "resume" /\ cmd[h] = "continue"

\* handleEvent, StoppedEvent: the waiting commands are told, and the once
\* breakpoints among the hit ids are handed to a new goroutine.
Pump ==
  /\ events # <<>>
  /\ LET e    == Head(events)
         hit  == {i \in table : bp[i].once /\ bp[i].dapid \in e.ids}
         wait == {p \in Handlers : Armed(p) /\ told[p] = NoHit}
     IN /\ told' = [p \in Procs |-> IF p \in wait THEN e ELSE told[p]]
        /\ IF hit = {}
           THEN UNCHANGED <<pc, cmd, todo>>
           ELSE \E c \in Cleaners :
                  /\ pc[c] = "idle"
                  /\ Goto(c, "remove")
                  /\ cmd' = [cmd EXCEPT ![c] = "clear"]
                  /\ todo' = [todo EXCEPT ![c] = hit]
  /\ events' = Tail(events)
  /\ located' = FALSE
  /\ UNCHANGED <<table, bp, next, open, mine, touched, snap, cmds, adapterVars, callVars, target, at, stops,
                 reported, panicked>>

-----------------------------------------------------------------------------
(* The adapter and the program (external).                                 *)

Answered(r, ids) ==
  answer' = IF r.live THEN [answer EXCEPT ![r.from] = [st |-> "ok", ids |-> ids]] ELSE answer

\* The adapter's ids for a list that replaces the set `old`: a breakpoint that
\* stays may keep its id.
Numbered(list, old) ==
  LET kept(i) == {q.dap : q \in {q \in old : q.id = list[i].id}}
  IN  [i \in DOMAIN list |->
         IF FreshIds \/ kept(i) = {} THEN Len(owner) + i ELSE CHOOSE d \in kept(i) : TRUE]

Replacing(r, dap) ==
  /\ owner' = owner \o [i \in DOMAIN r.list |-> r.list[i].id]
  /\ Answered(r, dap)

Entries(list, dap) ==
  {[id |-> list[i].id, mod |-> list[i].mod, dap |-> dap[i]] : i \in DOMAIN list}

ServeSet(r) ==
  /\ r.req = "set"
  /\ LET dap == Numbered(r.list, placed)
     IN placed' = Entries(r.list, dap) /\ Replacing(r, dap)
  /\ UNCHANGED <<placedFn, placedEx, target>>

ServeFunctions(r) ==
  /\ r.req = "functions"
  /\ LET dap == Numbered(r.list, placedFn)
     IN placedFn' = Entries(r.list, dap) /\ Replacing(r, dap)
  /\ UNCHANGED <<placed, placedEx, target>>

ServeExceptions(r) ==
  /\ r.req = "exceptions"
  /\ placedEx' = r.set
  /\ Answered(r, <<>>)
  /\ UNCHANGED <<placed, placedFn, owner, target>>

ServeContinue(r) ==
  /\ r.req = "continue"
  /\ target' = "running"
  /\ Answered(r, <<>>)
  /\ UNCHANGED <<placed, placedFn, placedEx, owner>>

Serve(r) == ServeSet(r) \/ ServeFunctions(r) \/ ServeExceptions(r) \/ ServeContinue(r)

AdapterServes ==
  /\ alive /\ inbox # <<>>
  /\ Serve(Head(inbox))
  /\ inbox' = Tail(inbox)
  /\ UNCHANGED <<tableVars, funcs, filters, chosen, pc, localVars, cmds, alive, at, events, stops,
                 reported, panicked>>

\* The program stands at a line; the reason, and the breakpoints that made it stop.
Halts(why, l, here, who) ==
  /\ alive /\ target = "running" /\ stops < MaxStops
  /\ at' = l /\ target' = "stopped" /\ stops' = stops + 1
  /\ events' = Append(events, [why |-> why, line |-> l, who |-> who,
                               ids |-> IF HitIds THEN {q.dap : q \in here} ELSE {}])
  /\ UNCHANGED <<tableVars, otherVars, pc, localVars, cmds, adapterVars, callVars, reported, panicked>>

\* It reaches a line with a breakpoint on it.
TargetHits ==
  \E l \in {bp[q.id].line : q \in placed} :
    LET here == {q \in placed : bp[q.id].line = l}
    IN  Halts("breakpoint", l, here, {q.id : q \in here})

\* It enters a function or throws, at any line; who counts line breakpoints only.
\* Some adapters give a function breakpoint the reason of a line breakpoint.
TargetEnters == \E why \in Reasons, l \in Lines, q \in placedFn : Halts(why, l, {q}, {})
TargetThrows == placedEx # {} /\ \E l \in Lines : Halts("other", l, {}, {})

-----------------------------------------------------------------------------
ClientStep(h) == BreakBegin(h) \/ UntilBegin(h) \/ UnbreakBegin(h) \/ ContinueBegin(h)

HandlerStep(h) ==
  \/ Put(h) \/ WriteBack(h)
  \/ ResumeSend(h) \/ ResumeOk(h) \/ ResumeFails(h)
  \/ UntilReturns(h) \/ ContinueTold(h) \/ ContinueTimeout(h)
  \/ ClearOnceAt(h) \/ LocatesOnly(h) \/ LocateFails(h)

SyncStep(p) == Remove(p) \/ Removed(p) \/ Read(p) \/ Send(p) \/ SetOk(p) \/ SetFails(p)

FuncStep(h) ==
  \/ BreakFnBegin(h) \/ PutFuncBP(h) \/ FuncBPs(h) \/ FuncSend(h)
  \/ FuncOk(h) \/ FuncFails(h) \/ UpdateFuncBP(h)

ExStep(h) == BreakExBegin(h) \/ ExSend(h) \/ SetExcFilters(h) \/ ExFails(h)

Next ==
  \/ /\ \/ \E h \in Handlers : ClientStep(h) \/ HandlerStep(h)
        \/ \E p \in Procs : SyncStep(p)
        \/ Pump
     /\ UNCHANGED otherVars
  \/ \E h \in Handlers : FuncStep(h) \/ ExStep(h) \/ Stop(h)
  \/ AdapterServes \/ TargetHits \/ TargetEnters \/ TargetThrows

Spec == Init /\ [][Next]_vars

-----------------------------------------------------------------------------
(* Properties.                                                             *)

\* Every variable has its type.
TypeOK ==
  /\ table \subseteq Ids /\ bp \in [Ids -> BP] /\ next \in 1..(MaxBPs + 1)
  /\ open \in BOOLEAN /\ located \in BOOLEAN
  /\ pc \in [Procs -> Labels] /\ cmd \in [Procs -> Commands]
  /\ mine \in [Procs -> Ids \cup {0}] /\ todo \in [Procs -> SUBSET Ids]
  /\ touched \in [Procs -> BOOLEAN] /\ snap \in [Procs -> Seq(Ids)]
  /\ told \in [Procs -> Hit] /\ cmds \in Nat
  /\ placed \subseteq [id : Ids, mod : {"none", "cond", "hit"}, dap : Nat]
  /\ owner \in Seq(Ids) /\ alive \in BOOLEAN
  /\ inbox \in Seq([from : Procs, live : BOOLEAN,
                    req : {"set", "functions", "exceptions", "continue"},
                    list : Seq([id : Ids, mod : {"none", "cond", "hit"}]), set : SUBSET Filters])
  /\ funcs \in Seq(Ids) /\ filters \subseteq Filters /\ chosen \in [Procs -> SUBSET Filters]
  /\ placedFn \subseteq [id : Ids, mod : {"none", "cond", "hit"}, dap : Nat]
  /\ placedEx \subseteq Filters
  /\ answer \in [Procs -> Answer]
  /\ target \in {"stopped", "running"} /\ at \in Lines \cup {0}
  /\ events \in Seq(Hit) /\ stops \in Nat
  /\ reported \in [Ids -> Nat] /\ panicked \in BOOLEAN

\* handleBreak matches the adapter's ids with breakpoints by their position in a
\* list read before the call.  However other commands change the table meanwhile,
\* a breakpoint never gets the id of another one.
DapidOwn ==
  \A i \in Ids : bp[i].dapid # 0 =>
    bp[i].dapid \in DOMAIN owner /\ owner[bp[i].dapid] = i

\* The breakpoint of until does not outlive the command in the session's table,
\* on any of handleUntil's error paths.
UntilCleansUp ==
  \A i \in table : bp[i].by = "until" => \E h \in Handlers : cmd[h] = "until" /\ mine[h] = i

\* Nothing is under way: no handler, no goroutine, no request, no event.
Quiet == /\ \A p \in Procs : pc[p] = "idle"
         /\ inbox = <<>> /\ events = <<>> /\ alive

\* "Build the full breakpoint set for this file (DAP setBreakpoints REPLACES)":
\* when nothing is under way the adapter holds exactly the breakpoints of the
\* table and the function breakpoints, with their modifiers, and the exception
\* filters that `breaks` lists.
InSync ==
  LET shown(q) == [id |-> q.id, mod |-> q.mod]
      listed(S) == {[id |-> i, mod |-> bp[i].mod] : i \in S}
  IN  Quiet => /\ {shown(q) : q \in placed} = listed(table)
               /\ {shown(q) : q \in placedFn} = listed({funcs[k] : k \in DOMAIN funcs})
               /\ placedEx = filters

\* "--once: auto-remove after first hit" (COMMANDS.md): continue is answered at
\* most once with a stop at a given once breakpoint (of one client, with an
\* adapter that names the line of a stop and not the breakpoint it hit).
OnceReportedOnce ==
  \A i \in Ids : bp[i].once => reported[i] <= 1

\* "Avoid panics outside of init()" (CONTRIBUTING.md): no write to the nil map of
\* a closed session.
NoPanic == ~panicked

=============================================================================
