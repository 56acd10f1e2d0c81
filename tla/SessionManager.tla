--------------------------- MODULE SessionManager ---------------------------
(***************************************************************************)
(* The session manager of session.go: the table of sessions and the        *)
(* default id under Manager.mu, the steps in which handleStart and         *)
(* handleAttach create a session, the removal by handleStop and by a start *)
(* whose program ended at once, and the watch expressions that are saved   *)
(* to and restored from a file per debug target (watches_store.go).        *)
(*                                                                         *)
(* An instance is one Session object with its adapter process; its id is   *)
(* the user's name for it or a generated one.  Remove holds the manager's  *)
(* lock while it closes the session, every other operation takes the lock  *)
(* for one step.  All launched instances debug the same target, so they    *)
(* share one watch file; attached ones have none.                          *)
(***************************************************************************)
EXTENDS Naturals, FiniteSets

CONSTANTS
  Handlers,     \* goroutines serving client connections
  Ids, NoId,    \* session ids, and the empty one
  Names,        \* the ids users choose with --name; the others are generated
  Exprs,        \* watch expressions
  Cap,          \* SL_DBG_MAX_SESSIONS, 0 = unlimited
  MaxStarts,    \* bound: start and attach requests
  MaxOps        \* bound: other requests

ASSUME ManagerAssumption ==
  /\ NoId \notin Ids /\ Names \subseteq Ids
  /\ "no one" \notin Handlers
  /\ Cap \in Nat /\ MaxStarts \in Nat /\ MaxOps \in Nat

VARIABLES
  sessions, defID, mu,             \* Manager
  pc, cur, sid, kind,              \* per handler: control, its *Session, its id argument
  starts, ops,                     \* requests so far
  proc, ident, watches, target,    \* per instance: adapter, ID, watches, has it a watch file?
  file                             \* the watch file

tableVars    == <<sessions, defID, mu>>
handlerVars  == <<pc, cur, sid, kind>>
instanceVars == <<proc, ident, target>>
vars == <<tableVars, handlerVars, starts, ops, instanceVars, watches, file>>

NoOne     == "no one"
Instances == 1..MaxStarts
None      == 0

\* The watch file: absent, or the expressions saved in it (never an empty list).
NoFile == [exists |-> FALSE, exprs |-> {}]
File   == {f \in [exists : BOOLEAN, exprs : SUBSET Exprs] : f.exists <=> f.exprs # {}}

Labels == {"idle", "reserved", "spawned", "handshake", "loading", "settling",
           "finding", "removing", "closing", "closed", "watching"}

Registered == {x \in Ids : sessions[x] # None}

Init ==
  /\ sessions = [x \in Ids |-> None] /\ defID = NoId /\ mu = NoOne
  /\ pc = [h \in Handlers |-> "idle"]
  /\ cur = [h \in Handlers |-> None]
  /\ sid = [h \in Handlers |-> NoId]
  /\ kind = [h \in Handlers |-> "launch"]
  /\ starts = 0 /\ ops = 0
  /\ proc = [i \in Instances |-> "none"]
  /\ ident = [i \in Instances |-> NoId]
  /\ target = [i \in Instances |-> FALSE]
  /\ watches = [i \in Instances |-> {}]
  /\ file = NoFile

-----------------------------------------------------------------------------
Goto(h, l) == pc' = [pc EXCEPT ![h] = l]

Finish(h) ==
  /\ Goto(h, "idle")
  /\ cur' = [cur EXCEPT ![h] = None]
  /\ sid' = [sid EXCEPT ![h] = NoId]
  /\ kind' = [kind EXCEPT ![h] = "launch"]

\* Session.Close, as far as the manager sees it: the adapter is killed and the
\* tables are dropped.
Close(i) ==
  /\ proc' = [proc EXCEPT ![i] = "down"]
  /\ watches' = [watches EXCEPT ![i] = {}]
  /\ UNCHANGED <<ident, target>>

-----------------------------------------------------------------------------
(* start and attach.                                                       *)

\* Reserve: the cap is compared with the table as it is now.  A refused request
\* leaves no trace but the answer.
Reserve(h, k, name) ==
  /\ pc[h] = "idle" /\ mu = NoOne /\ starts < MaxStarts
  /\ Cap > 0 => Cardinality(Registered) < Cap
  /\ starts' = starts + 1
  /\ Goto(h, "reserved")
  /\ sid' = [sid EXCEPT ![h] = name]
  /\ kind' = [kind EXCEPT ![h] = k]
  /\ UNCHANGED <<tableVars, cur, ops, instanceVars, watches, file>>

\* startAdapter and newSession: a process, and a generated id nobody else has.
StartAdapter(h) ==
  /\ pc[h] = "reserved"
  /\ \E i \in Instances, x \in Ids \ Names :
       /\ proc[i] = "none" /\ \A j \in Instances : ident[j] # x
       /\ proc' = [proc EXCEPT ![i] = "up"]
       /\ ident' = [ident EXCEPT ![i] = x]
       /\ target' = [target EXCEPT ![i] = kind[h] = "launch"]
       /\ cur' = [cur EXCEPT ![h] = i]
  /\ Goto(h, "spawned")
  /\ UNCHANGED <<tableVars, sid, kind, starts, ops, watches, file>>

StartAdapterFails(h) ==
  /\ pc[h] = "reserved"
  /\ Finish(h)
  /\ UNCHANGED <<tableVars, starts, ops, instanceVars, watches, file>>

\* validateName looks the name up; the table entry is only made by register.
ValidateName(h) ==
  /\ pc[h] = "spawned"
  /\ sid[h] # NoId => mu = NoOne /\ sessions[sid[h]] = None
  /\ ident' = IF sid[h] = NoId THEN ident ELSE [ident EXCEPT ![cur[h]] = sid[h]]
  /\ Goto(h, "handshake")
  /\ UNCHANGED <<tableVars, cur, sid, kind, starts, ops, proc, target, watches, file>>

NameTaken(h) ==
  /\ pc[h] = "spawned" /\ sid[h] # NoId
  /\ mu = NoOne /\ sessions[sid[h]] # None
  /\ Close(cur[h])
  /\ Finish(h)
  /\ UNCHANGED <<tableVars, starts, ops, file>>

\* A faulty variant: an error path that forgets Close.
HandshakeFailsOpen(h) ==
  /\ pc[h] = "handshake"
  /\ Finish(h)
  /\ UNCHANGED <<tableVars, starts, ops, instanceVars, watches, file>>

\* initialize, launch or attach, the initialized event, configurationDone: any of
\* them may fail or time out, and the session is closed.
HandshakeFails(h) ==
  /\ pc[h] = "handshake"
  /\ Close(cur[h])
  /\ Finish(h)
  /\ UNCHANGED <<tableVars, starts, ops, file>>

\* register: an entry under the same id is overwritten.
Register(h) ==
  /\ pc[h] = "handshake" /\ mu = NoOne
  /\ sessions' = [sessions EXCEPT ![ident[cur[h]]] = cur[h]]
  /\ defID' = ident[cur[h]]
  /\ IF kind[h] = "launch"
     THEN Goto(h, "loading") /\ UNCHANGED <<cur, sid, kind>>
     ELSE Finish(h)
  /\ UNCHANGED <<mu, starts, ops, instanceVars, watches, file>>

\* LoadWatches, after the session can be found by others.
LoadWatches(h) ==
  /\ pc[h] = "loading"
  /\ watches' = [watches EXCEPT ![cur[h]] = @ \cup file.exprs]
  /\ Goto(h, "settling")
  /\ UNCHANGED <<tableVars, cur, sid, kind, starts, ops, instanceVars, file>>

\* WaitForStop of handleStart: the session lives on.
SettleAlive(h) ==
  /\ pc[h] = "settling"
  /\ Finish(h)
  /\ UNCHANGED <<tableVars, starts, ops, instanceVars, watches, file>>

\* earlyTerminationResp: Remove(sess.ID).
SettleOver(h) ==
  /\ pc[h] = "settling"
  /\ sid' = [sid EXCEPT ![h] = ident[cur[h]]]
  /\ Goto(h, "removing")
  /\ UNCHANGED <<tableVars, cur, kind, starts, ops, instanceVars, watches, file>>

-----------------------------------------------------------------------------
(* stop, use and watch.                                                    *)

Request(h) == pc[h] = "idle" /\ ops < MaxOps /\ ops' = ops + 1

\* handleStop without a session reads the default id and releases the lock.
StopRequest(h) ==
  /\ Request(h)
  /\ \/ \E x \in Ids : sid' = [sid EXCEPT ![h] = x]
     \/ mu = NoOne /\ defID # NoId /\ sid' = [sid EXCEPT ![h] = defID]
  /\ Goto(h, "finding")
  /\ UNCHANGED <<tableVars, cur, kind, starts, instanceVars, watches, file>>

\* Get decides between SESSION_NOT_FOUND and Remove.
StopFind(h) ==
  /\ pc[h] = "finding" /\ mu = NoOne
  /\ IF sessions[sid[h]] = None
     THEN Finish(h)
     ELSE Goto(h, "removing") /\ UNCHANGED <<cur, sid, kind>>
  /\ UNCHANGED <<tableVars, starts, ops, instanceVars, watches, file>>

\* SaveWatches: an empty set removes the file.
SaveWatches(i) ==
  file' = IF ~target[i] THEN file
          ELSE IF watches[i] = {} THEN NoFile
          ELSE [exists |-> TRUE, exprs |-> watches[i]]

\* A faulty variant: the lock is not held while the session is closed.
RemoveBeginUnlocked(h) ==
  /\ pc[h] = "removing" /\ mu = NoOne /\ sessions[sid[h]] # None
  /\ cur' = [cur EXCEPT ![h] = sessions[sid[h]]]
  /\ SaveWatches(sessions[sid[h]])
  /\ Goto(h, "closing")
  /\ UNCHANGED <<sessions, defID, mu, sid, kind, starts, ops, instanceVars, watches>>

\* Remove, with the lock held from here to RemoveEnd.
RemoveBegin(h) ==
  /\ pc[h] = "removing" /\ mu = NoOne /\ sessions[sid[h]] # None
  /\ mu' = h
  /\ cur' = [cur EXCEPT ![h] = sessions[sid[h]]]
  /\ SaveWatches(sessions[sid[h]])
  /\ Goto(h, "closing")
  /\ UNCHANGED <<sessions, defID, sid, kind, starts, ops, instanceVars, watches>>

RemoveNothing(h) ==
  /\ pc[h] = "removing" /\ mu = NoOne /\ sessions[sid[h]] = None
  /\ Finish(h)
  /\ UNCHANGED <<tableVars, starts, ops, instanceVars, watches, file>>

\* Close takes up to three seconds and more, with the lock held.
RemoveClose(h) ==
  /\ pc[h] = "closing"
  /\ Close(cur[h])
  /\ Goto(h, "closed")
  /\ UNCHANGED <<tableVars, cur, sid, kind, starts, ops, file>>

\* A faulty variant: nobody is promoted.
PromoteNobody(x) ==
  IF defID # x THEN UNCHANGED defID ELSE defID' = NoId

\* Any remaining session is promoted when the default goes.
Promote(x) ==
  IF defID # x THEN UNCHANGED defID
  ELSE LET rest == Registered \ {x}
       IN IF rest = {} THEN defID' = NoId ELSE defID' \in rest

\* A faulty variant: an unlock is missing.
RemoveEndLocked(h) ==
  /\ pc[h] = "closed"
  /\ sessions' = [sessions EXCEPT ![sid[h]] = None]
  /\ Promote(sid[h])
  /\ Finish(h)
  /\ UNCHANGED <<mu, starts, ops, instanceVars, watches, file>>

\* The entry goes, and the lock with it.
RemoveEnd(h) ==
  /\ pc[h] = "closed"
  /\ sessions' = [sessions EXCEPT ![sid[h]] = None]
  /\ Promote(sid[h])
  /\ mu' = NoOne
  /\ Finish(h)
  /\ UNCHANGED <<starts, ops, instanceVars, watches, file>>

\* SetDefault
Use(h, x) ==
  /\ Request(h) /\ mu = NoOne /\ sessions[x] # None
  /\ defID' = x
  /\ UNCHANGED <<sessions, mu, handlerVars, starts, instanceVars, watches, file>>

\* handleWatch: Get, and then the change to the session it returned.
WatchFind(h) ==
  /\ Request(h) /\ mu = NoOne
  /\ \E x \in Registered : cur' = [cur EXCEPT ![h] = sessions[x]]
  /\ Goto(h, "watching")
  /\ UNCHANGED <<tableVars, sid, kind, starts, instanceVars, watches, file>>

\* add, remove and remove --all.
WatchChange(h) ==
  /\ pc[h] = "watching"
  /\ \E e \in Exprs : watches' = [watches EXCEPT ![cur[h]] = @ \cup {e}]
                      \/ watches' = [watches EXCEPT ![cur[h]] = @ \ {e}]
                      \/ watches' = [watches EXCEPT ![cur[h]] = {}]
  /\ Finish(h)
  /\ UNCHANGED <<tableVars, starts, ops, instanceVars, file>>

-----------------------------------------------------------------------------
HandlerStep(h) ==
  \/ StartAdapter(h) \/ StartAdapterFails(h) \/ ValidateName(h) \/ NameTaken(h)
  \/ HandshakeFails(h) \/ Register(h) \/ LoadWatches(h)
  \/ SettleAlive(h) \/ SettleOver(h)
  \/ StopFind(h) \/ RemoveBegin(h) \/ RemoveNothing(h)
  \/ RemoveClose(h) \/ RemoveEnd(h)
  \/ WatchChange(h)

ClientStep(h) ==
  \/ \E k \in {"launch", "attach"}, name \in Names \cup {NoId} : Reserve(h, k, name)
  \/ StopRequest(h) \/ WatchFind(h)
  \/ \E x \in Ids : Use(h, x)

Next == \E h \in Handlers : ClientStep(h) \/ HandlerStep(h)

Spec == Init /\ [][Next]_vars

\* A goroutine that can go on does; sync.RWMutex does not starve a waiter.
FairSpec == Spec /\ \A h \in Handlers : SF_vars(HandlerStep(h))

-----------------------------------------------------------------------------
(* Properties.                                                             *)

\* Every variable has its type.
TypeOK ==
  /\ sessions \in [Ids -> Instances \cup {None}]
  /\ defID \in Ids \cup {NoId} /\ mu \in Handlers \cup {NoOne}
  /\ pc \in [Handlers -> Labels] /\ cur \in [Handlers -> Instances \cup {None}]
  /\ sid \in [Handlers -> Ids \cup {NoId}] /\ kind \in [Handlers -> {"launch", "attach"}]
  /\ starts \in Nat /\ ops \in Nat
  /\ proc \in [Instances -> {"none", "up", "down"}]
  /\ ident \in [Instances -> Ids \cup {NoId}]
  /\ target \in [Instances -> BOOLEAN]
  /\ watches \in [Instances -> SUBSET Exprs] /\ file \in File

\* The manager implements the table clients rely on: a default that is always a
\* live session, sessions that come and go in one step.
Table == INSTANCE SessionTable WITH live <- Registered, default <- defID

ImplementsTable == Table!TableSpec

\* Get never hands out a session whose adapter was already killed: Remove holds
\* the lock from before Close until the entry is gone.
FoundIsOpen ==
  mu = NoOne => \A x \in Registered : proc[sessions[x]] = "up"

\* The handler is still creating instance i and will register or close it.
Creates(h, i) == cur[h] = i /\ pc[h] \in {"spawned", "handshake"}

\* An adapter process that runs can be stopped: it is in the table or its
\* creator has not finished with it.  A session with a user's name may lose its
\* entry to another of that name (NameUnique); one with a generated id does not.
AdapterReachable ==
  \A i \in Instances :
    proc[i] = "up" /\ ident[i] \notin Names
      => \/ \E x \in Ids : sessions[x] = i
         \/ \E h \in Handlers : Creates(h, i)

\* Every request is answered: nobody waits for ever on the manager's lock, which
\* Remove keeps while it closes a session.
RequestsReturn ==
  \A h \in Handlers : pc[h] # "idle" ~> pc[h] = "idle"

\* "SL_DBG_MAX_SESSIONS: cap on concurrent sessions" (COMMANDS.md).
CapRespected == Cap > 0 => Cardinality(Registered) <= Cap

\* "validateName ensures a user-supplied session name is unique": no session in
\* the table is ever replaced by another one of the same name.
NameUnique ==
  [][\A x \in Ids : sessions[x] # None => sessions'[x] \in {sessions[x], None}]_vars

\* "In both cases the session is removed because nothing more can be done with
\* it": a start whose program ended removes its own session and no other.
EarlyRemovalIsOwn ==
  [][\A h \in Handlers :
       pc[h] = "removing" /\ pc'[h] = "closing" /\ cur[h] # None
         => cur'[h] = cur[h]]_vars

\* "persist watch expressions so a later session against the same (lang, program,
\* cwd) can resurrect them" (Manager.Remove): a session that is stopped before it
\* has loaded the saved watches does not destroy them.
UnloadedKeepsFile ==
  [][\A g, h \in Handlers :
       /\ pc[h] = "removing" /\ pc'[h] = "closing"
       /\ pc[g] = "loading" /\ cur[g] = cur'[h]
       => file.exprs \subseteq file'.exprs]_vars

=============================================================================
