------------------------ MODULE SessionManagerProofs ------------------------
(***************************************************************************)
(* Proofs about SessionManager, for any number of clients, ids, watch      *)
(* expressions and starts.                                                 *)
(*                                                                         *)
(* The manager's lock is held from RemoveBegin to RemoveEnd (LockInv), and *)
(* what the holder works on stays in the table meanwhile (RemovingInv).  A *)
(* session that is being created belongs to one handler and is in nobody   *)
(* else's reach (CreatorInv, OneCreator), an entry is under its session's  *)
(* own id (EntryInv), and generated ids are not shared (NameInv, IdInv).   *)
(* So only the session its remover has closed can be in the table without  *)
(* an adapter (OpenInv), and only a session with a user's name can lose    *)
(* its entry to another (AdapterReachable).                                *)
(***************************************************************************)
EXTENDS SessionManager, TLAPS

Holds(h)   == pc[h] \in {"closing", "closed"}
Owns(h)    == pc[h] \in {"spawned", "handshake"}
Started(h) == Owns(h) \/ pc[h] \in {"loading", "settling"}

LockInv == \A h \in Handlers : Holds(h) <=> mu = h

RemovingAt(h) ==
  /\ pc[h] \in {"finding", "removing", "closing", "closed"} => sid[h] \in Ids
  /\ Holds(h) => cur[h] \in Instances /\ sessions[sid[h]] = cur[h]
  /\ pc[h] = "closed" => proc[cur[h]] = "down"

RemovingInv == \A h \in Handlers : RemovingAt(h)

EntryAt(x) == sessions[x] # None => ident[sessions[x]] = x

EntryInv == \A x \in Ids : EntryAt(x)

CreatorAt(h) ==
  /\ Started(h) => cur[h] \in Instances /\ ident[cur[h]] \in Ids
  /\ Owns(h) => proc[cur[h]] = "up" /\ \A x \in Ids : sessions[x] # cur[h]

CreatorInv == \A h \in Handlers : CreatorAt(h)

OneCreator == \A g, h \in Handlers : Owns(g) /\ Owns(h) /\ cur[g] = cur[h] => g = h

NameInv ==
  \A h \in Handlers : pc[h] \in {"reserved", "spawned"} => sid[h] \in Names \cup {NoId}

IdInv ==
  \A i, j \in Instances : ident[i] \in Ids \ Names /\ ident[i] = ident[j] => i = j

OpenAt(x) ==
  sessions[x] # None =>
    proc[sessions[x]] = "up" \/ \E h \in Handlers : pc[h] = "closed" /\ sid[h] = x

OpenInv == \A x \in Ids : OpenAt(x)

Inv == /\ TypeOK /\ LockInv /\ RemovingInv /\ EntryInv /\ CreatorInv /\ OneCreator
       /\ NameInv /\ IdInv /\ OpenInv /\ AdapterReachable

-----------------------------------------------------------------------------
(* Facts about the constants, and the effect of every step on the table.   *)

\* None is no instance, and nobody's lock no handler.
LEMMA Constants ==
  /\ None \notin Instances /\ NoOne \notin Handlers
  /\ NoId \notin Ids /\ Names \subseteq Ids
<1>1. None \notin Instances
  <2>1. MaxStarts \in Nat
    BY ManagerAssumption
  <2>2. 0 \notin 1..MaxStarts
    BY <2>1
  <2> QED
    BY <2>2 DEF None, Instances
<1>2. NoOne \notin Handlers /\ NoId \notin Ids /\ Names \subseteq Ids
  BY ManagerAssumption DEF NoOne
<1> QED
  BY <1>1, <1>2

\* Every step keeps the types.
LEMMA TypeNext ==
  ASSUME TypeOK, RemovingInv, CreatorInv, Next
  PROVE  TypeOK'
<1> USE Constants DEF TypeOK, RemovingInv, RemovingAt, Labels, Holds, CreatorInv,
     CreatorAt, Owns, Started, tableVars, handlerVars, instanceVars
<1>1. ASSUME NEW h \in Handlers, NEW k \in {"launch", "attach"},
             NEW n \in Names \cup {NoId}, Reserve(h, k, n)
      PROVE  TypeOK'
  BY <1>1 DEF Reserve, Goto
<1>2. ASSUME NEW h \in Handlers, StartAdapter(h)
      PROVE  TypeOK'
  BY <1>2 DEF StartAdapter, Goto
<1>3. ASSUME NEW h \in Handlers, StartAdapterFails(h) \/ SettleAlive(h) \/ RemoveNothing(h)
      PROVE  TypeOK'
  BY <1>3 DEF StartAdapterFails, Finish, Goto, SettleAlive, RemoveNothing
<1>4. ASSUME NEW h \in Handlers, ValidateName(h)
      PROVE  TypeOK'
  BY <1>4 DEF ValidateName, Goto
<1>5. ASSUME NEW h \in Handlers, NameTaken(h) \/ HandshakeFails(h)
      PROVE  TypeOK'
  BY <1>5 DEF NameTaken, Finish, Goto, Close, HandshakeFails
<1>6. ASSUME NEW h \in Handlers, Register(h)
      PROVE  TypeOK'
  BY <1>6 DEF Register, Finish, Goto
<1>7. ASSUME NEW h \in Handlers, LoadWatches(h)
      PROVE  TypeOK'
  <2>1. file.exprs \subseteq Exprs
    BY DEF File
  <2> QED
    BY <1>7, <2>1 DEF LoadWatches, Goto
<1>8. ASSUME NEW h \in Handlers, SettleOver(h) \/ StopRequest(h) \/ StopFind(h)
      PROVE  TypeOK'
  BY <1>8 DEF SettleOver, Goto, StopRequest, Request, StopFind, Finish
<1>9. ASSUME NEW h \in Handlers, RemoveBegin(h)
      PROVE  TypeOK'
  <2>1. file' \in File
    BY <1>9 DEF RemoveBegin, SaveWatches, File, NoFile
  <2> QED
    BY <1>9, <2>1 DEF RemoveBegin, Goto
<1>10. ASSUME NEW h \in Handlers, RemoveClose(h)
      PROVE  TypeOK'
  BY <1>10 DEF RemoveClose, Goto, Close
<1>11. ASSUME NEW h \in Handlers, RemoveEnd(h)
      PROVE  TypeOK'
  BY <1>11 DEF RemoveEnd, Finish, Goto, Promote, Registered
<1>12. ASSUME NEW h \in Handlers, NEW u \in Ids, Use(h, u)
      PROVE  TypeOK'
  BY <1>12 DEF Use, Request
<1>13. ASSUME NEW h \in Handlers, WatchFind(h) \/ WatchChange(h)
      PROVE  TypeOK'
  BY <1>13 DEF WatchFind, Goto, Request, Registered, WatchChange, Finish
<1> QED
  BY <1>1, <1>2, <1>3, <1>4, <1>5, <1>6, <1>7, <1>8, <1>9, <1>10, <1>11, <1>12,
     <1>13 DEF Next, ClientStep, HandlerStep

\* The lock is taken and given back by Remove only.
LEMMA LockNext ==
  ASSUME TypeOK, LockInv, Next
  PROVE  LockInv'
<1> USE Constants DEF TypeOK, LockInv, Holds, tableVars, handlerVars, instanceVars
<1>1. ASSUME NEW h \in Handlers, NEW k \in {"launch", "attach"},
             NEW n \in Names \cup {NoId}, Reserve(h, k, n)
      PROVE  LockInv'
  BY <1>1 DEF Reserve, Goto
<1>2. ASSUME NEW h \in Handlers, StartAdapter(h)
      PROVE  LockInv'
  BY <1>2 DEF StartAdapter, Goto
<1>3. ASSUME NEW h \in Handlers, StartAdapterFails(h) \/ SettleAlive(h) \/ RemoveNothing(h)
      PROVE  LockInv'
  BY <1>3 DEF StartAdapterFails, Finish, Goto, SettleAlive, RemoveNothing
<1>4. ASSUME NEW h \in Handlers, ValidateName(h)
      PROVE  LockInv'
  BY <1>4 DEF ValidateName, Goto
<1>5. ASSUME NEW h \in Handlers, NameTaken(h) \/ HandshakeFails(h)
      PROVE  LockInv'
  BY <1>5 DEF NameTaken, Finish, Goto, Close, HandshakeFails
<1>6. ASSUME NEW h \in Handlers, Register(h)
      PROVE  LockInv'
  BY <1>6 DEF Register, Finish, Goto
<1>7. ASSUME NEW h \in Handlers, LoadWatches(h)
      PROVE  LockInv'
  BY <1>7 DEF LoadWatches, Goto
<1>8. ASSUME NEW h \in Handlers, SettleOver(h) \/ StopRequest(h) \/ StopFind(h)
      PROVE  LockInv'
  BY <1>8 DEF SettleOver, Goto, StopRequest, Request, StopFind, Finish
<1>9. ASSUME NEW h \in Handlers, RemoveBegin(h)
      PROVE  LockInv'
  BY <1>9 DEF RemoveBegin, Goto, SaveWatches
<1>10. ASSUME NEW h \in Handlers, RemoveClose(h)
      PROVE  LockInv'
  BY <1>10 DEF RemoveClose, Goto, Close
<1>11. ASSUME NEW h \in Handlers, RemoveEnd(h)
      PROVE  LockInv'
  BY <1>11 DEF RemoveEnd, Finish, Goto, Promote, Registered
<1>12. ASSUME NEW h \in Handlers, NEW u \in Ids, Use(h, u)
      PROVE  LockInv'
  BY <1>12 DEF Use, Request
<1>13. ASSUME NEW h \in Handlers, WatchFind(h) \/ WatchChange(h)
      PROVE  LockInv'
  BY <1>13 DEF WatchFind, Goto, Request, Registered, WatchChange, Finish
<1> QED
  BY <1>1, <1>2, <1>3, <1>4, <1>5, <1>6, <1>7, <1>8, <1>9, <1>10, <1>11, <1>12,
     <1>13 DEF Next, ClientStep, HandlerStep

\* While the lock is held the entry of the session being closed stays.
LEMMA RemovingNext ==
  ASSUME TypeOK, LockInv, RemovingInv, CreatorInv, Next
  PROVE  RemovingInv'
<1> USE Constants DEF TypeOK, LockInv, RemovingInv, RemovingAt, CreatorInv, CreatorAt,
     Holds, Owns, Started, tableVars, handlerVars, instanceVars
<1> SUFFICES ASSUME NEW g \in Handlers
             PROVE  RemovingAt(g)'
  BY DEF RemovingInv
<1>1. ASSUME NEW h \in Handlers, NEW k \in {"launch", "attach"},
             NEW n \in Names \cup {NoId}, Reserve(h, k, n)
      PROVE  RemovingAt(g)'
  BY <1>1 DEF Reserve, Goto
<1>2. ASSUME NEW h \in Handlers, StartAdapter(h)
      PROVE  RemovingAt(g)'
  BY <1>2 DEF StartAdapter, Goto
<1>3. ASSUME NEW h \in Handlers, StartAdapterFails(h) \/ SettleAlive(h) \/ RemoveNothing(h)
      PROVE  RemovingAt(g)'
  BY <1>3 DEF StartAdapterFails, Finish, Goto, SettleAlive, RemoveNothing
<1>4. ASSUME NEW h \in Handlers, ValidateName(h)
      PROVE  RemovingAt(g)'
  BY <1>4 DEF ValidateName, Goto
<1>5. ASSUME NEW h \in Handlers, NameTaken(h) \/ HandshakeFails(h)
      PROVE  RemovingAt(g)'
  BY <1>5 DEF NameTaken, Finish, Goto, Close, HandshakeFails
<1>6. ASSUME NEW h \in Handlers, Register(h)
      PROVE  RemovingAt(g)'
  BY <1>6 DEF Register, Finish, Goto
<1>7. ASSUME NEW h \in Handlers, LoadWatches(h)
      PROVE  RemovingAt(g)'
  BY <1>7 DEF LoadWatches, Goto
<1>8. ASSUME NEW h \in Handlers, SettleOver(h) \/ StopRequest(h) \/ StopFind(h)
      PROVE  RemovingAt(g)'
  BY <1>8 DEF SettleOver, Goto, StopRequest, Request, StopFind, Finish
<1>9. ASSUME NEW h \in Handlers, RemoveBegin(h)
      PROVE  RemovingAt(g)'
  BY <1>9 DEF RemoveBegin, Goto, SaveWatches
<1>10. ASSUME NEW h \in Handlers, RemoveClose(h)
      PROVE  RemovingAt(g)'
  BY <1>10 DEF RemoveClose, Goto, Close
<1>11. ASSUME NEW h \in Handlers, RemoveEnd(h)
      PROVE  RemovingAt(g)'
  BY <1>11 DEF RemoveEnd, Finish, Goto, Promote, Registered
<1>12. ASSUME NEW h \in Handlers, NEW u \in Ids, Use(h, u)
      PROVE  RemovingAt(g)'
  BY <1>12 DEF Use, Request
<1>13. ASSUME NEW h \in Handlers, WatchFind(h) \/ WatchChange(h)
      PROVE  RemovingAt(g)'
  BY <1>13 DEF WatchFind, Goto, Request, Registered, WatchChange, Finish
<1> QED
  BY <1>1, <1>2, <1>3, <1>4, <1>5, <1>6, <1>7, <1>8, <1>9, <1>10, <1>11, <1>12,
     <1>13 DEF Next, ClientStep, HandlerStep

\* register enters a session under its own id, which does not change any more.
LEMMA EntryNext ==
  ASSUME TypeOK, RemovingInv, EntryInv, CreatorInv, OpenInv, Next
  PROVE  EntryInv'
<1> USE Constants DEF TypeOK, RemovingInv, RemovingAt, EntryInv, EntryAt, OpenInv, OpenAt,
     Holds, CreatorInv, CreatorAt, Owns, Started, tableVars, handlerVars, instanceVars
<1> SUFFICES ASSUME NEW e \in Ids
             PROVE  EntryAt(e)'
  BY DEF EntryInv
<1>1. ASSUME NEW h \in Handlers, NEW k \in {"launch", "attach"},
             NEW n \in Names \cup {NoId}, Reserve(h, k, n)
      PROVE  EntryAt(e)'
  BY <1>1 DEF Reserve, Goto
<1>2. ASSUME NEW h \in Handlers, StartAdapter(h)
      PROVE  EntryAt(e)'
  BY <1>2 DEF StartAdapter, Goto
<1>3. ASSUME NEW h \in Handlers, StartAdapterFails(h) \/ SettleAlive(h) \/ RemoveNothing(h)
      PROVE  EntryAt(e)'
  BY <1>3 DEF StartAdapterFails, Finish, Goto, SettleAlive, RemoveNothing
<1>4. ASSUME NEW h \in Handlers, ValidateName(h)
      PROVE  EntryAt(e)'
  BY <1>4 DEF ValidateName, Goto
<1>5. ASSUME NEW h \in Handlers, NameTaken(h) \/ HandshakeFails(h)
      PROVE  EntryAt(e)'
  BY <1>5 DEF NameTaken, Finish, Goto, Close, HandshakeFails
<1>6. ASSUME NEW h \in Handlers, Register(h)
      PROVE  EntryAt(e)'
  BY <1>6 DEF Register, Finish, Goto
<1>7. ASSUME NEW h \in Handlers, LoadWatches(h)
      PROVE  EntryAt(e)'
  BY <1>7 DEF LoadWatches, Goto
<1>8. ASSUME NEW h \in Handlers, SettleOver(h) \/ StopRequest(h) \/ StopFind(h)
      PROVE  EntryAt(e)'
  BY <1>8 DEF SettleOver, Goto, StopRequest, Request, StopFind, Finish
<1>9. ASSUME NEW h \in Handlers, RemoveBegin(h)
      PROVE  EntryAt(e)'
  BY <1>9 DEF RemoveBegin, Goto, SaveWatches
<1>10. ASSUME NEW h \in Handlers, RemoveClose(h)
      PROVE  EntryAt(e)'
  BY <1>10 DEF RemoveClose, Goto, Close
<1>11. ASSUME NEW h \in Handlers, RemoveEnd(h)
      PROVE  EntryAt(e)'
  BY <1>11 DEF RemoveEnd, Finish, Goto, Promote, Registered
<1>12. ASSUME NEW h \in Handlers, NEW u \in Ids, Use(h, u)
      PROVE  EntryAt(e)'
  BY <1>12 DEF Use, Request
<1>13. ASSUME NEW h \in Handlers, WatchFind(h) \/ WatchChange(h)
      PROVE  EntryAt(e)'
  BY <1>13 DEF WatchFind, Goto, Request, Registered, WatchChange, Finish
<1> QED
  BY <1>1, <1>2, <1>3, <1>4, <1>5, <1>6, <1>7, <1>8, <1>9, <1>10, <1>11, <1>12,
     <1>13 DEF Next, ClientStep, HandlerStep

\* A session that is being created is up and has no entry.
LEMMA CreatorNext ==
  ASSUME TypeOK, LockInv, RemovingInv, CreatorInv, OneCreator, OpenInv, Next
  PROVE  CreatorInv'
<1> USE Constants DEF TypeOK, LockInv, RemovingInv, RemovingAt, OneCreator, OpenInv,
     OpenAt, Holds, CreatorInv, CreatorAt, Owns, Started, tableVars, handlerVars,
     instanceVars
<1> SUFFICES ASSUME NEW g \in Handlers
             PROVE  CreatorAt(g)'
  BY DEF CreatorInv
<1>1. ASSUME NEW h \in Handlers, NEW k \in {"launch", "attach"},
             NEW n \in Names \cup {NoId}, Reserve(h, k, n)
      PROVE  CreatorAt(g)'
  BY <1>1 DEF Reserve, Goto
<1>2. ASSUME NEW h \in Handlers, StartAdapter(h)
      PROVE  CreatorAt(g)'
  BY <1>2 DEF StartAdapter, Goto
<1>3. ASSUME NEW h \in Handlers, StartAdapterFails(h) \/ SettleAlive(h) \/ RemoveNothing(h)
      PROVE  CreatorAt(g)'
  BY <1>3 DEF StartAdapterFails, Finish, Goto, SettleAlive, RemoveNothing
<1>4. ASSUME NEW h \in Handlers, ValidateName(h)
      PROVE  CreatorAt(g)'
  BY <1>4 DEF ValidateName, Goto
<1>5. ASSUME NEW h \in Handlers, NameTaken(h) \/ HandshakeFails(h)
      PROVE  CreatorAt(g)'
  BY <1>5 DEF NameTaken, Finish, Goto, Close, HandshakeFails
<1>6. ASSUME NEW h \in Handlers, Register(h)
      PROVE  CreatorAt(g)'
  BY <1>6 DEF Register, Finish, Goto
<1>7. ASSUME NEW h \in Handlers, LoadWatches(h)
      PROVE  CreatorAt(g)'
  BY <1>7 DEF LoadWatches, Goto
<1>8. ASSUME NEW h \in Handlers, SettleOver(h) \/ StopRequest(h) \/ StopFind(h)
      PROVE  CreatorAt(g)'
  BY <1>8 DEF SettleOver, Goto, StopRequest, Request, StopFind, Finish
<1>9. ASSUME NEW h \in Handlers, RemoveBegin(h)
      PROVE  CreatorAt(g)'
  BY <1>9 DEF RemoveBegin, Goto, SaveWatches
<1>10. ASSUME NEW h \in Handlers, RemoveClose(h)
      PROVE  CreatorAt(g)'
  BY <1>10 DEF RemoveClose, Goto, Close
<1>11. ASSUME NEW h \in Handlers, RemoveEnd(h)
      PROVE  CreatorAt(g)'
  BY <1>11 DEF RemoveEnd, Finish, Goto, Promote, Registered
<1>12. ASSUME NEW h \in Handlers, NEW u \in Ids, Use(h, u)
      PROVE  CreatorAt(g)'
  BY <1>12 DEF Use, Request
<1>13. ASSUME NEW h \in Handlers, WatchFind(h) \/ WatchChange(h)
      PROVE  CreatorAt(g)'
  BY <1>13 DEF WatchFind, Goto, Request, Registered, WatchChange, Finish
<1> QED
  BY <1>1, <1>2, <1>3, <1>4, <1>5, <1>6, <1>7, <1>8, <1>9, <1>10, <1>11, <1>12,
     <1>13 DEF Next, ClientStep, HandlerStep

\* ... and it has one creator.
LEMMA OneCreatorNext ==
  ASSUME TypeOK, CreatorInv, OneCreator, Next
  PROVE  OneCreator'
<1> USE Constants DEF TypeOK, OneCreator, CreatorInv, CreatorAt, Owns, Started, tableVars,
     handlerVars, instanceVars
<1>1. ASSUME NEW h \in Handlers, NEW k \in {"launch", "attach"},
             NEW n \in Names \cup {NoId}, Reserve(h, k, n)
      PROVE  OneCreator'
  BY <1>1 DEF Reserve, Goto
<1>2. ASSUME NEW h \in Handlers, StartAdapter(h)
      PROVE  OneCreator'
  BY <1>2 DEF StartAdapter, Goto
<1>3. ASSUME NEW h \in Handlers, StartAdapterFails(h) \/ SettleAlive(h) \/ RemoveNothing(h)
      PROVE  OneCreator'
  BY <1>3 DEF StartAdapterFails, Finish, Goto, SettleAlive, RemoveNothing
<1>4. ASSUME NEW h \in Handlers, ValidateName(h)
      PROVE  OneCreator'
  BY <1>4 DEF ValidateName, Goto
<1>5. ASSUME NEW h \in Handlers, NameTaken(h) \/ HandshakeFails(h)
      PROVE  OneCreator'
  BY <1>5 DEF NameTaken, Finish, Goto, Close, HandshakeFails
<1>6. ASSUME NEW h \in Handlers, Register(h)
      PROVE  OneCreator'
  BY <1>6 DEF Register, Finish, Goto
<1>7. ASSUME NEW h \in Handlers, LoadWatches(h)
      PROVE  OneCreator'
  BY <1>7 DEF LoadWatches, Goto
<1>8. ASSUME NEW h \in Handlers, SettleOver(h) \/ StopRequest(h) \/ StopFind(h)
      PROVE  OneCreator'
  BY <1>8 DEF SettleOver, Goto, StopRequest, Request, StopFind, Finish
<1>9. ASSUME NEW h \in Handlers, RemoveBegin(h)
      PROVE  OneCreator'
  BY <1>9 DEF RemoveBegin, Goto, SaveWatches
<1>10. ASSUME NEW h \in Handlers, RemoveClose(h)
      PROVE  OneCreator'
  BY <1>10 DEF RemoveClose, Goto, Close
<1>11. ASSUME NEW h \in Handlers, RemoveEnd(h)
      PROVE  OneCreator'
  BY <1>11 DEF RemoveEnd, Finish, Goto, Promote, Registered
<1>12. ASSUME NEW h \in Handlers, NEW u \in Ids, Use(h, u)
      PROVE  OneCreator'
  BY <1>12 DEF Use, Request
<1>13. ASSUME NEW h \in Handlers, WatchFind(h) \/ WatchChange(h)
      PROVE  OneCreator'
  BY <1>13 DEF WatchFind, Goto, Request, Registered, WatchChange, Finish
<1> QED
  BY <1>1, <1>2, <1>3, <1>4, <1>5, <1>6, <1>7, <1>8, <1>9, <1>10, <1>11, <1>12,
     <1>13 DEF Next, ClientStep, HandlerStep

\* A start carries a name of the user or none.
LEMMA NameNext ==
  ASSUME TypeOK, NameInv, Next
  PROVE  NameInv'
<1> USE Constants DEF TypeOK, NameInv, tableVars, handlerVars, instanceVars
<1>1. ASSUME NEW h \in Handlers, NEW k \in {"launch", "attach"},
             NEW n \in Names \cup {NoId}, Reserve(h, k, n)
      PROVE  NameInv'
  BY <1>1 DEF Reserve, Goto
<1>2. ASSUME NEW h \in Handlers, StartAdapter(h)
      PROVE  NameInv'
  BY <1>2 DEF StartAdapter, Goto
<1>3. ASSUME NEW h \in Handlers, StartAdapterFails(h) \/ SettleAlive(h) \/ RemoveNothing(h)
      PROVE  NameInv'
  BY <1>3 DEF StartAdapterFails, Finish, Goto, SettleAlive, RemoveNothing
<1>4. ASSUME NEW h \in Handlers, ValidateName(h)
      PROVE  NameInv'
  BY <1>4 DEF ValidateName, Goto
<1>5. ASSUME NEW h \in Handlers, NameTaken(h) \/ HandshakeFails(h)
      PROVE  NameInv'
  BY <1>5 DEF NameTaken, Finish, Goto, Close, HandshakeFails
<1>6. ASSUME NEW h \in Handlers, Register(h)
      PROVE  NameInv'
  BY <1>6 DEF Register, Finish, Goto
<1>7. ASSUME NEW h \in Handlers, LoadWatches(h)
      PROVE  NameInv'
  BY <1>7 DEF LoadWatches, Goto
<1>8. ASSUME NEW h \in Handlers, SettleOver(h) \/ StopRequest(h) \/ StopFind(h)
      PROVE  NameInv'
  BY <1>8 DEF SettleOver, Goto, StopRequest, Request, StopFind, Finish
<1>9. ASSUME NEW h \in Handlers, RemoveBegin(h)
      PROVE  NameInv'
  BY <1>9 DEF RemoveBegin, Goto, SaveWatches
<1>10. ASSUME NEW h \in Handlers, RemoveClose(h)
      PROVE  NameInv'
  BY <1>10 DEF RemoveClose, Goto, Close
<1>11. ASSUME NEW h \in Handlers, RemoveEnd(h)
      PROVE  NameInv'
  BY <1>11 DEF RemoveEnd, Finish, Goto, Promote, Registered
<1>12. ASSUME NEW h \in Handlers, NEW u \in Ids, Use(h, u)
      PROVE  NameInv'
  BY <1>12 DEF Use, Request
<1>13. ASSUME NEW h \in Handlers, WatchFind(h) \/ WatchChange(h)
      PROVE  NameInv'
  BY <1>13 DEF WatchFind, Goto, Request, Registered, WatchChange, Finish
<1> QED
  BY <1>1, <1>2, <1>3, <1>4, <1>5, <1>6, <1>7, <1>8, <1>9, <1>10, <1>11, <1>12,
     <1>13 DEF Next, ClientStep, HandlerStep

\* Generated ids are not shared.
LEMMA IdNext ==
  ASSUME TypeOK, CreatorInv, NameInv, IdInv, Next
  PROVE  IdInv'
<1> USE Constants DEF TypeOK, NameInv, IdInv, CreatorInv, CreatorAt, Owns, Started,
     tableVars, handlerVars, instanceVars
<1>1. ASSUME NEW h \in Handlers, NEW k \in {"launch", "attach"},
             NEW n \in Names \cup {NoId}, Reserve(h, k, n)
      PROVE  IdInv'
  BY <1>1 DEF Reserve, Goto
<1>2. ASSUME NEW h \in Handlers, StartAdapter(h)
      PROVE  IdInv'
  BY <1>2 DEF StartAdapter, Goto
<1>3. ASSUME NEW h \in Handlers, StartAdapterFails(h) \/ SettleAlive(h) \/ RemoveNothing(h)
      PROVE  IdInv'
  BY <1>3 DEF StartAdapterFails, Finish, Goto, SettleAlive, RemoveNothing
<1>4. ASSUME NEW h \in Handlers, ValidateName(h)
      PROVE  IdInv'
  BY <1>4 DEF ValidateName, Goto
<1>5. ASSUME NEW h \in Handlers, NameTaken(h) \/ HandshakeFails(h)
      PROVE  IdInv'
  BY <1>5 DEF NameTaken, Finish, Goto, Close, HandshakeFails
<1>6. ASSUME NEW h \in Handlers, Register(h)
      PROVE  IdInv'
  BY <1>6 DEF Register, Finish, Goto
<1>7. ASSUME NEW h \in Handlers, LoadWatches(h)
      PROVE  IdInv'
  BY <1>7 DEF LoadWatches, Goto
<1>8. ASSUME NEW h \in Handlers, SettleOver(h) \/ StopRequest(h) \/ StopFind(h)
      PROVE  IdInv'
  BY <1>8 DEF SettleOver, Goto, StopRequest, Request, StopFind, Finish
<1>9. ASSUME NEW h \in Handlers, RemoveBegin(h)
      PROVE  IdInv'
  BY <1>9 DEF RemoveBegin, Goto, SaveWatches
<1>10. ASSUME NEW h \in Handlers, RemoveClose(h)
      PROVE  IdInv'
  BY <1>10 DEF RemoveClose, Goto, Close
<1>11. ASSUME NEW h \in Handlers, RemoveEnd(h)
      PROVE  IdInv'
  BY <1>11 DEF RemoveEnd, Finish, Goto, Promote, Registered
<1>12. ASSUME NEW h \in Handlers, NEW u \in Ids, Use(h, u)
      PROVE  IdInv'
  BY <1>12 DEF Use, Request
<1>13. ASSUME NEW h \in Handlers, WatchFind(h) \/ WatchChange(h)
      PROVE  IdInv'
  BY <1>13 DEF WatchFind, Goto, Request, Registered, WatchChange, Finish
<1> QED
  BY <1>1, <1>2, <1>3, <1>4, <1>5, <1>6, <1>7, <1>8, <1>9, <1>10, <1>11, <1>12,
     <1>13 DEF Next, ClientStep, HandlerStep

\* A session in the table has its adapter, until its remover has closed it.
LEMMA OpenNext ==
  ASSUME TypeOK, LockInv, RemovingInv, EntryInv, CreatorInv, OpenInv, Next
  PROVE  OpenInv'
<1> USE Constants DEF TypeOK, LockInv, RemovingInv, RemovingAt, EntryInv, EntryAt,
     OpenInv, OpenAt, Holds, CreatorInv, CreatorAt, Owns, Started, tableVars, handlerVars,
     instanceVars
<1> SUFFICES ASSUME NEW e \in Ids
             PROVE  OpenAt(e)'
  BY DEF OpenInv
<1>1. ASSUME NEW h \in Handlers, NEW k \in {"launch", "attach"},
             NEW n \in Names \cup {NoId}, Reserve(h, k, n)
      PROVE  OpenAt(e)'
  BY <1>1 DEF Reserve, Goto
<1>2. ASSUME NEW h \in Handlers, StartAdapter(h)
      PROVE  OpenAt(e)'
  BY <1>2 DEF StartAdapter, Goto
<1>3. ASSUME NEW h \in Handlers, StartAdapterFails(h) \/ SettleAlive(h) \/ RemoveNothing(h)
      PROVE  OpenAt(e)'
  BY <1>3 DEF StartAdapterFails, Finish, Goto, SettleAlive, RemoveNothing
<1>4. ASSUME NEW h \in Handlers, ValidateName(h)
      PROVE  OpenAt(e)'
  BY <1>4 DEF ValidateName, Goto
<1>5. ASSUME NEW h \in Handlers, NameTaken(h) \/ HandshakeFails(h)
      PROVE  OpenAt(e)'
  BY <1>5 DEF NameTaken, Finish, Goto, Close, HandshakeFails
<1>6. ASSUME NEW h \in Handlers, Register(h)
      PROVE  OpenAt(e)'
  BY <1>6 DEF Register, Finish, Goto
<1>7. ASSUME NEW h \in Handlers, LoadWatches(h)
      PROVE  OpenAt(e)'
  BY <1>7 DEF LoadWatches, Goto
<1>8. ASSUME NEW h \in Handlers, SettleOver(h) \/ StopRequest(h) \/ StopFind(h)
      PROVE  OpenAt(e)'
  BY <1>8 DEF SettleOver, Goto, StopRequest, Request, StopFind, Finish
<1>9. ASSUME NEW h \in Handlers, RemoveBegin(h)
      PROVE  OpenAt(e)'
  BY <1>9 DEF RemoveBegin, Goto, SaveWatches
<1>10. ASSUME NEW h \in Handlers, RemoveClose(h)
      PROVE  OpenAt(e)'
  BY <1>10 DEF RemoveClose, Goto, Close
<1>11. ASSUME NEW h \in Handlers, RemoveEnd(h)
      PROVE  OpenAt(e)'
  BY <1>11 DEF RemoveEnd, Finish, Goto, Promote, Registered
<1>12. ASSUME NEW h \in Handlers, NEW u \in Ids, Use(h, u)
      PROVE  OpenAt(e)'
  BY <1>12 DEF Use, Request
<1>13. ASSUME NEW h \in Handlers, WatchFind(h) \/ WatchChange(h)
      PROVE  OpenAt(e)'
  BY <1>13 DEF WatchFind, Goto, Request, Registered, WatchChange, Finish
<1> QED
  BY <1>1, <1>2, <1>3, <1>4, <1>5, <1>6, <1>7, <1>8, <1>9, <1>10, <1>11, <1>12,
     <1>13 DEF Next, ClientStep, HandlerStep

\* An adapter under a generated id is in the table or in its creator's hands.
LEMMA ReachNext ==
  ASSUME TypeOK, RemovingInv, EntryInv, CreatorInv, OneCreator, NameInv, IdInv,
     AdapterReachable, Next
  PROVE  AdapterReachable'
<1> USE Constants DEF TypeOK, RemovingInv, RemovingAt, EntryInv, EntryAt, OneCreator,
     NameInv, IdInv, AdapterReachable, Creates, Holds, CreatorInv, CreatorAt, Owns,
     Started, tableVars, handlerVars, instanceVars
<1>1. ASSUME NEW h \in Handlers, NEW k \in {"launch", "attach"},
             NEW n \in Names \cup {NoId}, Reserve(h, k, n)
      PROVE  AdapterReachable'
  BY <1>1 DEF Reserve, Goto
<1>2. ASSUME NEW h \in Handlers, StartAdapter(h)
      PROVE  AdapterReachable'
  BY <1>2 DEF StartAdapter, Goto
<1>3. ASSUME NEW h \in Handlers, StartAdapterFails(h) \/ SettleAlive(h) \/ RemoveNothing(h)
      PROVE  AdapterReachable'
  BY <1>3 DEF StartAdapterFails, Finish, Goto, SettleAlive, RemoveNothing
<1>4. ASSUME NEW h \in Handlers, ValidateName(h)
      PROVE  AdapterReachable'
  BY <1>4 DEF ValidateName, Goto
<1>5. ASSUME NEW h \in Handlers, NameTaken(h) \/ HandshakeFails(h)
      PROVE  AdapterReachable'
  BY <1>5 DEF NameTaken, Finish, Goto, Close, HandshakeFails
<1>6. ASSUME NEW h \in Handlers, Register(h)
      PROVE  AdapterReachable'
  BY <1>6 DEF Register, Finish, Goto
<1>7. ASSUME NEW h \in Handlers, LoadWatches(h)
      PROVE  AdapterReachable'
  BY <1>7 DEF LoadWatches, Goto
<1>8. ASSUME NEW h \in Handlers, SettleOver(h) \/ StopRequest(h) \/ StopFind(h)
      PROVE  AdapterReachable'
  BY <1>8 DEF SettleOver, Goto, StopRequest, Request, StopFind, Finish
<1>9. ASSUME NEW h \in Handlers, RemoveBegin(h)
      PROVE  AdapterReachable'
  BY <1>9 DEF RemoveBegin, Goto, SaveWatches
<1>10. ASSUME NEW h \in Handlers, RemoveClose(h)
      PROVE  AdapterReachable'
  BY <1>10 DEF RemoveClose, Goto, Close
<1>11. ASSUME NEW h \in Handlers, RemoveEnd(h)
      PROVE  AdapterReachable'
  BY <1>11 DEF RemoveEnd, Finish, Goto, Promote, Registered
<1>12. ASSUME NEW h \in Handlers, NEW u \in Ids, Use(h, u)
      PROVE  AdapterReachable'
  BY <1>12 DEF Use, Request
<1>13. ASSUME NEW h \in Handlers, WatchFind(h) \/ WatchChange(h)
      PROVE  AdapterReachable'
  BY <1>13 DEF WatchFind, Goto, Request, Registered, WatchChange, Finish
<1> QED
  BY <1>1, <1>2, <1>3, <1>4, <1>5, <1>6, <1>7, <1>8, <1>9, <1>10, <1>11, <1>12,
     <1>13 DEF Next, ClientStep, HandlerStep

-----------------------------------------------------------------------------
(* The theorems.                                                           *)

\* The invariant holds at first.
LEMMA InvInit == Init => Inv
<1> SUFFICES ASSUME Init PROVE Inv
  OBVIOUS
<1> USE Constants DEF Init
<1>1. TypeOK
  BY DEF TypeOK, Labels, File, NoFile
<1>2. LockInv /\ RemovingInv /\ CreatorInv /\ OneCreator /\ NameInv
  BY DEF LockInv, RemovingInv, RemovingAt, CreatorInv, CreatorAt, OneCreator, NameInv,
     Holds, Owns, Started
<1>3. EntryInv /\ OpenInv
  BY DEF EntryInv, EntryAt, OpenInv, OpenAt
<1>4. IdInv /\ AdapterReachable
  BY DEF IdInv, AdapterReachable
<1> QED
  BY <1>1, <1>2, <1>3, <1>4 DEF Inv

\* A stuttering step keeps it.
LEMMA InvStutter == Inv /\ UNCHANGED vars => Inv'
<1> SUFFICES ASSUME Inv, UNCHANGED vars PROVE Inv'
  OBVIOUS
<1> USE DEF Inv, vars, tableVars, handlerVars, instanceVars
<1>1. TypeOK'
  BY DEF TypeOK
<1>2. LockInv' /\ RemovingInv' /\ CreatorInv' /\ OneCreator' /\ NameInv'
  BY DEF LockInv, RemovingInv, RemovingAt, CreatorInv, CreatorAt, OneCreator, NameInv,
     Holds, Owns, Started
<1>3. EntryInv' /\ OpenInv'
  BY DEF EntryInv, EntryAt, OpenInv, OpenAt
<1>4. IdInv' /\ AdapterReachable'
  BY DEF IdInv, AdapterReachable, Creates
<1> QED
  BY <1>1, <1>2, <1>3, <1>4

\* The invariant of the manager holds whatever its clients do.
THEOREM Invariance == Spec => []Inv
<1>1. Inv /\ Next => Inv'
  BY TypeNext, LockNext, RemovingNext, EntryNext, CreatorNext, OneCreatorNext, NameNext,
     IdNext, OpenNext, ReachNext DEF Inv
<1> QED
  BY <1>1, InvInit, InvStutter, PTL DEF Spec

\* Every variable of the manager's model keeps its type.
THEOREM TypeCorrect == Spec => []TypeOK
<1>1. Inv => TypeOK
  BY DEF Inv
<1> QED
  BY <1>1, Invariance, PTL

\* Manager.Get never hands out a session whose adapter Remove has already killed.
THEOREM FoundOpen == Spec => []FoundIsOpen
<1>1. Inv => FoundIsOpen
  BY Constants DEF Inv, LockInv, OpenInv, OpenAt, FoundIsOpen, Registered, Holds
<1> QED
  BY <1>1, Invariance, PTL

\* No error path of a start loses an adapter process, and no removal does, as long
\* as its session has a generated id.
THEOREM Reachable == Spec => []AdapterReachable
<1>1. Inv => AdapterReachable
  BY DEF Inv
<1> QED
  BY <1>1, Invariance, PTL

\* Every step of the manager is a step of the abstract table, or none.
LEMMA TableStep == Inv /\ [Next]_vars => [Table!TableNext]_(Table!tableVars)
<1> SUFFICES ASSUME Inv, [Next]_vars PROVE [Table!TableNext]_(Table!tableVars)
  OBVIOUS
<1> USE Constants DEF Table!TableNext, Table!tableVars
<1>1. ASSUME UNCHANGED <<sessions, defID>>
      PROVE  UNCHANGED Table!tableVars
  BY <1>1 DEF Registered
<1>2. ASSUME NEW h \in Handlers, Register(h)
      PROVE  Table!Add(ident[cur[h]]) /\ ident[cur[h]] \in Ids
  <2>1. cur[h] \in Instances /\ ident[cur[h]] \in Ids
    BY <1>2 DEF Inv, CreatorInv, CreatorAt, Started, Owns, Register
  <2>2. Registered' = Registered \cup {ident[cur[h]]}
    BY <1>2, <2>1 DEF Inv, TypeOK, Register, Registered
  <2> QED
    BY <1>2, <2>1, <2>2 DEF Register, Table!Add
<1>3. ASSUME NEW h \in Handlers, RemoveEnd(h)
      PROVE  Table!Drop(sid[h]) /\ sid[h] \in Ids
  <2>1. sid[h] \in Ids /\ sid[h] \in Registered
    BY <1>3 DEF Inv, RemovingInv, RemovingAt, Holds, RemoveEnd, Registered
  <2>2. Registered' = Registered \ {sid[h]}
    BY <1>3, <2>1 DEF Inv, TypeOK, RemoveEnd, Registered
  <2> QED
    BY <1>3, <2>1, <2>2 DEF RemoveEnd, Promote, Table!Drop
<1>4. ASSUME NEW h \in Handlers, NEW x \in Ids, Use(h, x)
      PROVE  Table!Choose(x)
  BY <1>4 DEF Use, Table!Choose, Registered
<1>5. CASE UNCHANGED vars
  BY <1>1, <1>5 DEF vars, tableVars
<1>6. CASE Next
  <2>1. PICK h \in Handlers : ClientStep(h) \/ HandlerStep(h)
    BY <1>6 DEF Next
  <2>2. CASE Register(h)
    BY <1>2, <2>2
  <2>3. CASE RemoveEnd(h)
    BY <1>3, <2>3
  <2>4. ASSUME NEW x \in Ids, Use(h, x)
        PROVE  Table!TableNext
    BY <1>4, <2>4
  <2>5. \/ UNCHANGED <<sessions, defID>>
        \/ Register(h) \/ RemoveEnd(h) \/ \E x \in Ids : Use(h, x)
    BY <2>1 DEF ClientStep, HandlerStep, Reserve, StartAdapter, StartAdapterFails,
       ValidateName, NameTaken, HandshakeFails, LoadWatches, SettleAlive, SettleOver,
       StopRequest, StopFind, RemoveBegin, RemoveNothing, RemoveClose, WatchFind,
       WatchChange, tableVars
  <2> QED
    BY <1>1, <2>2, <2>3, <2>4, <2>5
<1> QED
  BY <1>5, <1>6

\* The manager implements the table its clients rely on.
THEOREM Refinement == Spec => ImplementsTable
<1>1. Init => Table!TableInit
  BY DEF Init, Table!TableInit, Registered
<1> QED
  BY <1>1, TableStep, Invariance, PTL DEF Spec, ImplementsTable, Table!TableSpec

\* A client that names no session reaches a live one as long as there is any.
THEOREM DefaultLives == Spec => []Table!DefaultIsLive
<1>1. Init => Table!DefaultIsLive
  BY DEF Init, Table!DefaultIsLive, Registered
<1>2. Table!DefaultIsLive /\ [Table!TableNext]_(Table!tableVars) => Table!DefaultIsLive'
  BY DEF Table!DefaultIsLive, Table!TableNext, Table!tableVars, Table!Add, Table!Drop,
     Table!Choose
<1> QED
  BY <1>1, <1>2, TableStep, Invariance, PTL DEF Spec

=============================================================================
