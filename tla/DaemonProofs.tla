---------------------------- MODULE DaemonProofs ----------------------------
(***************************************************************************)
(* Proofs about Daemon, for any number of clients, daemons, crashes and    *)
(* commands.                                                               *)
(*                                                                         *)
(* A daemon only moves forward, so whatever was read from a file once      *)
(* keeps what it said about its daemon (FileInv): a socket that was at the *)
(* path was bound, a pid that was in the pid file belongs to a daemon that *)
(* served or has ended.  As a path is bound once per daemon, a socket that *)
(* has left the path does not come back, which is what `daemon stop`       *)
(* relies on (OrigInv, GoneInv).                                           *)
(*                                                                         *)
(* What needs ~overlapped is the exclusion: one daemon starts at a time,   *)
(* only while the pid file names no live one, a serving daemon is in the   *)
(* pid file, and the socket belongs to whoever got past Listen (Exclusive).*)
(***************************************************************************)
EXTENDS Daemon, TLAPS

\* Past net.Listen; past Listen; announced.
Bound     == {"chmod", "write", "closing", "serving", "dead"}
Listened  == {"write", "closing", "serving", "dead"}
Announced == {"serving", "dead"}

FileInv ==
  /\ sock # None => pc[sock] \in Bound
  /\ pidfile # None => pc[pidfile] \in Announced
  /\ \A c \in Clients :
       /\ conn[c] # None => pc[conn[c]] \in Bound
       /\ orig[c] # None => pc[orig[c]] \in Bound
       /\ pid[c] # None => pc[pid[c]] \in Announced
       /\ made[c] # None => pc[made[c]] \in Listened

\* A result is there only between two commands, a command that looks for the socket
\* has no connection yet, and nobody starts twice or asks for what was never there.
CallInv ==
  \A c \in Clients :
    /\ cpc[c] # "idle" => result[c] = "none"
    /\ cpc[c] = "stat" => conn[c] = None
    /\ cpc[c] \in {"connected", "await", "absent"} => conn[c] # None
    /\ cmd[c] = "start" /\ cpc[c] # "starting" => made[c] = None
    /\ result[c] \in {"respawned", "notfound"} => made[about[c]] # None

\* The socket that was inspected first has left the path when another answered.
OrigInv ==
  \A c \in Clients :
    conn[c] # None /\ orig[c] # None /\ conn[c] # orig[c] => sock # orig[c]

\* Once the probe has found no listener, the daemon that acknowledged is gone.
Gone(c) ==
  /\ cpc[c] = "absent" /\ sock = conn[c] => ~Alive(conn[c])
  /\ result[c] = "stopped" /\ conn[c] = orig[c] /\ sock = conn[c] => ~Alive(conn[c])

GoneInv == \A c \in Clients : Gone(c)

\* A session that nobody has ended is in the table of its daemon.
HeldInv ==
  \A c \in Clients :
    made[c] # None /\ Alive(made[c]) /\ c \notin ended => c \in held[made[c]]

\* Where a policy may be: in the file, in an `sl-dbg mcp`, in a daemon that has not
\* read the file yet.  Once saved, the file does not become empty again.
PolicyInv ==
  /\ policyfile \in Exports \cup {NoVars}
  /\ \A c \in Clients : cenv[c] \in Exports \cup {NoVars}
  /\ \A d \in Daemons : pc[d] = "none" => d \notin late
  /\ \A d \in Daemons :
       pc[d] = "check" =>
         /\ policy[d] \in Exports \cup {NoVars, UserEnv}
         /\ d \in late => policyfile # NoVars

\* One daemon comes up at a time and has the socket to itself.
Exclusive ==
  ~overlapped =>
    /\ \A d, e \in Daemons : Starting(d) /\ Starting(e) => d = e
    /\ \A d \in Daemons : Starting(d) => ~Alive(pidfile)
    /\ \A d \in Daemons : pc[d] = "serving" => pidfile = d
    /\ \A d \in Daemons : pc[d] \in {"chmod", "write", "closing", "serving"} => sock = d

Inv == /\ TypeOK /\ FileInv /\ CallInv /\ OrigInv /\ GoneInv /\ HeldInv /\ PolicyInv /\ Exclusive
       /\ LostOnlyWithDaemon /\ StopNotStuck /\ OnePolicy

-----------------------------------------------------------------------------
\* The counters stay within their bounds.
LEMMA Counted ==
  ASSUME TypeOK
  PROVE  /\ calls < MaxCalls => calls + 1 \in 0..MaxCalls
         /\ faults < MaxFaults => faults + 1 \in 0..MaxFaults
<1>1. calls \in 0..MaxCalls /\ faults \in 0..MaxFaults
  BY DEF TypeOK
<1> QED
  BY <1>1, DaemonAssumption

\* Zero is no pid.
LEMMA NoPid == None \notin Daemons
BY DEF None, Daemons

\* Which policies there are, and what a daemon makes of them.
LEMMA PolicyFacts ==
  /\ Exports \subseteq [Keys -> Values] /\ Exports \subseteq Policies
  /\ NoVars \in Policies /\ NoVars \notin Exports
  /\ \A e \in Policies, f \in Policies : Overlay(e, f) \in Policies
  /\ \A e \in Exports, f \in Policies : Overlay(e, f) = e
  /\ \A f \in Policies : Overlay(NoVars, f) = f
  /\ Overlay(UserEnv, NoVars) = UserEnv
<1>1. Exports \subseteq [Keys -> Values]
  BY PolicyAssumption DEF Exports, ResolveMCPSafePolicy, Policies
<1>2. Exports \subseteq Policies /\ NoVars \in Policies
  BY <1>1 DEF Policies, NoVars
<1>3. NoVars \notin Exports
  <2>1. PICK k \in Keys : TRUE
    BY PolicyAssumption
  <2> QED
    BY <1>1, <2>1, PolicyAssumption DEF NoVars
<1>4. \A e \in Policies, f \in Policies : Overlay(e, f) \in Policies
  BY DEF Overlay, Policies
<1>5. ASSUME NEW e \in Exports, NEW f \in Policies PROVE Overlay(e, f) = e
  <2>1. e \in [Keys -> Values] /\ \A k \in Keys : e[k] # Unset
    BY <1>1, PolicyAssumption
  <2> QED
    BY <2>1 DEF Overlay
<1>6. ASSUME NEW f \in Policies PROVE Overlay(NoVars, f) = f
  BY DEF Overlay, NoVars, Policies
<1>7. Overlay(UserEnv, NoVars) = UserEnv
  <2>1. \A k \in Keys : (IF UserEnv[k] # Unset THEN UserEnv[k] ELSE NoVars[k]) = UserEnv[k]
    BY DEF NoVars
  <2> QED
    BY <2>1, PolicyAssumption DEF Overlay, Policies
<1> QED
  BY <1>1, <1>2, <1>3, <1>4, <1>5, <1>6, <1>7

-----------------------------------------------------------------------------
(* The conjuncts of the invariant, one after the other.                    *)

\* Every operation keeps the types.
LEMMA TypeNext ==
  ASSUME TypeOK, Next
  PROVE  TypeOK'
<1>a. /\ NoVars \in Policies /\ UserEnv \in Policies
      /\ \A flags \in Flags : ResolveMCPSafePolicy(flags) \in Policies
      /\ \A e \in Policies, f \in Policies : Overlay(e, f) \in Policies
  BY PolicyFacts, PolicyAssumption DEF Exports
<1> USE <1>a DEF TypeOK, Labels, CLabels, Commands, fileVars, daemonVars, clientVars, boundVars, pastVars
<1>1. ASSUME NEW d \in Daemons, Refuse(d) PROVE TypeOK'
  BY <1>1 DEF Refuse, Die, GotoD
<1>2. ASSUME NEW d \in Daemons, Check(d) PROVE TypeOK'
  BY <1>2 DEF Check, GotoD, LoadPolicyFromEnv
<1>3. ASSUME NEW d \in Daemons, Remove(d) PROVE TypeOK'
  BY <1>3 DEF Remove, GotoD
<1>4. ASSUME NEW d \in Daemons, Bind(d) PROVE TypeOK'
  BY <1>4 DEF Bind, GotoD
<1>5. ASSUME NEW d \in Daemons, BindFails(d) PROVE TypeOK'
  BY <1>5 DEF BindFails, Die, GotoD
<1>6. ASSUME NEW d \in Daemons, Chmod(d) PROVE TypeOK'
  BY <1>6 DEF Chmod, GotoD
<1>7. ASSUME NEW d \in Daemons, WritePidFile(d) PROVE TypeOK'
  BY <1>7 DEF WritePidFile, GotoD
<1>8. ASSUME NEW d \in Daemons, WritePidFails(d) PROVE TypeOK'
  BY <1>8, Counted DEF WritePidFails, GotoD
<1>9. ASSUME NEW d \in Daemons, CloseListener(d) PROVE TypeOK'
  BY <1>9 DEF CloseListener, Die, GotoD
<1>10. ASSUME NEW d \in Daemons, Exit(d) PROVE TypeOK'
  BY <1>10 DEF Exit, Alive, Die, GotoD
<1>11. ASSUME NEW d \in Daemons, Crash(d) PROVE TypeOK'
  BY <1>11, Counted DEF Crash, Alive, Die, GotoD
<1>12. ASSUME NEW c \in Clients, NEW k \in {"start", "session"}, CallBegin(c, k) PROVE TypeOK'
  BY <1>12, Counted DEF CallBegin, Begin, GotoC
<1>13. ASSUME NEW c \in Clients, NEW flags \in Flags, McpBegin(c, flags) PROVE TypeOK'
  BY <1>13, Counted DEF McpBegin, Begin, GotoC
<1>14. ASSUME NEW c \in Clients, Dial(c) PROVE TypeOK'
  BY <1>14 DEF Dial, GotoC, Reachable
<1>15. ASSUME NEW c \in Clients, NEW d \in Daemons, SpawnDaemon(c, d) PROVE TypeOK'
  BY <1>15 DEF SpawnDaemon, GotoC, GotoD, Environments
<1>16. ASSUME NEW c \in Clients, RetryDeadline(c) PROVE TypeOK'
  BY <1>16 DEF RetryDeadline, Return, GotoC
<1>17. ASSUME NEW c \in Clients, StartFails(c) PROVE TypeOK'
  BY <1>17 DEF StartFails, Return, GotoC
<1>18. ASSUME NEW c \in Clients, StartCreates(c) PROVE TypeOK'
  BY <1>18 DEF StartCreates, GotoC, Answering
<1>19. ASSUME NEW c \in Clients, StartReturns(c) PROVE TypeOK'
  BY <1>19 DEF StartReturns, Return, GotoC
<1>20. ASSUME NEW c \in Clients, StartEnds(c) PROVE TypeOK'
  BY <1>20 DEF StartEnds, RemoveSession, Return, GotoC, Answering
<1>21. ASSUME NEW c \in Clients, NEW o \in Clients, HandleState(c, o) PROVE TypeOK'
  BY <1>21 DEF HandleState, Return, GotoC
<1>22. ASSUME NEW c \in Clients, NEW o \in Clients, HandleStop(c, o) PROVE TypeOK'
  BY <1>22 DEF HandleStop, RemoveSession, Names, Return, GotoC, Answering
<1>23. ASSUME NEW c \in Clients, NEW o \in Clients, ServeUnknown(c, o) PROVE TypeOK'
  <2>1. ASSUME NEW r \in {"notfound", "respawned"}, Return(c, r) PROVE TypeOK'
    BY <1>23, <2>1 DEF ServeUnknown, SessionNotFound, Return, GotoC
  <2> QED
    BY <1>23, <2>1, Zenon DEF ServeUnknown, SessionNotFound
<1>24. ASSUME NEW c \in Clients, ServeNoSession(c) PROVE TypeOK'
  BY <1>24 DEF ServeNoSession, Return, GotoC
<1>25. ASSUME NEW c \in Clients, ConnectionLost(c) PROVE TypeOK'
  BY <1>25 DEF ConnectionLost, Return, GotoC
<1>26. ASSUME NEW c \in Clients, StopBegin(c) PROVE TypeOK'
  BY <1>26, Counted DEF StopBegin, Begin, GotoC
<1>27. ASSUME NEW c \in Clients, StatSocket(c) PROVE TypeOK'
  BY <1>27 DEF StatSocket, GotoC
<1>28. ASSUME NEW c \in Clients, ReadPid(c) PROVE TypeOK'
  BY <1>28 DEF ReadPid, GotoC
<1>29. ASSUME NEW c \in Clients, StopDial(c) PROVE TypeOK'
  BY <1>29 DEF StopDial, GotoC, Reachable
<1>30. ASSUME NEW c \in Clients, StopNotRunning(c) PROVE TypeOK'
  BY <1>30 DEF StopNotRunning, StopReturn, GotoC
<1>31. ASSUME NEW c \in Clients, Shutdown(c) PROVE TypeOK'
  BY <1>31 DEF Shutdown, GotoC, Answering
<1>32. ASSUME NEW c \in Clients, AwaitReplaced(c) PROVE TypeOK'
  BY <1>32 DEF AwaitReplaced, Replaced, StopReturn, GotoC
<1>33. ASSUME NEW c \in Clients, AwaitAbsent(c) PROVE TypeOK'
  BY <1>33 DEF AwaitAbsent, GotoC, Reachable
<1>34. ASSUME NEW c \in Clients, AwaitPidGone(c) PROVE TypeOK'
  BY <1>34 DEF AwaitPidGone, StopReturn, GotoC
<1>35. ASSUME NEW c \in Clients, AwaitPidAlive(c) PROVE TypeOK'
  BY <1>35 DEF AwaitPidAlive, GotoC
<1>36. ASSUME NEW c \in Clients, StopDeadline(c) PROVE TypeOK'
  BY <1>36 DEF StopDeadline, StopReturn, GotoC
<1> QED
  BY <1>1, <1>2, <1>3, <1>4, <1>5, <1>6, <1>7, <1>8, <1>9, <1>10, <1>11, <1>12, <1>13, <1>14,
     <1>15, <1>16, <1>17, <1>18, <1>19, <1>20, <1>21, <1>22, <1>23, <1>24, <1>25, <1>26, <1>27,
     <1>28, <1>29, <1>30, <1>31, <1>32, <1>33, <1>34, <1>35, <1>36
  DEF Next, DaemonStep, ClientStep

\* A daemon only moves forward, so what the files, and the clients that read them,
\* name stays bound, or announced, or ended.
LEMMA FileNext ==
  ASSUME TypeOK, FileInv, Next
  PROVE  FileInv'
<1>a. /\ sock \in {None} \cup Daemons /\ pidfile \in {None} \cup Daemons
      /\ pc \in [Daemons -> Labels] /\ conn \in [Clients -> {None} \cup Daemons]
      /\ orig \in [Clients -> {None} \cup Daemons]
      /\ pid \in [Clients -> {None} \cup Daemons]
      /\ made \in [Clients -> {None} \cup Daemons]
  BY DEF TypeOK
<1> USE <1>a DEF FileInv, None, Bound, Listened, Announced, fileVars, daemonVars,
        clientVars, boundVars, pastVars
<1>1. ASSUME NEW d \in Daemons, Refuse(d) PROVE FileInv'
  BY <1>1 DEF Refuse, Die, GotoD
<1>2. ASSUME NEW d \in Daemons, Check(d) PROVE FileInv'
  BY <1>2 DEF Check, GotoD, LoadPolicyFromEnv
<1>3. ASSUME NEW d \in Daemons, Remove(d) PROVE FileInv'
  BY <1>3 DEF Remove, GotoD
<1>4. ASSUME NEW d \in Daemons, Bind(d) PROVE FileInv'
  BY <1>4 DEF Bind, GotoD
<1>5. ASSUME NEW d \in Daemons, BindFails(d) PROVE FileInv'
  BY <1>5 DEF BindFails, Die, GotoD
<1>6. ASSUME NEW d \in Daemons, Chmod(d) PROVE FileInv'
  BY <1>6 DEF Chmod, GotoD
<1>7. ASSUME NEW d \in Daemons, WritePidFile(d) PROVE FileInv'
  BY <1>7 DEF WritePidFile, GotoD
<1>8. ASSUME NEW d \in Daemons, WritePidFails(d) PROVE FileInv'
  BY <1>8 DEF WritePidFails, GotoD
<1>9. ASSUME NEW d \in Daemons, CloseListener(d) PROVE FileInv'
  BY <1>9 DEF CloseListener, Die, GotoD
<1>10. ASSUME NEW d \in Daemons, Exit(d) PROVE FileInv'
  BY <1>10 DEF Exit, Alive, Die, GotoD
<1>11. ASSUME NEW d \in Daemons, Crash(d) PROVE FileInv'
  BY <1>11 DEF Crash, Alive, Die, GotoD
<1>12. ASSUME NEW c \in Clients, NEW k \in {"start", "session"}, CallBegin(c, k) PROVE FileInv'
  BY <1>12 DEF CallBegin, Begin, GotoC
<1>13. ASSUME NEW c \in Clients, NEW flags \in Flags, McpBegin(c, flags) PROVE FileInv'
  BY <1>13 DEF McpBegin, Begin, GotoC
<1>14. ASSUME NEW c \in Clients, Dial(c) PROVE FileInv'
  BY <1>14 DEF Dial, GotoC, Reachable
<1>15. ASSUME NEW c \in Clients, NEW d \in Daemons, SpawnDaemon(c, d) PROVE FileInv'
  BY <1>15 DEF SpawnDaemon, GotoC, GotoD, Environments
<1>16. ASSUME NEW c \in Clients, RetryDeadline(c) PROVE FileInv'
  BY <1>16 DEF RetryDeadline, Return, GotoC
<1>17. ASSUME NEW c \in Clients, StartFails(c) PROVE FileInv'
  BY <1>17 DEF StartFails, Return, GotoC
<1>18. ASSUME NEW c \in Clients, StartCreates(c) PROVE FileInv'
  BY <1>18 DEF StartCreates, GotoC, Answering
<1>19. ASSUME NEW c \in Clients, StartReturns(c) PROVE FileInv'
  BY <1>19 DEF StartReturns, Return, GotoC
<1>20. ASSUME NEW c \in Clients, StartEnds(c) PROVE FileInv'
  BY <1>20 DEF StartEnds, RemoveSession, Return, GotoC, Answering
<1>21. ASSUME NEW c \in Clients, NEW o \in Clients, HandleState(c, o) PROVE FileInv'
  BY <1>21 DEF HandleState, Return, GotoC
<1>22. ASSUME NEW c \in Clients, NEW o \in Clients, HandleStop(c, o) PROVE FileInv'
  BY <1>22 DEF HandleStop, RemoveSession, Names, Return, GotoC, Answering
<1>23. ASSUME NEW c \in Clients, NEW o \in Clients, ServeUnknown(c, o) PROVE FileInv'
  BY <1>23 DEF ServeUnknown, SessionNotFound, Return, GotoC
<1>24. ASSUME NEW c \in Clients, ServeNoSession(c) PROVE FileInv'
  BY <1>24 DEF ServeNoSession, Return, GotoC
<1>25. ASSUME NEW c \in Clients, ConnectionLost(c) PROVE FileInv'
  BY <1>25 DEF ConnectionLost, Return, GotoC
<1>26. ASSUME NEW c \in Clients, StopBegin(c) PROVE FileInv'
  BY <1>26 DEF StopBegin, Begin, GotoC
<1>27. ASSUME NEW c \in Clients, StatSocket(c) PROVE FileInv'
  BY <1>27 DEF StatSocket, GotoC
<1>28. ASSUME NEW c \in Clients, ReadPid(c) PROVE FileInv'
  BY <1>28 DEF ReadPid, GotoC
<1>29. ASSUME NEW c \in Clients, StopDial(c) PROVE FileInv'
  BY <1>29 DEF StopDial, GotoC, Reachable
<1>30. ASSUME NEW c \in Clients, StopNotRunning(c) PROVE FileInv'
  BY <1>30 DEF StopNotRunning, StopReturn, GotoC
<1>31. ASSUME NEW c \in Clients, AwaitReplaced(c) PROVE FileInv'
  BY <1>31 DEF AwaitReplaced, Replaced, StopReturn, GotoC
<1>32. ASSUME NEW c \in Clients, AwaitPidGone(c) PROVE FileInv'
  BY <1>32 DEF AwaitPidGone, StopReturn, GotoC
<1>33. ASSUME NEW c \in Clients, StopDeadline(c) PROVE FileInv'
  BY <1>33 DEF StopDeadline, StopReturn, GotoC
<1>34. ASSUME NEW c \in Clients,
             \/ Shutdown(c) \/ AwaitAbsent(c) \/ AwaitPidAlive(c)
      PROVE  UNCHANGED <<sock, pidfile, pc, conn, orig, pid, made>>
  BY <1>34 DEF Shutdown, AwaitAbsent, AwaitPidAlive
<1>35. CASE UNCHANGED <<sock, pidfile, pc, conn, orig, pid, made>>
  BY <1>35
<1> HIDE DEF FileInv, None, Bound, Listened, Announced
<1> QED
  BY <1>1, <1>2, <1>3, <1>4, <1>5, <1>6, <1>7, <1>8, <1>9, <1>10, <1>11, <1>12, <1>13, <1>14,
     <1>15, <1>16, <1>17, <1>18, <1>19, <1>20, <1>21, <1>22, <1>23, <1>24, <1>25, <1>26, <1>27,
     <1>28, <1>29, <1>30, <1>31, <1>32, <1>33, <1>34, <1>35
  DEF Next, DaemonStep, ClientStep

\* Every command clears the result of the one before.
LEMMA CallNext ==
  ASSUME TypeOK, CallInv, Next
  PROVE  CallInv'
<1>a. /\ cpc \in [Clients -> CLabels]
      /\ conn \in [Clients -> {None} \cup Daemons]
      /\ cmd \in [Clients -> Commands] /\ about \in [Clients -> Clients]
      /\ made \in [Clients -> {None} \cup Daemons]
      /\ result = [c \in Clients |-> result[c]]
  BY DEF TypeOK
<1> USE <1>a DEF CallInv, None, fileVars, daemonVars, clientVars, boundVars, pastVars
<1>1. ASSUME NEW c \in Clients, NEW k \in {"start", "session"}, CallBegin(c, k) PROVE CallInv'
  BY <1>1 DEF CallBegin, Begin, GotoC
<1>2. ASSUME NEW c \in Clients, NEW flags \in Flags, McpBegin(c, flags) PROVE CallInv'
  BY <1>2 DEF McpBegin, Begin, GotoC
<1>3. ASSUME NEW c \in Clients, Dial(c) PROVE CallInv'
  BY <1>3 DEF Dial, GotoC, Reachable
<1>4. ASSUME NEW c \in Clients, NEW d \in Daemons, SpawnDaemon(c, d) PROVE CallInv'
  BY <1>4 DEF SpawnDaemon, GotoC, GotoD, Environments
<1>5. ASSUME NEW c \in Clients, RetryDeadline(c) PROVE CallInv'
  BY <1>5 DEF RetryDeadline, Return, GotoC
<1>6. ASSUME NEW c \in Clients, StartFails(c) PROVE CallInv'
  BY <1>6 DEF StartFails, Return, GotoC
<1>7. ASSUME NEW c \in Clients, StartCreates(c) PROVE CallInv'
  BY <1>7 DEF StartCreates, GotoC, Answering, Answering
<1>8. ASSUME NEW c \in Clients, StartReturns(c) PROVE CallInv'
  BY <1>8 DEF StartReturns, Return, GotoC
<1>9. ASSUME NEW c \in Clients, StartEnds(c) PROVE CallInv'
  BY <1>9 DEF StartEnds, RemoveSession, Return, GotoC, Answering
<1>10. ASSUME NEW c \in Clients, NEW o \in Clients, HandleState(c, o) PROVE CallInv'
  BY <1>10 DEF HandleState, Return, GotoC
<1>11. ASSUME NEW c \in Clients, NEW o \in Clients, HandleStop(c, o) PROVE CallInv'
  BY <1>11 DEF HandleStop, RemoveSession, Names, Return, GotoC, Answering
<1>12. ASSUME NEW c \in Clients, NEW o \in Clients, ServeUnknown(c, o) PROVE CallInv'
  BY <1>12 DEF ServeUnknown, SessionNotFound, Return, GotoC, Names
<1>13. ASSUME NEW c \in Clients, ServeNoSession(c) PROVE CallInv'
  BY <1>13 DEF ServeNoSession, Return, GotoC
<1>14. ASSUME NEW c \in Clients, ConnectionLost(c) PROVE CallInv'
  BY <1>14 DEF ConnectionLost, Return, GotoC
<1>15. ASSUME NEW c \in Clients, StopBegin(c) PROVE CallInv'
  BY <1>15 DEF StopBegin, Begin, GotoC
<1>16. ASSUME NEW c \in Clients, StatSocket(c) PROVE CallInv'
  BY <1>16 DEF StatSocket, GotoC
<1>17. ASSUME NEW c \in Clients, ReadPid(c) PROVE CallInv'
  BY <1>17 DEF ReadPid, GotoC
<1>18. ASSUME NEW c \in Clients, StopDial(c) PROVE CallInv'
  BY <1>18 DEF StopDial, GotoC, Reachable
<1>19. ASSUME NEW c \in Clients, StopNotRunning(c) PROVE CallInv'
  BY <1>19 DEF StopNotRunning, StopReturn, GotoC
<1>20. ASSUME NEW c \in Clients, Shutdown(c) PROVE CallInv'
  BY <1>20 DEF Shutdown, GotoC, Answering
<1>21. ASSUME NEW c \in Clients, AwaitReplaced(c) PROVE CallInv'
  BY <1>21 DEF AwaitReplaced, Replaced, StopReturn, GotoC
<1>22. ASSUME NEW c \in Clients, AwaitAbsent(c) PROVE CallInv'
  BY <1>22 DEF AwaitAbsent, GotoC, Reachable
<1>23. ASSUME NEW c \in Clients, AwaitPidGone(c) PROVE CallInv'
  BY <1>23 DEF AwaitPidGone, StopReturn, GotoC
<1>24. ASSUME NEW c \in Clients, AwaitPidAlive(c) PROVE CallInv'
  BY <1>24 DEF AwaitPidAlive, GotoC
<1>25. ASSUME NEW c \in Clients, StopDeadline(c) PROVE CallInv'
  BY <1>25 DEF StopDeadline, StopReturn, GotoC
<1>26. ASSUME NEW d \in Daemons,
             \/ Refuse(d) \/ Check(d) \/ Remove(d) \/ Bind(d) \/ BindFails(d) \/ Chmod(d)
             \/ WritePidFile(d) \/ WritePidFails(d) \/ CloseListener(d) \/ Exit(d) \/ Crash(d)
      PROVE  UNCHANGED <<cpc, cmd, conn, about, result, made>>
  BY <1>26 DEF Refuse, Die, Check, Remove, Bind, BindFails, Chmod, WritePidFile, WritePidFails,
         CloseListener, Exit, Crash
<1>27. CASE UNCHANGED <<cpc, cmd, conn, about, result, made>>
  BY <1>27
<1> HIDE DEF CallInv, None
<1> QED
  BY <1>1, <1>2, <1>3, <1>4, <1>5, <1>6, <1>7, <1>8, <1>9, <1>10, <1>11, <1>12, <1>13, <1>14,
     <1>15, <1>16, <1>17, <1>18, <1>19, <1>20, <1>21, <1>22, <1>23, <1>24, <1>25, <1>26, <1>27
  DEF Next, DaemonStep, ClientStep

\* Only Bind puts a socket at the path, and that of a daemon that never had one there.
LEMMA OrigNext ==
  ASSUME TypeOK, FileInv, CallInv, OrigInv, Next
  PROVE  OrigInv'
<1>a. /\ sock \in {None} \cup Daemons /\ pc \in [Daemons -> Labels]
      /\ conn \in [Clients -> {None} \cup Daemons]
      /\ orig \in [Clients -> {None} \cup Daemons] /\ cpc \in [Clients -> CLabels]
  BY DEF TypeOK
<1> USE <1>a DEF FileInv, CallInv, OrigInv, None, Bound, fileVars, daemonVars,
        clientVars, boundVars, pastVars
<1>1. ASSUME NEW d \in Daemons, Remove(d) PROVE OrigInv'
  BY <1>1 DEF Remove, GotoD
<1>2. ASSUME NEW d \in Daemons, Bind(d) PROVE OrigInv'
  BY <1>2 DEF Bind, GotoD
<1>3. ASSUME NEW d \in Daemons, CloseListener(d) PROVE OrigInv'
  BY <1>3 DEF CloseListener, Die, GotoD
<1>4. ASSUME NEW c \in Clients, NEW k \in {"start", "session"}, CallBegin(c, k) PROVE OrigInv'
  BY <1>4 DEF CallBegin, Begin, GotoC
<1>5. ASSUME NEW c \in Clients, NEW flags \in Flags, McpBegin(c, flags) PROVE OrigInv'
  BY <1>5 DEF McpBegin, Begin, GotoC
<1>6. ASSUME NEW c \in Clients, Dial(c) PROVE OrigInv'
  BY <1>6 DEF Dial, GotoC, Reachable
<1>7. ASSUME NEW c \in Clients, RetryDeadline(c) PROVE OrigInv'
  BY <1>7 DEF RetryDeadline, Return, GotoC
<1>8. ASSUME NEW c \in Clients, StartFails(c) PROVE OrigInv'
  BY <1>8 DEF StartFails, Return, GotoC
<1>9. ASSUME NEW c \in Clients, StartReturns(c) PROVE OrigInv'
  BY <1>9 DEF StartReturns, Return, GotoC
<1>10. ASSUME NEW c \in Clients, StartEnds(c) PROVE OrigInv'
  BY <1>10 DEF StartEnds, RemoveSession, Return, GotoC, Answering
<1>11. ASSUME NEW c \in Clients, NEW o \in Clients, HandleState(c, o) PROVE OrigInv'
  BY <1>11 DEF HandleState, Return, GotoC
<1>12. ASSUME NEW c \in Clients, NEW o \in Clients, HandleStop(c, o) PROVE OrigInv'
  BY <1>12 DEF HandleStop, RemoveSession, Names, Return, GotoC, Answering
<1>13. ASSUME NEW c \in Clients, NEW o \in Clients, ServeUnknown(c, o) PROVE OrigInv'
  BY <1>13 DEF ServeUnknown, SessionNotFound, Return, GotoC
<1>14. ASSUME NEW c \in Clients, ServeNoSession(c) PROVE OrigInv'
  BY <1>14 DEF ServeNoSession, Return, GotoC
<1>15. ASSUME NEW c \in Clients, ConnectionLost(c) PROVE OrigInv'
  BY <1>15 DEF ConnectionLost, Return, GotoC
<1>16. ASSUME NEW c \in Clients, StopBegin(c) PROVE OrigInv'
  BY <1>16 DEF StopBegin, Begin, GotoC
<1>17. ASSUME NEW c \in Clients, StatSocket(c) PROVE OrigInv'
  BY <1>17 DEF StatSocket, GotoC
<1>18. ASSUME NEW c \in Clients, StopDial(c) PROVE OrigInv'
  BY <1>18 DEF StopDial, GotoC, Reachable
<1>19. ASSUME NEW d \in Daemons,
             \/ Refuse(d) \/ Check(d) \/ BindFails(d) \/ Chmod(d) \/ WritePidFile(d)
             \/ WritePidFails(d) \/ Exit(d) \/ Crash(d)
      PROVE  UNCHANGED <<sock, conn, orig>>
  BY <1>19 DEF Refuse, Die, Check, BindFails, Chmod, WritePidFile, WritePidFails, Exit, Crash
<1>20. ASSUME NEW c \in Clients,
             \/ StartCreates(c) \/ ReadPid(c) \/ StopNotRunning(c) \/ Shutdown(c)
             \/ AwaitReplaced(c) \/ AwaitAbsent(c) \/ AwaitPidGone(c) \/ AwaitPidAlive(c)
             \/ StopDeadline(c)
             \/ \E d \in Daemons : SpawnDaemon(c, d)
      PROVE  UNCHANGED <<sock, conn, orig>>
  BY <1>20 DEF SpawnDaemon, StartCreates, ReadPid, StopNotRunning, StopReturn, Shutdown,
         AwaitReplaced, Replaced, AwaitAbsent, AwaitPidGone, AwaitPidAlive, StopDeadline
<1>21. CASE UNCHANGED <<sock, conn, orig>>
  BY <1>21
<1> HIDE DEF FileInv, CallInv, OrigInv, None, Bound
<1> QED
  BY <1>1, <1>2, <1>3, <1>4, <1>5, <1>6, <1>7, <1>8, <1>9, <1>10, <1>11, <1>12, <1>13, <1>14,
     <1>15, <1>16, <1>17, <1>18, <1>19, <1>20, <1>21
  DEF Next, DaemonStep, ClientStep

\* For the same reason a daemon that could not be reached will not be again.
LEMMA GoneNext ==
  ASSUME TypeOK, FileInv, CallInv, GoneInv, Next
  PROVE  GoneInv'
<1> SUFFICES ASSUME NEW x \in Clients PROVE Gone(x)'
  BY DEF GoneInv
<1>a. /\ sock \in {None} \cup Daemons /\ pc \in [Daemons -> Labels]
      /\ cpc \in [Clients -> CLabels] /\ conn \in [Clients -> {None} \cup Daemons]
      /\ orig \in [Clients -> {None} \cup Daemons]
      /\ result = [c \in Clients |-> result[c]]
  BY DEF TypeOK
<1>b. /\ Gone(x)
      /\ cpc[x] # "idle" => result[x] = "none"
      /\ sock # None => pc[sock] \in Bound
      /\ conn[x] # None => pc[conn[x]] \in Bound
  BY DEF FileInv, CallInv, GoneInv
<1> USE <1>a, <1>b DEF Gone, Alive, None, Bound, fileVars, daemonVars, clientVars,
        boundVars, pastVars
<1>1. ASSUME NEW d \in Daemons, Refuse(d) PROVE Gone(x)'
  BY <1>1 DEF Refuse, Die, GotoD
<1>2. ASSUME NEW d \in Daemons, Check(d) PROVE Gone(x)'
  BY <1>2 DEF Check, GotoD, LoadPolicyFromEnv
<1>3. ASSUME NEW d \in Daemons, Remove(d) PROVE Gone(x)'
  BY <1>3 DEF Remove, GotoD
<1>4. ASSUME NEW d \in Daemons, Bind(d) PROVE Gone(x)'
  BY <1>4 DEF Bind, GotoD
<1>5. ASSUME NEW d \in Daemons, BindFails(d) PROVE Gone(x)'
  BY <1>5 DEF BindFails, Die, GotoD
<1>6. ASSUME NEW d \in Daemons, Chmod(d) PROVE Gone(x)'
  BY <1>6 DEF Chmod, GotoD
<1>7. ASSUME NEW d \in Daemons, WritePidFile(d) PROVE Gone(x)'
  BY <1>7 DEF WritePidFile, GotoD
<1>8. ASSUME NEW d \in Daemons, WritePidFails(d) PROVE Gone(x)'
  BY <1>8 DEF WritePidFails, GotoD
<1>9. ASSUME NEW d \in Daemons, CloseListener(d) PROVE Gone(x)'
  BY <1>9 DEF CloseListener, Die, GotoD
<1>10. ASSUME NEW d \in Daemons, Exit(d) PROVE Gone(x)'
  BY <1>10 DEF Exit, Alive, Die, GotoD
<1>11. ASSUME NEW d \in Daemons, Crash(d) PROVE Gone(x)'
  BY <1>11 DEF Crash, Alive, Die, GotoD
<1>12. ASSUME NEW c \in Clients, NEW k \in {"start", "session"}, CallBegin(c, k) PROVE Gone(x)'
  BY <1>12 DEF CallBegin, Begin, GotoC
<1>13. ASSUME NEW c \in Clients, NEW flags \in Flags, McpBegin(c, flags) PROVE Gone(x)'
  BY <1>13 DEF McpBegin, Begin, GotoC
<1>14. ASSUME NEW c \in Clients, Dial(c) PROVE Gone(x)'
  BY <1>14 DEF Dial, GotoC, Reachable
<1>15. ASSUME NEW c \in Clients, NEW d \in Daemons, SpawnDaemon(c, d) PROVE Gone(x)'
  BY <1>15 DEF SpawnDaemon, GotoC, GotoD, Environments
<1>16. ASSUME NEW c \in Clients, RetryDeadline(c) PROVE Gone(x)'
  BY <1>16 DEF RetryDeadline, Return, GotoC
<1>17. ASSUME NEW c \in Clients, StartFails(c) PROVE Gone(x)'
  BY <1>17 DEF StartFails, Return, GotoC
<1>18. ASSUME NEW c \in Clients, StartCreates(c) PROVE Gone(x)'
  BY <1>18 DEF StartCreates, GotoC, Answering
<1>19. ASSUME NEW c \in Clients, StartReturns(c) PROVE Gone(x)'
  BY <1>19 DEF StartReturns, Return, GotoC
<1>20. ASSUME NEW c \in Clients, StartEnds(c) PROVE Gone(x)'
  BY <1>20 DEF StartEnds, RemoveSession, Return, GotoC, Answering
<1>21. ASSUME NEW c \in Clients, NEW o \in Clients, HandleState(c, o) PROVE Gone(x)'
  BY <1>21 DEF HandleState, Return, GotoC
<1>22. ASSUME NEW c \in Clients, NEW o \in Clients, HandleStop(c, o) PROVE Gone(x)'
  BY <1>22 DEF HandleStop, RemoveSession, Names, Return, GotoC, Answering
<1>23. ASSUME NEW c \in Clients, NEW o \in Clients, ServeUnknown(c, o) PROVE Gone(x)'
  BY <1>23 DEF ServeUnknown, SessionNotFound, Return, GotoC
<1>24. ASSUME NEW c \in Clients, ServeNoSession(c) PROVE Gone(x)'
  BY <1>24 DEF ServeNoSession, Return, GotoC
<1>25. ASSUME NEW c \in Clients, ConnectionLost(c) PROVE Gone(x)'
  BY <1>25 DEF ConnectionLost, Return, GotoC
<1>26. ASSUME NEW c \in Clients, StopBegin(c) PROVE Gone(x)'
  BY <1>26 DEF StopBegin, Begin, GotoC
<1>27. ASSUME NEW c \in Clients, StatSocket(c) PROVE Gone(x)'
  BY <1>27 DEF StatSocket, GotoC
<1>28. ASSUME NEW c \in Clients, ReadPid(c) PROVE Gone(x)'
  BY <1>28 DEF ReadPid, GotoC
<1>29. ASSUME NEW c \in Clients, StopDial(c) PROVE Gone(x)'
  BY <1>29 DEF StopDial, GotoC, Reachable
<1>30. ASSUME NEW c \in Clients, StopNotRunning(c) PROVE Gone(x)'
  BY <1>30 DEF StopNotRunning, StopReturn, GotoC
<1>31. ASSUME NEW c \in Clients, Shutdown(c) PROVE Gone(x)'
  BY <1>31 DEF Shutdown, GotoC, Answering
<1>32. ASSUME NEW c \in Clients, AwaitReplaced(c) PROVE Gone(x)'
  BY <1>32 DEF AwaitReplaced, Replaced, StopReturn, GotoC
<1>33. ASSUME NEW c \in Clients, AwaitAbsent(c) PROVE Gone(x)'
  BY <1>33 DEF AwaitAbsent, GotoC, Reachable
<1>34. ASSUME NEW c \in Clients, AwaitPidGone(c) PROVE Gone(x)'
  BY <1>34 DEF AwaitPidGone, StopReturn, GotoC
<1>35. ASSUME NEW c \in Clients, AwaitPidAlive(c) PROVE Gone(x)'
  BY <1>35 DEF AwaitPidAlive, GotoC
<1>36. ASSUME NEW c \in Clients, StopDeadline(c) PROVE Gone(x)'
  BY <1>36 DEF StopDeadline, StopReturn, GotoC
<1> HIDE DEF Gone, Alive, None, Bound
<1> QED
  BY <1>1, <1>2, <1>3, <1>4, <1>5, <1>6, <1>7, <1>8, <1>9, <1>10, <1>11, <1>12, <1>13, <1>14,
     <1>15, <1>16, <1>17, <1>18, <1>19, <1>20, <1>21, <1>22, <1>23, <1>24, <1>25, <1>26, <1>27,
     <1>28, <1>29, <1>30, <1>31, <1>32, <1>33, <1>34, <1>35, <1>36
  DEF Next, DaemonStep, ClientStep

\* A daemon keeps the sessions it was given until they are ended or it is.
LEMMA HeldNext ==
  ASSUME TypeOK, FileInv, HeldInv, Next
  PROVE  HeldInv'
<1>a. /\ held \in [Daemons -> SUBSET Clients] /\ pc \in [Daemons -> Labels]
      /\ made \in [Clients -> {None} \cup Daemons]
      /\ conn \in [Clients -> {None} \cup Daemons]
      /\ \A c \in Clients : made[c] # None => pc[made[c]] \in Listened
  BY DEF TypeOK, FileInv
<1> USE <1>a DEF HeldInv, Alive, None, Listened, fileVars, daemonVars, clientVars, boundVars,
        pastVars
<1>1. ASSUME NEW d \in Daemons, Refuse(d) PROVE HeldInv'
  BY <1>1 DEF Refuse, Die, GotoD
<1>2. ASSUME NEW d \in Daemons, Check(d) PROVE HeldInv'
  BY <1>2 DEF Check, GotoD, LoadPolicyFromEnv
<1>3. ASSUME NEW d \in Daemons, Remove(d) PROVE HeldInv'
  BY <1>3 DEF Remove, GotoD
<1>4. ASSUME NEW d \in Daemons, Bind(d) PROVE HeldInv'
  BY <1>4 DEF Bind, GotoD
<1>5. ASSUME NEW d \in Daemons, BindFails(d) PROVE HeldInv'
  BY <1>5 DEF BindFails, Die, GotoD
<1>6. ASSUME NEW d \in Daemons, Chmod(d) PROVE HeldInv'
  BY <1>6 DEF Chmod, GotoD
<1>7. ASSUME NEW d \in Daemons, WritePidFile(d) PROVE HeldInv'
  BY <1>7 DEF WritePidFile, GotoD
<1>8. ASSUME NEW d \in Daemons, WritePidFails(d) PROVE HeldInv'
  BY <1>8 DEF WritePidFails, GotoD
<1>9. ASSUME NEW d \in Daemons, CloseListener(d) PROVE HeldInv'
  BY <1>9 DEF CloseListener, Die, GotoD
<1>10. ASSUME NEW d \in Daemons, Exit(d) PROVE HeldInv'
  BY <1>10 DEF Exit, Alive, Die, GotoD
<1>11. ASSUME NEW d \in Daemons, Crash(d) PROVE HeldInv'
  BY <1>11 DEF Crash, Alive, Die, GotoD
<1>12. ASSUME NEW c \in Clients, NEW d \in Daemons, SpawnDaemon(c, d) PROVE HeldInv'
  BY <1>12 DEF SpawnDaemon, GotoC, GotoD, Environments
<1>13. ASSUME NEW c \in Clients, StartCreates(c) PROVE HeldInv'
  BY <1>13 DEF StartCreates, GotoC, Answering
<1>14. ASSUME NEW c \in Clients, StartEnds(c) PROVE HeldInv'
  BY <1>14 DEF StartEnds, RemoveSession, Return, GotoC, Answering
<1>15. ASSUME NEW c \in Clients, NEW o \in Clients, HandleStop(c, o) PROVE HeldInv'
  BY <1>15 DEF HandleStop, RemoveSession, Names, Return, GotoC, Answering
<1>16. ASSUME NEW c \in Clients,
             \/ Dial(c) \/ RetryDeadline(c) \/ StartFails(c) \/ StartReturns(c)
             \/ ServeNoSession(c) \/ ConnectionLost(c) \/ StopBegin(c) \/ StatSocket(c)
             \/ ReadPid(c) \/ StopDial(c) \/ StopNotRunning(c) \/ Shutdown(c)
             \/ AwaitReplaced(c) \/ AwaitAbsent(c) \/ AwaitPidGone(c) \/ AwaitPidAlive(c)
             \/ StopDeadline(c)
             \/ \E k \in {"start", "session"} : CallBegin(c, k)
             \/ \E flags \in Flags : McpBegin(c, flags)
             \/ \E o \in Clients : HandleState(c, o)
             \/ \E o \in Clients : ServeUnknown(c, o)
      PROVE  UNCHANGED <<pc, held, made, ended>>
  BY <1>16 DEF CallBegin, Begin, McpBegin, Dial, RetryDeadline, Return, StartFails,
         StartReturns, HandleState, ServeUnknown, SessionNotFound, ServeNoSession,
         ConnectionLost, StopBegin, StatSocket, ReadPid, StopDial, StopNotRunning, StopReturn,
         Shutdown, AwaitReplaced, Replaced, AwaitAbsent, AwaitPidGone, AwaitPidAlive,
         StopDeadline
<1>17. CASE UNCHANGED <<pc, held, made, ended>>
  BY <1>17
<1> HIDE DEF HeldInv, Alive, None, Listened
<1> QED
  BY <1>1, <1>2, <1>3, <1>4, <1>5, <1>6, <1>7, <1>8, <1>9, <1>10, <1>11, <1>12, <1>13, <1>14,
     <1>15, <1>16, <1>17
  DEF Next, DaemonStep, ClientStep

\* An `sl-dbg mcp` exports every variable, so that nothing of the file is added to its
\* policy; a daemon reads the file once, and that is replaced as a whole.
LEMMA PolicyNext ==
  ASSUME TypeOK, PolicyInv, OnePolicy, Next
  PROVE  PolicyInv' /\ OnePolicy'
<1>a. /\ pc \in [Daemons -> Labels] /\ late \subseteq Daemons
      /\ policy \in [Daemons -> Policies] /\ policyfile \in Policies
      /\ cenv \in [Clients -> Policies]
  BY DEF TypeOK
<1>b. /\ NoVars \notin Exports
      /\ \A e \in Exports, f \in Policies : Overlay(e, f) = e
      /\ \A f \in Policies : Overlay(NoVars, f) = f
      /\ Overlay(UserEnv, NoVars) = UserEnv
  BY PolicyFacts
<1> USE <1>a, <1>b DEF PolicyInv, OnePolicy, fileVars, daemonVars, clientVars, boundVars,
        pastVars
<1>1. ASSUME NEW d \in Daemons, Refuse(d) PROVE PolicyInv' /\ OnePolicy'
  BY <1>1 DEF Refuse, Die, GotoD
<1>2. ASSUME NEW d \in Daemons, Check(d) PROVE PolicyInv' /\ OnePolicy'
  <2>1. /\ pc[d] = "check" /\ pc' = [pc EXCEPT ![d] = "remove"]
        /\ policy' = [policy EXCEPT ![d] = Overlay(@, policyfile)]
        /\ UNCHANGED <<policyfile, cenv, late>>
    BY <1>2 DEF Check, GotoD, LoadPolicyFromEnv
  <2>2. PolicyInv'
    BY <2>1
  <2>3. \A e \in Daemons \ {d} : pc'[e] = pc[e] /\ policy'[e] = policy[e]
    BY <2>1
  <2>4. policy'[d] = Overlay(policy[d], policyfile)
    BY <2>1
  <2>5. CASE policy[d] \in Exports
    BY <2>1, <2>3, <2>4, <2>5, <2>2
  <2>6. CASE policy[d] \in {NoVars, UserEnv} /\ policyfile \in Exports
    <3>1. policy'[d] \in Exports \cup ExportsBelowUser
      BY <2>4, <2>6 DEF ExportsBelowUser
    <3> QED
      BY <2>1, <2>2, <2>3, <3>1
  <2>7. CASE policy[d] \in {NoVars, UserEnv} /\ policyfile = NoVars
    <3>1. policy'[d] \in {NoVars, UserEnv} /\ d \notin late
      BY <2>1, <2>4, <2>7
    <3> QED
      BY <2>1, <2>2, <2>3, <3>1
  <2> QED
    BY <2>1, <2>5, <2>6, <2>7
<1>3. ASSUME NEW d \in Daemons, Remove(d) PROVE PolicyInv' /\ OnePolicy'
  BY <1>3 DEF Remove, GotoD
<1>4. ASSUME NEW d \in Daemons, Bind(d) PROVE PolicyInv' /\ OnePolicy'
  BY <1>4 DEF Bind, GotoD
<1>5. ASSUME NEW d \in Daemons, BindFails(d) PROVE PolicyInv' /\ OnePolicy'
  BY <1>5 DEF BindFails, Die, GotoD
<1>6. ASSUME NEW d \in Daemons, Chmod(d) PROVE PolicyInv' /\ OnePolicy'
  BY <1>6 DEF Chmod, GotoD
<1>7. ASSUME NEW d \in Daemons, WritePidFile(d) PROVE PolicyInv' /\ OnePolicy'
  BY <1>7 DEF WritePidFile, GotoD
<1>8. ASSUME NEW d \in Daemons, WritePidFails(d) PROVE PolicyInv' /\ OnePolicy'
  BY <1>8 DEF WritePidFails, GotoD
<1>9. ASSUME NEW d \in Daemons, CloseListener(d) PROVE PolicyInv' /\ OnePolicy'
  BY <1>9 DEF CloseListener, Die, GotoD
<1>10. ASSUME NEW d \in Daemons, Exit(d) PROVE PolicyInv' /\ OnePolicy'
  BY <1>10 DEF Exit, Alive, Die, GotoD
<1>11. ASSUME NEW d \in Daemons, Crash(d) PROVE PolicyInv' /\ OnePolicy'
  BY <1>11 DEF Crash, Alive, Die, GotoD
<1>12. ASSUME NEW c \in Clients, NEW k \in {"start", "session"}, CallBegin(c, k)
      PROVE  PolicyInv' /\ OnePolicy'
  BY <1>12 DEF CallBegin, Begin, GotoC
<1>13. ASSUME NEW c \in Clients, NEW flags \in Flags, McpBegin(c, flags)
      PROVE  PolicyInv' /\ OnePolicy'
  BY <1>13 DEF McpBegin, Begin, GotoC, Exports
<1>14. ASSUME NEW c \in Clients, NEW d \in Daemons, SpawnDaemon(c, d)
      PROVE  PolicyInv' /\ OnePolicy'
  BY <1>14 DEF SpawnDaemon, GotoC, GotoD, Environments
<1>15. ASSUME NEW c \in Clients, RetryDeadline(c) PROVE PolicyInv' /\ OnePolicy'
  BY <1>15 DEF RetryDeadline, Return, GotoC
<1>16. ASSUME NEW c \in Clients, StartFails(c) PROVE PolicyInv' /\ OnePolicy'
  BY <1>16 DEF StartFails, Return, GotoC
<1>17. ASSUME NEW c \in Clients, StartReturns(c) PROVE PolicyInv' /\ OnePolicy'
  BY <1>17 DEF StartReturns, Return, GotoC
<1>18. ASSUME NEW c \in Clients, StartEnds(c) PROVE PolicyInv' /\ OnePolicy'
  BY <1>18 DEF StartEnds, RemoveSession, Return, GotoC, Answering
<1>19. ASSUME NEW c \in Clients, NEW o \in Clients, HandleState(c, o)
      PROVE  PolicyInv' /\ OnePolicy'
  BY <1>19 DEF HandleState, Return, GotoC
<1>20. ASSUME NEW c \in Clients, NEW o \in Clients, HandleStop(c, o)
      PROVE  PolicyInv' /\ OnePolicy'
  BY <1>20 DEF HandleStop, RemoveSession, Names, Return, GotoC, Answering
<1>21. ASSUME NEW c \in Clients, NEW o \in Clients, ServeUnknown(c, o)
      PROVE  PolicyInv' /\ OnePolicy'
  BY <1>21 DEF ServeUnknown, SessionNotFound, Return, GotoC
<1>22. ASSUME NEW c \in Clients, ServeNoSession(c) PROVE PolicyInv' /\ OnePolicy'
  BY <1>22 DEF ServeNoSession, Return, GotoC
<1>23. ASSUME NEW c \in Clients, ConnectionLost(c) PROVE PolicyInv' /\ OnePolicy'
  BY <1>23 DEF ConnectionLost, Return, GotoC
<1>24. ASSUME NEW c \in Clients,
             \/ StartCreates(c) \/ StopBegin(c) \/ StatSocket(c) \/ ReadPid(c)
             \/ StopDial(c) \/ StopNotRunning(c) \/ Shutdown(c) \/ AwaitReplaced(c)
             \/ AwaitAbsent(c) \/ AwaitPidGone(c) \/ AwaitPidAlive(c) \/ StopDeadline(c)
      PROVE  UNCHANGED <<policyfile, pc, policy, late, cenv>>
  BY <1>24 DEF StartCreates, StopBegin, Begin, StatSocket, ReadPid, StopDial,
         StopNotRunning, StopReturn, Shutdown, AwaitReplaced, Replaced, AwaitAbsent,
         AwaitPidGone, AwaitPidAlive, StopDeadline
<1>25. CASE UNCHANGED <<policyfile, pc, policy, late, cenv>>
  BY <1>25
<1>26. ASSUME NEW c \in Clients, Dial(c) PROVE PolicyInv' /\ OnePolicy'
  BY <1>26 DEF Dial, GotoC
<1> HIDE DEF PolicyInv, OnePolicy
<1> QED
  BY <1>1, <1>2, <1>3, <1>4, <1>5, <1>6, <1>7, <1>8, <1>9, <1>10, <1>11, <1>12, <1>13, <1>14,
     <1>15, <1>16, <1>17, <1>18, <1>19, <1>20, <1>21, <1>22, <1>23, <1>24, <1>25, <1>26
  DEF Next, DaemonStep, ClientStep

\* The pid check keeps daemons apart as long as no two make it at once.
LEMMA ExclusiveNext ==
  ASSUME TypeOK, FileInv, Exclusive, Next
  PROVE  Exclusive'
<1>a. /\ sock \in {None} \cup Daemons /\ pidfile \in {None} \cup Daemons
      /\ pc \in [Daemons -> Labels] /\ overlapped \in BOOLEAN
  BY DEF TypeOK
<1>b. pidfile # None => pc[pidfile] \in {"serving", "dead"}
  BY DEF FileInv, Announced
<1> USE <1>a, <1>b, NoPid DEF Exclusive, Starting, Alive, fileVars, daemonVars,
        clientVars, boundVars, pastVars
<1>1. ASSUME NEW d \in Daemons, Refuse(d) PROVE Exclusive'
  BY <1>1 DEF Refuse, Die, GotoD
<1>2. ASSUME NEW d \in Daemons, Check(d) PROVE Exclusive'
  BY <1>2 DEF Check, GotoD, LoadPolicyFromEnv
<1>3. ASSUME NEW d \in Daemons, Remove(d) PROVE Exclusive'
  BY <1>3 DEF Remove, GotoD
<1>4. ASSUME NEW d \in Daemons, Bind(d) PROVE Exclusive'
  <2>1. pc[d] = "bind" /\ sock = None /\ pc' = [pc EXCEPT ![d] = "chmod"]
    BY <1>4 DEF Bind, GotoD
  <2>2. UNCHANGED <<pidfile, overlapped>> /\ sock' = d
    BY <1>4 DEF Bind
  <2> SUFFICES ASSUME ~overlapped PROVE Exclusive'
    BY <2>2
  <2>3. \A e \in Daemons : pc[e] \notin {"chmod", "write", "closing", "serving"}
    BY <2>1
  <2>4. ~Alive(pidfile) /\ ~Alive(pidfile)'
    BY <2>1, <2>2
  <2>5. \A e \in Daemons : Starting(e) => e = d
    BY <2>1
  <2>6. \A e \in Daemons : Starting(e)' => e = d
    BY <2>1, <2>5
  <2>7. \A e \in Daemons :
          pc'[e] \in {"chmod", "write", "closing", "serving"} => e = d /\ sock' = d
    BY <2>1, <2>2, <2>3
  <2>8. \A e \in Daemons : pc'[e] # "serving"
    BY <2>1, <2>3
  <2> QED
    BY <2>4, <2>6, <2>7, <2>8
<1>5. ASSUME NEW d \in Daemons, BindFails(d) PROVE Exclusive'
  BY <1>5 DEF BindFails, Die, GotoD
<1>6. ASSUME NEW d \in Daemons, Chmod(d) PROVE Exclusive'
  BY <1>6 DEF Chmod, GotoD
<1>7. ASSUME NEW d \in Daemons, WritePidFile(d) PROVE Exclusive'
  BY <1>7 DEF WritePidFile, GotoD
<1>8. ASSUME NEW d \in Daemons, WritePidFails(d) PROVE Exclusive'
  BY <1>8 DEF WritePidFails, GotoD
<1>9. ASSUME NEW d \in Daemons, CloseListener(d) PROVE Exclusive'
  <2>1. pc[d] = "closing" /\ pc' = [pc EXCEPT ![d] = "dead"] /\ UNCHANGED <<pidfile, overlapped>>
    BY <1>9 DEF CloseListener, Die, GotoD
  <2> SUFFICES ASSUME ~overlapped PROVE Exclusive'
    BY <2>1
  <2>2. \A e \in Daemons : pc[e] \in {"chmod", "write", "closing", "serving"} => e = d
    BY <2>1
  <2>3. \A e \in Daemons : pc'[e] \notin {"chmod", "write", "closing", "serving"}
    BY <2>1, <2>2
  <2>4. \A e \in Daemons : Starting(e) => e = d
    BY <2>1
  <2>5. \A e \in Daemons : ~Starting(e)'
    BY <2>1, <2>4
  <2> QED
    BY <2>3, <2>5
<1>10. ASSUME NEW d \in Daemons, Exit(d) PROVE Exclusive'
  BY <1>10 DEF Exit, Alive, Die, GotoD
<1>11. ASSUME NEW d \in Daemons, Crash(d) PROVE Exclusive'
  BY <1>11 DEF Crash, Alive, Die, GotoD
<1>12. ASSUME NEW c \in Clients, NEW d \in Daemons, SpawnDaemon(c, d) PROVE Exclusive'
  BY <1>12 DEF SpawnDaemon, GotoC, GotoD, Environments
<1>13. ASSUME NEW c \in Clients,
             \/ Dial(c) \/ RetryDeadline(c) \/ StartFails(c) \/ StartCreates(c)
             \/ StartReturns(c) \/ StartEnds(c) \/ ServeNoSession(c) \/ ConnectionLost(c)
             \/ StopBegin(c) \/ StatSocket(c) \/ ReadPid(c) \/ StopDial(c) \/ StopNotRunning(c)
             \/ Shutdown(c) \/ AwaitReplaced(c) \/ AwaitAbsent(c) \/ AwaitPidGone(c)
             \/ AwaitPidAlive(c) \/ StopDeadline(c)
             \/ \E k \in {"start", "session"} : CallBegin(c, k)
             \/ \E flags \in Flags : McpBegin(c, flags)
             \/ \E o \in Clients : HandleState(c, o)
             \/ \E o \in Clients : HandleStop(c, o)
             \/ \E o \in Clients : ServeUnknown(c, o)
      PROVE  UNCHANGED <<sock, pidfile, pc, overlapped>>
  BY <1>13 DEF CallBegin, Begin, McpBegin, Dial, RetryDeadline, Return, StartFails,
         StartCreates, StartReturns, StartEnds, RemoveSession, HandleState, HandleStop,
         ServeUnknown, SessionNotFound, ServeNoSession, ConnectionLost, StopBegin, StatSocket,
         ReadPid, StopDial, StopNotRunning, StopReturn, Shutdown, AwaitReplaced, Replaced,
         AwaitAbsent, AwaitPidGone, AwaitPidAlive, StopDeadline
<1>14. CASE UNCHANGED <<sock, pidfile, pc, overlapped>>
  BY <1>14
<1> HIDE DEF Exclusive, Starting, Alive
<1> QED
  BY <1>1, <1>2, <1>3, <1>4, <1>5, <1>6, <1>7, <1>8, <1>9, <1>10, <1>11, <1>12, <1>13, <1>14
  DEF Next, DaemonStep, ClientStep

\* The daemon that answers is the only one, so the one that made the session, and
\* would have it, has ended.
LEMMA LostNext ==
  ASSUME Inv, Next
  PROVE  LostOnlyWithDaemon'
<1> DEFINE Lost(y) ==
      ~overlapped /\ result[y] \in {"respawned", "notfound"} =>
        about[y] \in ended \/ ~Alive(made[about[y]])
<1> SUFFICES ASSUME NEW x \in Clients PROVE Lost(x)'
  BY DEF LostOnlyWithDaemon
<1>a. /\ pc \in [Daemons -> Labels] /\ cpc \in [Clients -> CLabels]
      /\ made \in [Clients -> {None} \cup Daemons] /\ about \in [Clients -> Clients]
      /\ conn \in [Clients -> {None} \cup Daemons] /\ ended \subseteq Clients
      /\ result = [c \in Clients |-> result[c]] /\ overlapped \in BOOLEAN
  BY DEF Inv, TypeOK
<1>b. /\ \A y \in Clients : made[y] # None => pc[made[y]] \in Listened
      /\ cpc[x] # "idle" => result[x] = "none"
      /\ Lost(x)
  BY DEF Inv, FileInv, CallInv, LostOnlyWithDaemon
<1> USE <1>a, <1>b DEF Alive, Listened, fileVars, daemonVars, clientVars, boundVars, pastVars
<1>1. ASSUME NEW d \in Daemons, Refuse(d) PROVE Lost(x)'
  BY <1>1 DEF Refuse, Die, GotoD
<1>2. ASSUME NEW d \in Daemons, Check(d) PROVE Lost(x)'
  BY <1>2 DEF Check, GotoD, LoadPolicyFromEnv
<1>3. ASSUME NEW d \in Daemons, Remove(d) PROVE Lost(x)'
  BY <1>3 DEF Remove, GotoD
<1>4. ASSUME NEW d \in Daemons, Bind(d) PROVE Lost(x)'
  BY <1>4 DEF Bind, GotoD
<1>5. ASSUME NEW d \in Daemons, BindFails(d) PROVE Lost(x)'
  BY <1>5 DEF BindFails, Die, GotoD
<1>6. ASSUME NEW d \in Daemons, Chmod(d) PROVE Lost(x)'
  BY <1>6 DEF Chmod, GotoD
<1>7. ASSUME NEW d \in Daemons, WritePidFile(d) PROVE Lost(x)'
  BY <1>7 DEF WritePidFile, GotoD
<1>8. ASSUME NEW d \in Daemons, WritePidFails(d) PROVE Lost(x)'
  BY <1>8 DEF WritePidFails, GotoD
<1>9. ASSUME NEW d \in Daemons, CloseListener(d) PROVE Lost(x)'
  BY <1>9 DEF CloseListener, Die, GotoD
<1>10. ASSUME NEW d \in Daemons, Exit(d) PROVE Lost(x)'
  BY <1>10 DEF Exit, Alive, Die, GotoD
<1>11. ASSUME NEW d \in Daemons, Crash(d) PROVE Lost(x)'
  BY <1>11 DEF Crash, Alive, Die, GotoD
<1>12. ASSUME NEW c \in Clients, NEW k \in {"start", "session"}, CallBegin(c, k) PROVE Lost(x)'
  BY <1>12 DEF CallBegin, Begin, GotoC
<1>13. ASSUME NEW c \in Clients, NEW flags \in Flags, McpBegin(c, flags) PROVE Lost(x)'
  BY <1>13 DEF McpBegin, Begin, GotoC
<1>14. ASSUME NEW c \in Clients, NEW d \in Daemons, SpawnDaemon(c, d) PROVE Lost(x)'
  BY <1>14 DEF SpawnDaemon, GotoC, GotoD, Environments
<1>15. ASSUME NEW c \in Clients, RetryDeadline(c) PROVE Lost(x)'
  BY <1>15 DEF RetryDeadline, Return, GotoC
<1>16. ASSUME NEW c \in Clients, StartFails(c) PROVE Lost(x)'
  BY <1>16 DEF StartFails, Return, GotoC
<1>17. ASSUME NEW c \in Clients, StartCreates(c) PROVE Lost(x)'
  <2>1. /\ UNCHANGED <<pc, overlapped, ended, about, result>>
        /\ made' = [made EXCEPT ![c] = conn[c]] /\ cmd[c] = "start" /\ cpc[c] = "connected"
    BY <1>17 DEF StartCreates
  <2>2. /\ made[c] = None
        /\ result[x] \in {"respawned", "notfound"} => about[x] # c
    BY <2>1 DEF Inv, CallInv
  <2> QED
    BY <2>1, <2>2
<1>18. ASSUME NEW c \in Clients, StartReturns(c) PROVE Lost(x)'
  BY <1>18 DEF StartReturns, Return, GotoC
<1>19. ASSUME NEW c \in Clients, StartEnds(c) PROVE Lost(x)'
  BY <1>19 DEF StartEnds, RemoveSession, Return, GotoC, Answering
<1>20. ASSUME NEW c \in Clients, NEW o \in Clients, HandleState(c, o) PROVE Lost(x)'
  BY <1>20 DEF HandleState, Return, GotoC
<1>21. ASSUME NEW c \in Clients, NEW o \in Clients, HandleStop(c, o) PROVE Lost(x)'
  BY <1>21 DEF HandleStop, RemoveSession, Names, Return, GotoC, Answering
<1>22. ASSUME NEW c \in Clients, NEW o \in Clients, ServeUnknown(c, o) PROVE Lost(x)'
  <2>1. /\ UNCHANGED <<pc, overlapped, made, ended>> /\ cpc[c] = "connected"
        /\ Answering(conn[c]) /\ made[o] # None /\ o \notin held[conn[c]]
        /\ about' = [about EXCEPT ![c] = o]
        /\ \A y \in Clients \ {c} : result'[y] = result[y]
    BY <1>22 DEF ServeUnknown, SessionNotFound, Names, Return
  <2>2. CASE x # c
    BY <2>1, <2>2
  <2>3. CASE x = c
    <3> SUFFICES ASSUME ~overlapped, Alive(made[o]), o \notin ended PROVE FALSE
      BY <2>1, <2>3
    <3>1. o \in held[made[o]] /\ pc[made[o]] \in Listened
      BY <2>1 DEF Inv, HeldInv, FileInv
    <3>2. conn[c] \in Daemons /\ made[o] \in Daemons /\ made[o] # conn[c]
      BY <2>1, <3>1 DEF Answering
    <3>3. /\ pc[conn[c]] \in {"write", "closing", "serving"}
          /\ pc[made[o]] \in {"write", "closing", "serving"}
      BY <2>1, <3>1, <3>2 DEF Answering
    <3> QED
      BY <3>2, <3>3 DEF Inv, Exclusive
  <2> QED
    BY <2>2, <2>3
<1>23. ASSUME NEW c \in Clients, ServeNoSession(c) PROVE Lost(x)'
  BY <1>23 DEF ServeNoSession, Return, GotoC
<1>24. ASSUME NEW c \in Clients, ConnectionLost(c) PROVE Lost(x)'
  BY <1>24 DEF ConnectionLost, Return, GotoC
<1>25. ASSUME NEW c \in Clients, StopBegin(c) PROVE Lost(x)'
  BY <1>25 DEF StopBegin, Begin, GotoC
<1>26. ASSUME NEW c \in Clients, StopNotRunning(c) PROVE Lost(x)'
  BY <1>26 DEF StopNotRunning, StopReturn, GotoC
<1>27. ASSUME NEW c \in Clients, AwaitReplaced(c) PROVE Lost(x)'
  BY <1>27 DEF AwaitReplaced, Replaced, StopReturn, GotoC
<1>28. ASSUME NEW c \in Clients, AwaitPidGone(c) PROVE Lost(x)'
  BY <1>28 DEF AwaitPidGone, StopReturn, GotoC
<1>29. ASSUME NEW c \in Clients, StopDeadline(c) PROVE Lost(x)'
  BY <1>29 DEF StopDeadline, StopReturn, GotoC
<1>30. ASSUME NEW c \in Clients,
             \/ Dial(c) \/ StatSocket(c) \/ ReadPid(c) \/ StopDial(c) \/ Shutdown(c)
             \/ AwaitAbsent(c) \/ AwaitPidAlive(c)
      PROVE  UNCHANGED <<pc, about, result, made, ended, overlapped>>
  BY <1>30 DEF Dial, StatSocket, ReadPid, StopDial, Shutdown, AwaitAbsent, AwaitPidAlive
<1>31. CASE UNCHANGED <<pc, about, result, made, ended, overlapped>>
  BY <1>31
<1> HIDE DEF Alive, Listened
<1> QED
  BY <1>1, <1>2, <1>3, <1>4, <1>5, <1>6, <1>7, <1>8, <1>9, <1>10, <1>11, <1>12, <1>13, <1>14,
     <1>15, <1>16, <1>17, <1>18, <1>19, <1>20, <1>21, <1>22, <1>23, <1>24, <1>25, <1>26, <1>27,
     <1>28, <1>29, <1>30, <1>31
  DEF Next, DaemonStep, ClientStep

\* A turn of the loop would return: the old socket does not come back, and a live pid is
\* that of the daemon at the socket.
LEMMA StuckNext ==
  ASSUME Inv, Next
  PROVE  StopNotStuck'
<1> DEFINE Stuck(y) == result[y] = "timeout" => overlapped \/ orig[y] = None
<1> SUFFICES ASSUME NEW x \in Clients PROVE Stuck(x)'
  BY DEF StopNotStuck
<1>a. /\ cpc \in [Clients -> CLabels] /\ orig \in [Clients -> {None} \cup Daemons]
      /\ result = [c \in Clients |-> result[c]] /\ overlapped \in BOOLEAN
  BY DEF Inv, TypeOK
<1>b. /\ cpc[x] # "idle" => result[x] = "none"
      /\ result[x] = "timeout" => overlapped \/ orig[x] = None
  BY DEF Inv, CallInv, StopNotStuck
<1> USE <1>a, <1>b DEF fileVars, daemonVars, clientVars, boundVars, pastVars
<1>1. ASSUME NEW d \in Daemons, Check(d) PROVE Stuck(x)'
  BY <1>1 DEF Check, GotoD, LoadPolicyFromEnv
<1>2. ASSUME NEW c \in Clients, NEW k \in {"start", "session"}, CallBegin(c, k) PROVE Stuck(x)'
  BY <1>2 DEF CallBegin, Begin, GotoC
<1>3. ASSUME NEW c \in Clients, NEW flags \in Flags, McpBegin(c, flags) PROVE Stuck(x)'
  BY <1>3 DEF McpBegin, Begin, GotoC
<1>4. ASSUME NEW c \in Clients, RetryDeadline(c) PROVE Stuck(x)'
  BY <1>4 DEF RetryDeadline, Return, GotoC
<1>5. ASSUME NEW c \in Clients, StartFails(c) PROVE Stuck(x)'
  BY <1>5 DEF StartFails, Return, GotoC
<1>6. ASSUME NEW c \in Clients, StartReturns(c) PROVE Stuck(x)'
  BY <1>6 DEF StartReturns, Return, GotoC
<1>7. ASSUME NEW c \in Clients, StartEnds(c) PROVE Stuck(x)'
  BY <1>7 DEF StartEnds, RemoveSession, Return, GotoC, Answering
<1>8. ASSUME NEW c \in Clients, NEW o \in Clients, HandleState(c, o) PROVE Stuck(x)'
  BY <1>8 DEF HandleState, Return, GotoC
<1>9. ASSUME NEW c \in Clients, NEW o \in Clients, HandleStop(c, o) PROVE Stuck(x)'
  BY <1>9 DEF HandleStop, RemoveSession, Names, Return, GotoC, Answering
<1>10. ASSUME NEW c \in Clients, NEW o \in Clients, ServeUnknown(c, o) PROVE Stuck(x)'
  BY <1>10 DEF ServeUnknown, SessionNotFound, Return, GotoC
<1>11. ASSUME NEW c \in Clients, ServeNoSession(c) PROVE Stuck(x)'
  BY <1>11 DEF ServeNoSession, Return, GotoC
<1>12. ASSUME NEW c \in Clients, ConnectionLost(c) PROVE Stuck(x)'
  BY <1>12 DEF ConnectionLost, Return, GotoC
<1>13. ASSUME NEW c \in Clients, StopBegin(c) PROVE Stuck(x)'
  BY <1>13 DEF StopBegin, Begin, GotoC
<1>14. ASSUME NEW c \in Clients, StatSocket(c) PROVE Stuck(x)'
  BY <1>14 DEF StatSocket, GotoC
<1>15. ASSUME NEW c \in Clients, StopNotRunning(c) PROVE Stuck(x)'
  BY <1>15 DEF StopNotRunning, StopReturn, GotoC
<1>16. ASSUME NEW c \in Clients, AwaitReplaced(c) PROVE Stuck(x)'
  BY <1>16 DEF AwaitReplaced, Replaced, StopReturn, GotoC
<1>17. ASSUME NEW c \in Clients, AwaitPidGone(c) PROVE Stuck(x)'
  BY <1>17 DEF AwaitPidGone, StopReturn, GotoC
<1>18. ASSUME NEW c \in Clients, StopDeadline(c) PROVE Stuck(x)'
  <2>1. UNCHANGED <<overlapped, orig>> /\ result' = [result EXCEPT ![c] = "timeout"]
    BY <1>18 DEF StopDeadline, StopReturn
  <2>2. CASE x # c
    BY <2>1, <2>2
  <2>3. CASE x = c
    <3> SUFFICES ASSUME ~overlapped, orig[c] # None PROVE FALSE
      BY <2>1, <2>3
    <3>1. /\ sock \in {None, orig[c]} /\ ~Alive(conn[c]) /\ cpc[c] = "await"
          /\ Reachable \/ Alive(pid[c])
      BY <1>18 DEF StopDeadline, Replaced
    <3>2. CASE Reachable
      <4>1. sock = orig[c] /\ Alive(sock) /\ conn[c] # None
        BY <3>1, <3>2 DEF Inv, CallInv, Reachable, Alive
      <4> QED
        BY <3>1, <4>1 DEF Inv, OrigInv
    <3>3. CASE ~Reachable /\ Alive(pid[c])
      <4>1. pid[c] \in Daemons /\ pc[pid[c]] = "serving"
        BY <3>3 DEF Inv, TypeOK, FileInv, Announced, Alive
      <4>2. sock = pid[c] /\ sock # None
        BY <4>1, NoPid DEF Inv, Exclusive
      <4> QED
        BY <3>3, <4>1, <4>2 DEF Reachable
    <3> QED
      BY <3>1, <3>2, <3>3
  <2> QED
    BY <2>2, <2>3
<1>19. ASSUME NEW d \in Daemons,
             \/ Refuse(d) \/ Remove(d) \/ Bind(d) \/ BindFails(d) \/ Chmod(d) \/ WritePidFile(d)
             \/ WritePidFails(d) \/ CloseListener(d) \/ Exit(d) \/ Crash(d)
      PROVE  UNCHANGED <<orig, result, overlapped>>
  BY <1>19 DEF Refuse, Die, Remove, Bind, BindFails, Chmod, WritePidFile, WritePidFails,
         CloseListener, Exit, Crash
<1>20. ASSUME NEW c \in Clients,
             \/ Dial(c) \/ StartCreates(c) \/ ReadPid(c) \/ StopDial(c) \/ Shutdown(c)
             \/ AwaitAbsent(c) \/ AwaitPidAlive(c)
             \/ \E d \in Daemons : SpawnDaemon(c, d)
      PROVE  UNCHANGED <<orig, result, overlapped>>
  BY <1>20 DEF Dial, SpawnDaemon, StartCreates, ReadPid, StopDial, Shutdown, AwaitAbsent,
         AwaitPidAlive
<1>21. CASE UNCHANGED <<orig, result, overlapped>>
  BY <1>21
<1> QED
  BY <1>1, <1>2, <1>3, <1>4, <1>5, <1>6, <1>7, <1>8, <1>9, <1>10, <1>11, <1>12, <1>13, <1>14,
     <1>15, <1>16, <1>17, <1>18, <1>19, <1>20, <1>21
  DEF Next, DaemonStep, ClientStep

-----------------------------------------------------------------------------
(* The theorems.                                                           *)

\* Nothing has happened yet.
LEMMA InvInit == Init => Inv
<1> SUFFICES ASSUME Init PROVE Inv
  OBVIOUS
<1>1. TypeOK
  <2>1. 0 \in 0..MaxCalls /\ 0 \in 0..MaxFaults
    BY DaemonAssumption
  <2> QED
    BY <2>1, PolicyFacts DEF Init, TypeOK, Labels, CLabels, Commands
<1>2. FileInv /\ CallInv /\ OrigInv /\ GoneInv /\ HeldInv
  BY DEF Init, FileInv, CallInv, OrigInv, GoneInv, Gone, HeldInv, Alive, None
<1>3. PolicyInv /\ Exclusive
  BY DEF Init, PolicyInv, Exclusive, Starting
<1>4. LostOnlyWithDaemon /\ StopNotStuck /\ OnePolicy
  BY DEF Init, LostOnlyWithDaemon, StopNotStuck, OnePolicy
<1> QED
  BY <1>1, <1>2, <1>3, <1>4 DEF Inv

\* Every step keeps all of it.
LEMMA InvNext == Inv /\ [Next]_vars => Inv'
<1> SUFFICES ASSUME Inv, [Next]_vars PROVE Inv'
  OBVIOUS
<1>1. CASE Next
  BY <1>1, TypeNext, FileNext, CallNext, OrigNext, GoneNext, HeldNext, PolicyNext,
     ExclusiveNext, LostNext, StuckNext
  DEF Inv
<1>2. CASE UNCHANGED vars
  <2> USE <1>2 DEF Inv, vars, fileVars, daemonVars, clientVars, boundVars, pastVars
  <2>1. TypeOK'
    BY DEF TypeOK
  <2>2. FileInv' /\ CallInv' /\ OrigInv' /\ HeldInv'
    BY DEF FileInv, CallInv, OrigInv, HeldInv, Alive
  <2>3. GoneInv' /\ LostOnlyWithDaemon'
    BY DEF GoneInv, Gone, LostOnlyWithDaemon, Alive
  <2>4. PolicyInv' /\ StopNotStuck' /\ OnePolicy'
    BY DEF PolicyInv, StopNotStuck, OnePolicy
  <2>5. Exclusive'
    BY DEF Exclusive, Starting, Alive
  <2> QED
    BY <2>1, <2>2, <2>3, <2>4, <2>5
<1> QED
  BY <1>1, <1>2

\* The invariant holds at all times.
LEMMA Invariance == Spec => []Inv
<1> QED
  BY InvInit, InvNext, PTL DEF Spec

\* Every variable of the daemon, its files and its clients has its type.
THEOREM TypeCorrect == Spec => []TypeOK
<1>1. Inv => TypeOK
  BY DEF Inv
<1> QED
  BY Invariance, <1>1, PTL

\* Run and Dial agree: a live daemon in the pid file that blocks every other one can
\* be reached at the socket, however many daemons crash and fail to start in between,
\* as long as no two pass the pid check together.
THEOREM NeverWedged == Spec => []NotWedged
<1>1. Inv => NotWedged
  BY DEF Inv, TypeOK, Exclusive, NotWedged, Alive, None
<1> QED
  BY Invariance, <1>1, PTL

\* Run's "another daemon is running": as long as no two daemons pass the pid check
\* together, at most one of them serves.
THEOREM ServesAlone == Spec => [](~overlapped => OneDaemon)
<1>1. Inv => (~overlapped => OneDaemon)
  BY DEF Inv, Exclusive, OneDaemon
<1> QED
  BY Invariance, <1>1, PTL

\* sessionNotFound tells the truth about a session that was created: it was stopped, or
\* ended during its start, or the daemon that created it has ended.
THEOREM SessionsKept == Spec => []LostOnlyWithDaemon
<1>1. Inv => LostOnlyWithDaemon
  BY DEF Inv
<1> QED
  BY Invariance, <1>1, PTL

\* When stopRunningDaemon reports success nobody can connect to the old daemon any
\* more, even if daemons came up at the same time.
THEOREM StopIsFinal == Spec => []StopReleases
<1>1. Inv => StopReleases
  BY DEF Inv, GoneInv, Gone, StopReleases
<1> QED
  BY Invariance, <1>1, PTL

\* stopRunningDaemon does not time out on a daemon that has ended.
THEOREM StopReturns == Spec => []StopNotStuck
<1>1. Inv => StopNotStuck
  BY DEF Inv
<1> QED
  BY Invariance, <1>1, PTL

\* LoadPolicyFromEnv gives a daemon the whole policy of one `sl-dbg mcp`, below what the
\* spawning terminal has set by hand, and that of the file if one had been saved.
THEOREM PolicyWhole == Spec => []OnePolicy
<1>1. Inv => OnePolicy
  BY DEF Inv
<1> QED
  BY Invariance, <1>1, PTL

=============================================================================
