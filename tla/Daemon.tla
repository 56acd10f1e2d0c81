------------------------------- MODULE Daemon -------------------------------
(***************************************************************************)
(* The life cycle of the daemon process and what the command line does to  *)
(* reach it: Run of server.go, the Unix socket and the pid file of ipc.go, *)
(* dialOrSpawn of daemon_client.go, `daemon stop` of daemon_cmd.go, and    *)
(* the policy that mcp_safe.go leaves in a file for daemons to come.       *)
(*                                                                         *)
(* Daemon processes are numbered by pid and never reuse one.  A socket     *)
(* file is identified by the daemon that bound it, as os.SameFile does by  *)
(* inode.  Every system call on the shared files is a step of its own, and *)
(* a process may die between any two.  Nothing is removed when a daemon    *)
(* ends: os.Exit runs no deferred call, so the socket and the pid file     *)
(* stay behind.  The files and the kernel's sockets are external.          *)
(***************************************************************************)
EXTENDS Integers, FiniteSets

CONSTANTS
  Clients,      \* processes of the command line, the MCP server among them
  Keys,         \* the SL_DBG_* variables that make up a policy
  Values,       \* what they may be set to
  Unset,        \* or not set at all
  Flags,        \* the options an `sl-dbg mcp` may be given
  Defaults,     \* and what it takes for those that are missing
  UserEnv,      \* variables set by hand in some terminal
  MaxDaemons,   \* bound: daemon processes ever spawned
  MaxFaults,    \* bound: daemons that die of something else than a shutdown
  MaxCalls      \* bound: commands

ASSUME DaemonAssumption ==
  MaxDaemons \in Nat /\ MaxFaults \in Nat /\ MaxCalls \in Nat

\* A policy gives some of the variables a value.
Policies == [Keys -> Values \cup {Unset}]
NoVars   == [k \in Keys |-> Unset]

ASSUME PolicyAssumption ==
  /\ Keys # {} /\ Unset \notin Values
  /\ Flags \subseteq Policies /\ Defaults \in [Keys -> Values] /\ UserEnv \in Policies

VARIABLES
  sock, pidfile, policyfile,        \* the files
  pc, quitting, policy, held,       \* per daemon: control, is its exit scheduled?, its
                                    \* environment, its sessions, named for their owners
  late,                             \* daemons spawned after a policy was saved
  cpc, cmd, cenv, conn, orig, pid, about, result,   \* per client
  calls, faults,                    \* so far
  made,                             \* which daemon created a client's session
  ended,                            \* sessions that were stopped, or ended during their start
  overlapped                        \* a daemon passed the pid check while another was starting

fileVars   == <<sock, pidfile, policyfile>>
daemonVars == <<pc, quitting, policy, held, late>>
clientVars == <<cpc, cmd, cenv, conn, orig, pid, about, result>>
boundVars  == <<calls, faults>>
pastVars   == <<made, ended, overlapped>>
vars == <<fileVars, daemonVars, clientVars, boundVars, pastVars>>

Daemons == 1..MaxDaemons
None    == 0

Labels  == {"none", "check", "remove", "bind", "chmod", "write",
            "closing", "serving", "dead"}
CLabels == {"idle", "dial", "retry", "connected", "stat", "readpid", "probe", "await",
            "absent", "starting"}
Commands == {"none", "start", "session", "stop"}

Alive(d) == d # None /\ pc[d] \notin {"none", "dead"}

\* Past the pid check, and neither announced in the pid file nor given up.
Starting(d) == pc[d] \in {"remove", "bind", "chmod", "write", "closing"}

\* What ipc.Dial finds: the path names the socket of a process that listens.
Reachable ==
  sock # None /\ pc[sock] \in {"chmod", "write", "closing", "serving"}

\* handleConn answers: Listen has started its accept loop.
Answering(d) == d # None /\ pc[d] \in {"write", "closing", "serving"}

Init ==
  /\ sock = None /\ pidfile = None /\ policyfile = NoVars
  /\ pc = [d \in Daemons |-> "none"] /\ quitting = [d \in Daemons |-> FALSE]
  /\ policy = [d \in Daemons |-> NoVars] /\ held = [d \in Daemons |-> {}]
  /\ late = {}
  /\ cpc = [c \in Clients |-> "idle"] /\ cmd = [c \in Clients |-> "none"]
  /\ cenv = [c \in Clients |-> NoVars] /\ conn = [c \in Clients |-> None]
  /\ orig = [c \in Clients |-> None] /\ pid = [c \in Clients |-> None]
  /\ about = [c \in Clients |-> c] /\ result = [c \in Clients |-> "none"]
  /\ calls = 0 /\ faults = 0
  /\ made = [c \in Clients |-> None] /\ ended = {}
  /\ overlapped = FALSE

-----------------------------------------------------------------------------
(* Run: a daemon comes up.                                                 *)

GotoD(d, l) == pc' = [pc EXCEPT ![d] = l]

\* The process ends, and its memory with it.
Die(d) ==
  /\ GotoD(d, "dead")
  /\ quitting' = [quitting EXCEPT ![d] = FALSE]
  /\ policy' = [policy EXCEPT ![d] = NoVars]
  /\ held' = [held EXCEPT ![d] = {}]
  /\ late' = late \ {d}

\* "Pre-existing env vars take precedence".
Overlay(env, file) == [k \in Keys |-> IF env[k] # Unset THEN env[k] ELSE file[k]]

\* LoadPolicyFromEnv: the variables of the environment, and those of the file
\* that the environment does not have.
LoadPolicyFromEnv(d) == policy' = [policy EXCEPT ![d] = Overlay(@, policyfile)]

\* "another daemon is running": Run returns an error and the process ends.
Refuse(d) ==
  /\ pc[d] = "check" /\ Alive(pidfile)
  /\ Die(d)
  /\ UNCHANGED <<fileVars, clientVars, boundVars, pastVars>>

\* A faulty variant: the pid file is not consulted.
CheckNothing(d) ==
  /\ pc[d] = "check" /\ LoadPolicyFromEnv(d)
  /\ GotoD(d, "remove")
  /\ overlapped' = (overlapped \/ \E e \in Daemons : Starting(e))
  /\ UNCHANGED <<fileVars, quitting, held, late, clientVars, boundVars, made, ended>>

\* No pid, or that of a process that is gone.
Check(d) ==
  /\ pc[d] = "check" /\ LoadPolicyFromEnv(d)
  /\ ~Alive(pidfile)
  /\ GotoD(d, "remove")
  /\ overlapped' = (overlapped \/ \E e \in Daemons : Starting(e))
  /\ UNCHANGED <<fileVars, quitting, held, late, clientVars, boundVars, made, ended>>

\* Listen: os.Remove, net.Listen, os.Chmod.
Remove(d) ==
  /\ pc[d] = "remove"
  /\ sock' = None
  /\ GotoD(d, "bind")
  /\ UNCHANGED <<pidfile, policyfile, quitting, policy, held, late, clientVars, boundVars, pastVars>>

Bind(d) ==
  /\ pc[d] = "bind" /\ sock = None
  /\ sock' = d
  /\ GotoD(d, "chmod")
  /\ UNCHANGED <<pidfile, policyfile, quitting, policy, held, late, clientVars, boundVars, pastVars>>

\* "address already in use"
BindFails(d) ==
  /\ pc[d] = "bind" /\ sock # None
  /\ Die(d)
  /\ UNCHANGED <<fileVars, clientVars, boundVars, pastVars>>

\* It fails when somebody has removed the path again.
Chmod(d) ==
  /\ pc[d] = "chmod"
  /\ GotoD(d, IF sock = None THEN "closing" ELSE "write")
  /\ UNCHANGED <<fileVars, quitting, policy, held, late, clientVars, boundVars, pastVars>>

WritePidFile(d) ==
  /\ pc[d] = "write"
  /\ pidfile' = d
  /\ GotoD(d, "serving")
  /\ UNCHANGED <<sock, policyfile, quitting, policy, held, late, clientVars, boundVars, pastVars>>

\* The pid file cannot be written.
WritePidFails(d) ==
  /\ pc[d] = "write" /\ faults < MaxFaults
  /\ faults' = faults + 1
  /\ GotoD(d, "closing")
  /\ UNCHANGED <<fileVars, quitting, policy, held, late, clientVars, calls, pastVars>>

\* Close unlinks the socket's path, whoever owns the file there by now.
CloseListener(d) ==
  /\ pc[d] = "closing"
  /\ sock' = None
  /\ Die(d)
  /\ UNCHANGED <<pidfile, policyfile, clientVars, boundVars, pastVars>>

\* The os.Exit that a shutdown request has scheduled.
Exit(d) ==
  /\ Alive(d) /\ quitting[d]
  /\ Die(d)
  /\ UNCHANGED <<fileVars, clientVars, boundVars, pastVars>>

\* The process is killed, or a handler panics.
Crash(d) ==
  /\ Alive(d) /\ faults < MaxFaults
  /\ faults' = faults + 1
  /\ Die(d)
  /\ UNCHANGED <<fileVars, clientVars, calls, pastVars>>

-----------------------------------------------------------------------------
(* Commands.                                                               *)

GotoC(c, l) == cpc' = [cpc EXCEPT ![c] = l]

\* start creates a session, session is a command for one (state or stop), stop is
\* `daemon stop`.
Begin(c, k, l) ==
  /\ cpc[c] = "idle" /\ calls < MaxCalls
  /\ calls' = calls + 1
  /\ cmd' = [cmd EXCEPT ![c] = k]
  /\ conn' = [conn EXCEPT ![c] = None]
  /\ about' = [about EXCEPT ![c] = c]
  /\ result' = [result EXCEPT ![c] = "none"]
  /\ GotoC(c, l)

\* A command answers, its connection is closed and the process ends.  What
\* `daemon stop` read and acted on is kept for the properties.
Return(c, r) ==
  /\ GotoC(c, "idle")
  /\ result' = [result EXCEPT ![c] = r]
  /\ conn' = [conn EXCEPT ![c] = None]
  /\ cenv' = [cenv EXCEPT ![c] = NoVars]
  /\ cmd' = [cmd EXCEPT ![c] = "none"]
  /\ UNCHANGED <<orig, pid>>

StopReturn(c, r) ==
  /\ GotoC(c, "idle")
  /\ result' = [result EXCEPT ![c] = r]
  /\ pid' = [pid EXCEPT ![c] = None]
  /\ cmd' = [cmd EXCEPT ![c] = "none"]
  /\ UNCHANGED <<conn, orig, cenv>>

\* daemonCall.
CallBegin(c, k) ==
  /\ k = "start" => made[c] = None
  /\ Begin(c, k, "dial")
  /\ cenv' = [cenv EXCEPT ![c] = NoVars]
  /\ orig' = [orig EXCEPT ![c] = None] /\ pid' = [pid EXCEPT ![c] = None]
  /\ UNCHANGED <<fileVars, daemonVars, faults, pastVars>>

\* A faulty variant: an option that is not given is not exported.
ResolveFlagsOnly(flags) == flags

\* What one `sl-dbg mcp` exports: every variable of the safe policy.
ResolveMCPSafePolicy(flags) ==
  [k \in Keys |-> IF flags[k] = Unset THEN Defaults[k] ELSE flags[k]]

Exports == {ResolveMCPSafePolicy(flags) : flags \in Flags}
ExportsBelowUser == {Overlay(UserEnv, p) : p \in Exports}

\* applyMCPSafePolicy sets the variables in its own environment and saves them in
\* the file, which is replaced by a rename.  A write error is ignored.  With
\* SL_DBG_INSECURE nothing is exported, as in CallBegin; a refusal ends the process
\* before it does anything.
McpBegin(c, flags) ==
  /\ made[c] = None /\ Begin(c, "start", "dial")
  /\ cenv' = [cenv EXCEPT ![c] = ResolveMCPSafePolicy(flags)]
  /\ \/ policyfile' = ResolveMCPSafePolicy(flags) /\ UNCHANGED faults
     \/ faults < MaxFaults /\ faults' = faults + 1 /\ UNCHANGED policyfile
  /\ orig' = [orig EXCEPT ![c] = None] /\ pid' = [pid EXCEPT ![c] = None]
  /\ UNCHANGED <<sock, pidfile, daemonVars, made, ended, overlapped>>

\* ipc.Dial, at first or in the retry loop.  The client's variables matter for a
\* daemon it spawns, and it spawns none any more.
Dial(c) ==
  /\ cpc[c] \in {"dial", "retry"} /\ Reachable
  /\ conn' = [conn EXCEPT ![c] = sock]
  /\ cenv' = [cenv EXCEPT ![c] = NoVars]
  /\ GotoC(c, "connected")
  /\ UNCHANGED <<fileVars, daemonVars, cmd, orig, pid, about, result, boundVars, pastVars>>

\* The variables of a process: what an `sl-dbg mcp` has set, else none or some that
\* were set by hand in its terminal.
Environments(c) == IF cenv[c] = NoVars THEN {NoVars, UserEnv} ELSE {cenv[c]}

\* dialOrSpawn: nobody there, so a daemon is spawned, once.
SpawnDaemon(c, d) ==
  /\ cpc[c] = "dial" /\ ~Reachable
  /\ pc[d] = "none" /\ \A e \in 1..(d - 1) : pc[e] # "none"
  /\ GotoD(d, "check")
  /\ \E env \in Environments(c) : policy' = [policy EXCEPT ![d] = env]
  /\ late' = IF policyfile = NoVars THEN late ELSE late \cup {d}
  /\ cenv' = [cenv EXCEPT ![c] = NoVars]
  /\ GotoC(c, "retry")
  /\ UNCHANGED <<fileVars, quitting, held, cmd, conn, orig, pid, about, result, boundVars,
                 made, ended, overlapped>>

\* "daemon failed to start within 3s"
RetryDeadline(c) ==
  /\ cpc[c] = "retry" /\ ~Reachable
  /\ Return(c, "error")
  /\ UNCHANGED <<fileVars, daemonVars, about, boundVars, pastVars>>

\* handleStart: refused or failed, or the session enters the table and its first
\* stop is waited for.
StartFails(c) ==
  /\ cpc[c] = "connected" /\ cmd[c] = "start" /\ Answering(conn[c])
  /\ Return(c, "error")
  /\ UNCHANGED <<fileVars, daemonVars, about, boundVars, pastVars>>

StartCreates(c) ==
  /\ cpc[c] = "connected" /\ cmd[c] = "start" /\ Answering(conn[c])
  /\ held' = [held EXCEPT ![conn[c]] = @ \cup {c}]
  /\ made' = [made EXCEPT ![c] = conn[c]]
  /\ GotoC(c, "starting")
  /\ UNCHANGED <<fileVars, pc, quitting, policy, late, cmd, cenv, conn, orig, pid, about, result,
                 boundVars, ended, overlapped>>

StartReturns(c) ==
  /\ cpc[c] = "starting" /\ Answering(conn[c])
  /\ Return(c, "ok")
  /\ UNCHANGED <<fileVars, daemonVars, about, boundVars, pastVars>>

\* A faulty variant: the default session goes, whichever was meant.
RemoveDefault(d, o) ==
  /\ \E x \in held[d] : held' = [held EXCEPT ![d] = @ \ {x}]
  /\ ended' = ended \cup {o}

\* Manager.Remove, of the session of o.
RemoveSession(d, o) ==
  /\ held' = [held EXCEPT ![d] = @ \ {o}]
  /\ ended' = ended \cup {o}

\* earlyTerminationResp: it has ended already and is removed, whether the answer is
\* its exit code or LAUNCH_FAILED.
StartEnds(c) ==
  /\ cpc[c] = "starting" /\ Answering(conn[c])
  /\ RemoveSession(conn[c], c)
  /\ Return(c, "ok")
  /\ UNCHANGED <<fileVars, pc, quitting, policy, late, about, boundVars, made, overlapped>>

\* The request of c names the session of o, or none and o's is the default.
Names(c, o) == cpc[c] = "connected" /\ Answering(conn[c]) /\ made[o] # None

\* sessionNotFound tells a young daemon without any session from the others.
SessionNotFound(c, o) ==
  /\ Names(c, o) /\ o \notin held[conn[c]]
  /\ about' = [about EXCEPT ![c] = o]
  /\ \/ Return(c, "notfound")
     \/ held[conn[c]] = {} /\ Return(c, "respawned")
  /\ UNCHANGED <<fileVars, daemonVars, boundVars, pastVars>>

\* handleState, and handleStop, of a session that is not there.
ServeUnknown(c, o) == cmd[c] = "session" /\ SessionNotFound(c, o)

HandleState(c, o) ==
  /\ cmd[c] = "session" /\ Names(c, o) /\ o \in held[conn[c]]
  /\ Return(c, "ok")
  /\ UNCHANGED <<fileVars, daemonVars, about, boundVars, pastVars>>

\* handleStop: a session of this daemon is removed.
HandleStop(c, o) ==
  /\ cmd[c] = "session" /\ Names(c, o) /\ o \in held[conn[c]]
  /\ RemoveSession(conn[c], o)
  /\ Return(c, "ok")
  /\ UNCHANGED <<fileVars, pc, quitting, policy, late, about, boundVars, made, overlapped>>

\* No session is named and there is no default.
ServeNoSession(c) ==
  /\ cpc[c] = "connected" /\ cmd[c] = "session" /\ Answering(conn[c])
  /\ held[conn[c]] = {}
  /\ Return(c, "error")
  /\ UNCHANGED <<fileVars, daemonVars, about, boundVars, pastVars>>

\* The daemon ends before it answers: Recv gets EOF.
ConnectionLost(c) ==
  /\ cpc[c] \in {"connected", "starting"} /\ ~Alive(conn[c])
  /\ Return(c, "error")
  /\ UNCHANGED <<fileVars, daemonVars, about, boundVars, pastVars>>

-----------------------------------------------------------------------------
(* stopRunningDaemon.                                                      *)

StopBegin(c) ==
  /\ Begin(c, "stop", "stat")
  /\ UNCHANGED <<fileVars, daemonVars, cenv, orig, pid, faults, pastVars>>

StatSocket(c) ==
  /\ cpc[c] = "stat"
  /\ orig' = [orig EXCEPT ![c] = sock]
  /\ GotoC(c, "readpid")
  /\ UNCHANGED <<fileVars, daemonVars, cmd, cenv, conn, pid, about, result, boundVars, pastVars>>

ReadPid(c) ==
  /\ cpc[c] = "readpid"
  /\ pid' = [pid EXCEPT ![c] = pidfile]
  /\ GotoC(c, "probe")
  /\ UNCHANGED <<fileVars, daemonVars, cmd, cenv, conn, orig, about, result, boundVars, pastVars>>

\* The daemon is there and gets the request, or there is none to stop.
StopDial(c) ==
  /\ cpc[c] = "probe" /\ Reachable
  /\ conn' = [conn EXCEPT ![c] = sock]
  /\ GotoC(c, "connected")
  /\ UNCHANGED <<fileVars, daemonVars, cmd, cenv, orig, pid, about, result, boundVars, pastVars>>

StopNotRunning(c) ==
  /\ cpc[c] = "probe" /\ ~Reachable
  /\ StopReturn(c, "error")
  /\ UNCHANGED <<fileVars, daemonVars, about, boundVars, pastVars>>

\* CmdShutdown: acknowledged now, executed 50 ms later.
Shutdown(c) ==
  /\ cpc[c] = "connected" /\ cmd[c] = "stop" /\ Answering(conn[c])
  /\ quitting' = [quitting EXCEPT ![conn[c]] = TRUE]
  /\ GotoC(c, "await")
  /\ UNCHANGED <<fileVars, pc, policy, held, late, cmd, cenv, conn, orig, pid, about, result, boundVars, pastVars>>

\* A faulty variant: replacement is not noticed.
ReplacedNever(c) == FALSE

\* Another socket is at the path: somebody has started a new daemon.
Replaced(c) == orig[c] # None /\ sock \notin {None, orig[c]}

AwaitReplaced(c) ==
  /\ cpc[c] = "await" /\ Replaced(c)
  /\ StopReturn(c, "stopped")
  /\ UNCHANGED <<fileVars, daemonVars, about, boundVars, pastVars>>

\* A faulty variant: the acknowledgement is taken for the end.
AwaitAcknowledged(c) ==
  /\ cpc[c] = "await"
  /\ GotoC(c, "absent")
  /\ UNCHANGED <<fileVars, daemonVars, cmd, cenv, conn, orig, pid, about, result, boundVars, pastVars>>

\* The probe finds no listener.
AwaitAbsent(c) ==
  /\ cpc[c] = "await" /\ ~Reachable
  /\ GotoC(c, "absent")
  /\ UNCHANGED <<fileVars, daemonVars, cmd, cenv, conn, orig, pid, about, result, boundVars, pastVars>>

\* kill(pid, 0): gone, or another turn of the loop.
AwaitPidGone(c) ==
  /\ cpc[c] = "absent" /\ ~Alive(pid[c])
  /\ StopReturn(c, "stopped")
  /\ UNCHANGED <<fileVars, daemonVars, about, boundVars, pastVars>>

AwaitPidAlive(c) ==
  /\ cpc[c] = "absent" /\ Alive(pid[c])
  /\ GotoC(c, "await")
  /\ UNCHANGED <<fileVars, daemonVars, cmd, cenv, conn, orig, pid, about, result, boundVars, pastVars>>

\* The deadline is a hundred times the delay of the exit and five hundred turns
\* of the loop: it passes only when the daemon has ended and no turn would return.
StopDeadline(c) ==
  /\ cpc[c] = "await" /\ ~Alive(conn[c]) /\ ~Replaced(c)
  /\ Reachable \/ Alive(pid[c])
  /\ StopReturn(c, "timeout")
  /\ UNCHANGED <<fileVars, daemonVars, about, boundVars, pastVars>>

-----------------------------------------------------------------------------
DaemonStep(d) ==
  \/ Refuse(d) \/ Check(d) \/ Remove(d) \/ Bind(d) \/ BindFails(d) \/ Chmod(d)
  \/ WritePidFile(d) \/ CloseListener(d) \/ Exit(d)

ClientStep(c) ==
  \/ Dial(c) \/ RetryDeadline(c) \/ ConnectionLost(c)
  \/ StartFails(c) \/ StartCreates(c) \/ StartReturns(c) \/ StartEnds(c)
  \/ \E o \in Clients : HandleState(c, o) \/ HandleStop(c, o) \/ ServeUnknown(c, o)
  \/ ServeNoSession(c)
  \/ \E d \in Daemons : SpawnDaemon(c, d)
  \/ StatSocket(c) \/ ReadPid(c) \/ StopDial(c) \/ StopNotRunning(c) \/ Shutdown(c)
  \/ AwaitReplaced(c) \/ AwaitAbsent(c) \/ AwaitPidGone(c) \/ AwaitPidAlive(c)
  \/ StopDeadline(c)

Next ==
  \/ \E d \in Daemons : DaemonStep(d) \/ WritePidFails(d) \/ Crash(d)
  \/ \E c \in Clients :
       \/ StopBegin(c) \/ ClientStep(c)
       \/ \E k \in {"start", "session"} : CallBegin(c, k)
       \/ \E flags \in Flags : McpBegin(c, flags)

Spec == Init /\ [][Next]_vars

-----------------------------------------------------------------------------
(* Properties.                                                             *)

\* Every variable has its type.
TypeOK ==
  /\ sock \in {None} \cup Daemons /\ pidfile \in {None} \cup Daemons
  /\ policyfile \in Policies
  /\ pc \in [Daemons -> Labels] /\ quitting \in [Daemons -> BOOLEAN]
  /\ policy \in [Daemons -> Policies] /\ held \in [Daemons -> SUBSET Clients]
  /\ cpc \in [Clients -> CLabels] /\ cmd \in [Clients -> Commands]
  /\ cenv \in [Clients -> Policies] /\ conn \in [Clients -> {None} \cup Daemons]
  /\ orig \in [Clients -> {None} \cup Daemons] /\ pid \in [Clients -> {None} \cup Daemons]
  /\ about \in [Clients -> Clients]
  /\ result \in [Clients -> {"none", "ok", "error", "respawned", "notfound", "stopped",
                             "timeout"}]
  /\ calls \in 0..MaxCalls /\ faults \in 0..MaxFaults
  /\ made \in [Clients -> {None} \cup Daemons] /\ ended \subseteq Clients
  /\ late \subseteq Daemons /\ overlapped \in BOOLEAN

\* Run refuses to start because of a pid file alone, and Dial looks at the
\* socket alone: unless two daemons came up at the same time, a live daemon that
\* is named by the pid file is the one at the socket, through every crash,
\* shutdown and failed start.  Otherwise nobody could be reached or started.
NotWedged ==
  ~overlapped /\ Alive(pidfile) /\ pc[pidfile] = "serving" => sock = pidfile

\* "Session id unknown / already stopped" (COMMANDS.md): a session that was created
\* is lost only with its daemon.  An answer SESSION_NOT_FOUND or DAEMON_RESPAWNED
\* for it means that it was stopped, or ended during its start, or that the daemon
\* which created it has ended, again unless two daemons came up at the same time.
\* Sessions of other clients, their starts and stops, make no difference.
LostOnlyWithDaemon ==
  \A c \in Clients :
    result[c] \in {"respawned", "notfound"} /\ ~overlapped =>
      about[c] \in ended \/ ~Alive(made[about[c]])

\* "Do not let the next invocation reach the old listener" (daemon_cmd.go): when
\* `daemon stop` reports success, nobody can connect any more to the daemon that
\* acknowledged, provided it was the one whose socket was inspected first.
StopReleases ==
  \A c \in Clients :
    result[c] = "stopped" /\ conn[c] = orig[c] /\ sock = conn[c] => ~Alive(conn[c])

\* `daemon stop` does not give up with TIMEOUT on a daemon that has ended, when it
\* saw a socket at the beginning and no two daemons came up at the same time: a
\* replacement is recognised, and the pid it waits for is gone.
StopNotStuck ==
  \A c \in Clients : result[c] = "timeout" => overlapped \/ orig[c] = None

\* "Without this, `sl-dbg sessions` from another terminal would auto-spawn an
\* empty-policy replacement" (mcp_safe.go), and "caller env wins" (policy.go): the
\* policy of a live daemon is the one that one single `sl-dbg mcp` exported, or that with
\* the variables over it that the spawning terminal had set by hand; it is never put
\* together of the policies of two of them, whoever saves the file between spawn and
\* load, and it is not empty when a policy had been saved before the spawn.
OnePolicy ==
  \A d \in Daemons :
    pc[d] \notin {"none", "check", "dead"} =>
      \/ policy[d] \in Exports \cup ExportsBelowUser
      \/ d \notin late /\ policy[d] \in {NoVars, UserEnv}

\* "Refuse to start if another daemon is alive" (server.go): no two daemons serve.
OneDaemon ==
  \A d, e \in Daemons : pc[d] = "serving" /\ pc[e] = "serving" => d = e

=============================================================================
