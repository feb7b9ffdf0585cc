------------------------------ MODULE Lifecycle ------------------------------
(***************************************************************************)
(* Life of the dnsvard daemon: the foreground process started by           *)
(* `daemon start --foreground`, the flock on daemon.lock, the PID file,    *)
(* the signals it takes, and the commands that race with it                *)
(* (`daemon start`, `stop`, `restart`, and the SIGHUP that `run` sends).   *)
(* Source: cmd/dnsvard/cmd_daemon.go, runtime_helpers.go,                  *)
(* cmd_bootstrap.go, internal/daemon/{lock,state}.go.                      *)
(*                                                                         *)
(* A process id stands for one process at a time.  It may be used again    *)
(* once its process is gone, but not while the PID file or a command still *)
(* names it: reuse of a remembered id is left out (see the README).        *)
(***************************************************************************)
EXTENDS Naturals

CONSTANTS Pid,        \* process ids of foreground daemon processes
          Cli,        \* concurrently running dnsvard commands
          Ops,        \* the commands users give, a subset of AllOps
          Managed,    \* TRUE: a service manager can install the daemon
          MaxFaults,  \* how many processes fail or are killed outright
          Patient,    \* TRUE: a command's 2 s polls outlast a shutdown
          None        \* no process

AllOps == {"start", "stop", "restart", "notify", "abort"}

ASSUME PidCliAssumption == Pid \cap Cli = {} /\ None \notin Pid \cup Cli
ASSUME OpsAssumption == Ops \subseteq AllOps
ASSUME BoundAssumption == MaxFaults \in Nat
ASSUME SwitchAssumption == Managed \in BOOLEAN /\ Patient \in BOOLEAN

VARIABLES phase,    \* phase[p]: where process p is in runDaemonStartTo
          lock,     \* holder of the flock on daemon.lock
          pidFile,  \* the process daemon.pid names
          sigCh,    \* sigCh[p]: content of the signal channel, capacity 1
          targets,  \* targets[a]: the processes a has listed and will signal
          unit,     \* the process the service manager runs
          cmd,      \* cmd[c]: the command c is executing
          faults    \* failures and kills so far

vars == <<phase, lock, pidFile, sigCh, targets, unit, cmd, faults>>
cliVars == <<targets, unit, cmd>>

Published == {"published", "serving", "stopping"}  \* daemon.pid is written
Handling  == {"serving", "stopping", "draining"}   \* signal.Notify was called
Holding   == {"starting", "bound", "failing", "draining"} \cup Published
Phase     == {"gone", "booting", "cleaning", "waiting"} \cup Holding

Step == {"idle", "cleanup", "checkRead", "check", "probe", "release", "spawn",
         "verify", "stopRead", "stopFile", "stopList", "stopClean", "before",
         "managedRead", "managedKill", "managedWait", "install", "managedVerify",
         "plan", "directWait", "notify", "ok", "refused", "error"}

(* A command: what the user asked for, the call it makes next, the PID it has
   read last, the one it found running at first, the child it has started. *)
Command == [op : AllOps \cup {"none"}, step : Step, pid : Pid \cup {None},
            before : Pid \cup {None}, child : Pid \cup {None}]

Idle == [op |-> "none", step |-> "idle", pid |-> None, before |-> None, child |-> None]

TypeOK ==
  /\ phase \in [Pid -> Phase]
  /\ lock \in Pid \cup Cli \cup {None}
  /\ pidFile \in Pid \cup {None}
  /\ sigCh \in [Pid -> {"empty", "HUP", "TERM"}]
  /\ targets \in [Pid \cup Cli -> SUBSET Pid]
  /\ unit \in Pid \cup {None}
  /\ cmd \in [Cli -> Command]
  /\ faults \in Nat

Init ==
  /\ phase = [p \in Pid |-> "gone"]
  /\ lock = None
  /\ pidFile = None
  /\ sigCh = [p \in Pid |-> "empty"]
  /\ targets = [a \in Pid \cup Cli |-> {}]
  /\ unit = None
  /\ cmd = [c \in Cli |-> Idle]
  /\ faults = 0

-----------------------------------------------------------------------------
(* What processes see of each other                                        *)

Running(p) == p \in Pid /\ phase[p] # "gone"

(* runDaemonBackgroundTo starts its child and never waits for it: when that
   ends it stays a zombie until the command ends too.  The service manager
   reaps its daemon, and init the child of a command that is gone. *)
Unreaped(p) == phase[p] = "gone" /\ \E c \in Cli : cmd[c].child = p

(* procutil.Running: kill(p, 0) succeeds, for a zombie too. *)
Alive(p) == p \in Pid /\ (Running(p) \/ Unreaped(p))

(* listProcessSnapshots and selectOwnedForegroundDaemonPIDs: a zombie's line
   in `ps` has lost its arguments, so it is not among them. *)
ForegroundDaemons == {p \in Pid : Running(p)}

(* A signal before signal.Notify has its default effect: the process ends
   without its deferred calls and the kernel drops its lock.  Afterwards it is
   put in the channel, or lost when that is full. *)
Dies(S) == {q \in S : Running(q) /\ phase[q] \notin Handling}
Gets(S) == {q \in S : Running(q) /\ phase[q] \in Handling /\ sigCh[q] = "empty"}

AfterSignal(S) ==
  [q \in Pid |-> IF q \in Dies(S) THEN "gone" ELSE phase[q]]

(* What a signal s that process or command a sends to S does besides. *)
Deliver(a, S, s) ==
  /\ sigCh' = [q \in Pid |-> IF q \in Gets(S) THEN s ELSE sigCh[q]]
  /\ lock' = IF lock \in Dies(S) THEN None ELSE lock
  /\ targets' = [x \in Pid \cup Cli |->
                   IF x \in Dies(S) \cup {a} THEN {} ELSE targets[x]]

(* A process id the kernel may give to a new process. *)
Free(p) ==
  /\ phase[p] = "gone"
  /\ p \notin {pidFile, unit}
  /\ \A c \in Cli : p \notin {cmd[c].pid, cmd[c].before, cmd[c].child}
  /\ \A a \in Pid \cup Cli : p \notin targets[a]

Spawn(p) ==
  /\ Free(p)
  /\ phase' = [phase EXCEPT ![p] = "booting"]
  /\ sigCh' = [sigCh EXCEPT ![p] = "empty"]

-----------------------------------------------------------------------------
(* The foreground daemon process                                           *)

(* runDaemonStartTo first lists the other foreground daemons ... *)
ListOthers(p) ==
  /\ phase[p] = "booting"
  /\ phase' = [phase EXCEPT ![p] = "cleaning"]
  /\ targets' = [targets EXCEPT ![p] = ForegroundDaemons \ {p}]
  /\ UNCHANGED <<lock, pidFile, sigCh, unit, cmd, faults>>

(* ... and then sends each of them SIGTERM, before it asks for the lock. *)
SignalOthers(p) ==
  /\ phase[p] = "cleaning"
  /\ phase' = [AfterSignal(targets[p]) EXCEPT ![p] = "waiting"]
  /\ Deliver(p, targets[p], "TERM")
  /\ UNCHANGED <<pidFile, unit, cmd, faults>>

(* Mutations: the flock is not exclusive; the PID is written on taking it; a
   daemon that finds the lock held exits. *)
AcquireSharedLock(p) ==
  /\ phase[p] = "waiting"
  /\ phase' = [phase EXCEPT ![p] = "starting"]
  /\ lock' = p
  /\ UNCHANGED <<pidFile, sigCh, cliVars, faults>>

AcquireLockAndPublish(p) ==
  /\ phase[p] = "waiting"
  /\ lock = None
  /\ phase' = [phase EXCEPT ![p] = "starting"]
  /\ lock' = p
  /\ pidFile' = p
  /\ UNCHANGED <<sigCh, cliVars, faults>>

AcquireLockOrExit(p) ==
  /\ phase[p] = "waiting"
  /\ phase' = [phase EXCEPT ![p] = IF lock = None THEN "starting" ELSE "gone"]
  /\ lock' = IF lock = None THEN p ELSE lock
  /\ UNCHANGED <<pidFile, sigCh, cliVars, faults>>

(* AcquireLock(wait = true) blocks until the flock is free. *)
AcquireLock(p) ==
  /\ phase[p] = "waiting"
  /\ lock = None
  /\ phase' = [phase EXCEPT ![p] = "starting"]
  /\ lock' = p
  /\ UNCHANGED <<pidFile, sigCh, cliVars, faults>>

(* Allocation, the first route build, and the DNS, HTTP and TCP listeners. *)
BindServers(p) ==
  /\ phase[p] = "starting"
  /\ phase' = [phase EXCEPT ![p] = "bound"]
  /\ UNCHANGED <<lock, pidFile, sigCh, cliVars, faults>>

(* Any step up to WritePID may fail; the deferred calls then unwind. *)
StartupFails(p) ==
  /\ phase[p] \in {"starting", "bound"}
  /\ faults < MaxFaults
  /\ phase' = [phase EXCEPT ![p] = "failing"]
  /\ faults' = faults + 1
  /\ UNCHANGED <<lock, pidFile, sigCh, cliVars>>

WritePID(p) ==
  /\ phase[p] = "bound"
  /\ phase' = [phase EXCEPT ![p] = "published"]
  /\ pidFile' = p
  /\ UNCHANGED <<lock, sigCh, cliVars, faults>>

(* Watchers and the reconcile goroutine start, then signal.Notify. *)
InstallHandlers(p) ==
  /\ phase[p] = "published"
  /\ phase' = [phase EXCEPT ![p] = "serving"]
  /\ UNCHANGED <<lock, pidFile, sigCh, cliVars, faults>>

HandleHup(p) ==
  /\ phase[p] = "serving"
  /\ sigCh[p] = "HUP"
  /\ sigCh' = [sigCh EXCEPT ![p] = "empty"]
  /\ UNCHANGED <<phase, lock, pidFile, cliVars, faults>>

(* Mutation: SIGTERM is taken off the channel like SIGHUP. *)
HandleTermAsHup(p) ==
  /\ phase[p] = "serving"
  /\ sigCh[p] = "TERM"
  /\ sigCh' = [sigCh EXCEPT ![p] = "empty"]
  /\ UNCHANGED <<phase, lock, pidFile, cliVars, faults>>

HandleTerm(p) ==
  /\ phase[p] = "serving"
  /\ sigCh[p] = "TERM"
  /\ sigCh' = [sigCh EXCEPT ![p] = "empty"]
  /\ phase' = [phase EXCEPT ![p] = "stopping"]
  /\ UNCHANGED <<lock, pidFile, cliVars, faults>>

(* Mutation: the file is overwritten with "0", not removed. *)
ZeroPID(p) ==
  /\ phase[p] = "stopping"
  /\ phase' = [phase EXCEPT ![p] = "draining"]
  /\ pidFile' = 0
  /\ UNCHANGED <<lock, sigCh, cliVars, faults>>

(* Deferred calls run last first: RemovePID, the listeners, ReleaseLock. *)
RemovePID(p) ==
  /\ phase[p] = "stopping"
  /\ phase' = [phase EXCEPT ![p] = "draining"]
  /\ pidFile' = None
  /\ UNCHANGED <<lock, sigCh, cliVars, faults>>

(* Mutation: the lock is released before daemon.pid is removed. *)
ReleaseLockFirst(p) ==
  /\ phase[p] \in {"stopping", "draining", "failing"}
  /\ phase' = [phase EXCEPT ![p] = IF @ = "stopping" THEN @ ELSE "gone"]
  /\ lock' = None
  /\ UNCHANGED <<pidFile, sigCh, cliVars, faults>>

ReleaseLock(p) ==
  /\ phase[p] \in {"draining", "failing"}
  /\ phase' = [phase EXCEPT ![p] = "gone"]
  /\ sigCh' = [sigCh EXCEPT ![p] = "empty"]
  /\ lock' = None
  /\ UNCHANGED <<pidFile, cliVars, faults>>

(* SIGKILL, a panic or the out-of-memory killer: nothing deferred runs. *)
Kill(p) ==
  /\ Running(p)
  /\ faults < MaxFaults
  /\ phase' = [phase EXCEPT ![p] = "gone"]
  /\ sigCh' = [sigCh EXCEPT ![p] = "empty"]
  /\ lock' = IF lock = p THEN None ELSE lock
  /\ faults' = faults + 1
  /\ targets' = [targets EXCEPT ![p] = {}]
  /\ UNCHANGED <<pidFile, unit, cmd>>

(* launchd starts the daemon again whenever its process is gone, systemd
   (Restart=on-failure) when it failed; here either may always. *)
Respawn(p) ==
  /\ unit # None
  /\ ~Running(unit)
  /\ Spawn(p)
  /\ unit' = p
  /\ UNCHANGED <<lock, pidFile, targets, cmd, faults>>

-----------------------------------------------------------------------------
(* The commands.  A step names the call the command makes next.            *)

At(c, s) == cmd[c].step = s
Goto(c, s) == cmd' = [cmd EXCEPT ![c].step = s]
Waits(c, s, p) == cmd' = [cmd EXCEPT ![c].step = s, ![c].pid = p]
Recalls(c, s, p, b) == cmd' = [cmd EXCEPT ![c].step = s, ![c].pid = p, ![c].before = b]
Starts(c, s, p) == cmd' = [cmd EXCEPT ![c].step = s, ![c].pid = None, ![c].child = p]
Begins(c, o, s, p) ==
  cmd' = [cmd EXCEPT ![c] = [op |-> o, step |-> s, pid |-> p, before |-> None, child |-> None]]

(* kill(p, s), right after the test that found p alive. *)
Send(c, p, s) ==
  /\ phase' = AfterSignal({p})
  /\ Deliver(c, {p}, s)
  /\ UNCHANGED <<pidFile, unit, faults>>

NoSignal == UNCHANGED <<phase, lock, pidFile, sigCh, targets, unit, faults>>

(* daemon.pid is read in one step; whether the process read is alive is asked
   in a later one, which may find it gone, or the file naming another.  Where
   the step before the read sees and changes nothing of other processes, that
   step does the reading. *)
ReadPID(c) ==
  /\ \/ At(c, "checkRead") /\ Waits(c, "check", pidFile)
     \/ At(c, "stopRead") /\ Waits(c, "stopFile", pidFile)
     \/ At(c, "managedRead") /\ Waits(c, "managedKill", pidFile)
  /\ NoSignal

Found(c) == IF Alive(cmd[c].pid) THEN cmd[c].pid ELSE None

(* A 2 s poll for p to go ends: p is gone, or the poll gives up on it.  A
   patient one has seen p stay: no SIGTERM is in p's channel and p is not on
   its way out.  A zombie never goes while it is waited for. *)
PollEnds(p) ==
  Patient /\ Running(p) =>
    sigCh[p] # "TERM" /\ phase[p] \notin {"stopping", "draining", "failing"}

(* runDaemonStartTo lists the running daemons before it checks for one. *)
BeginStart(c) ==
  /\ At(c, "idle") /\ "start" \in Ops
  /\ Begins(c, "start", "cleanup", None)
  /\ targets' = [targets EXCEPT ![c] = ForegroundDaemons]
  /\ UNCHANGED <<phase, lock, pidFile, sigCh, unit, faults>>

StartCleanup(c) ==
  /\ At(c, "cleanup")
  /\ phase' = AfterSignal(targets[c])
  /\ Deliver(c, targets[c], "TERM")
  /\ Goto(c, "checkRead")
  /\ UNCHANGED <<pidFile, unit, faults>>

(* runDaemonBackgroundTo says that a daemon already runs: `start` reports the
   refusal, `restart` waits for that daemon instead. *)
Refused(c) == IF cmd[c].op = "start" THEN "refused" ELSE "verify"

(* A live PID refuses, then a probe of the lock does; the probe is released
   before the child that will take the lock is started. *)
CheckPid(c) ==
  /\ At(c, "check")
  /\ Waits(c, IF Alive(cmd[c].pid) THEN Refused(c) ELSE "probe", None)
  /\ NoSignal

ProbeLock(c) ==
  /\ At(c, "probe")
  /\ IF lock = None
     THEN lock' = c /\ Goto(c, "release")
     ELSE lock' = lock /\ Goto(c, Refused(c))
  /\ UNCHANGED <<phase, pidFile, sigCh, targets, unit, faults>>

(* Mutation: the probe is never released. *)
LeakProbe(c) ==
  /\ At(c, "release")
  /\ Goto(c, "spawn")
  /\ UNCHANGED <<phase, lock, pidFile, sigCh, targets, unit, faults>>

ReleaseProbe(c) ==
  /\ At(c, "release")
  /\ lock' = None
  /\ Goto(c, "spawn")
  /\ UNCHANGED <<phase, pidFile, sigCh, targets, unit, faults>>

SpawnChild(c) ==
  /\ At(c, "spawn")
  /\ \E p \in Pid :
       Spawn(p) /\ Starts(c, IF cmd[c].op = "start" THEN "ok" ELSE "verify", p)
  /\ UNCHANGED <<lock, pidFile, targets, unit, faults>>

(* Mutation: a PID file is enough, whether or not its process runs. *)
VerifyFileOnly(c) ==
  /\ At(c, "verify") \/ At(c, "managedVerify")
  /\ \/ cmd[c].pid # None /\ Recalls(c, "ok", None, None)
     \/ pidFile # cmd[c].pid /\ Waits(c, cmd[c].step, pidFile)
     \/ pidFile = None /\ Waits(c, IF At(c, "managedVerify") THEN "plan" ELSE "error", None)
  /\ NoSignal

(* waitForDaemonPID, after a restart has started a child or been refused, and
   after the service manager has started the daemon: read the file and test
   the process, until it runs or the 2 s are over.  To read what was read
   before changes nothing. *)
Verify(c) ==
  /\ At(c, "verify") \/ At(c, "managedVerify")
  /\ \/ Alive(cmd[c].pid) /\ Recalls(c, "ok", None, None)
     \/ ~Alive(cmd[c].pid) /\ pidFile # cmd[c].pid /\ Waits(c, cmd[c].step, pidFile)
     \/ /\ ~Alive(cmd[c].pid)
        /\ Patient => ForegroundDaemons = {}
        /\ IF At(c, "managedVerify") THEN Waits(c, "plan", pidFile) ELSE Waits(c, "error", None)
  /\ NoSignal

(* runDaemonStopTo: the service manager, the PID file, stale processes. *)
BeginStop(c) ==
  /\ At(c, "idle") /\ "stop" \in Ops
  /\ Begins(c, "stop", "stopRead", None)
  /\ phase' = AfterSignal({unit})
  /\ Deliver(c, {unit}, "TERM")
  /\ unit' = None
  /\ UNCHANGED <<pidFile, faults>>

(* Without a PID file only stale processes are looked for; kill of a process
   that is gone fails with ESRCH, of a zombie it does not. *)
StopByFile(c) ==
  /\ At(c, "stopFile")
  /\ IF cmd[c].pid # None /\ ~Alive(cmd[c].pid)
     THEN Goto(c, "error") /\ NoSignal
     ELSE Waits(c, "stopList", None) /\ Send(c, cmd[c].pid, "TERM")

StopList(c) ==
  /\ At(c, "stopList")
  /\ Goto(c, "stopClean")
  /\ targets' = [targets EXCEPT ![c] = ForegroundDaemons]
  /\ UNCHANGED <<phase, lock, pidFile, sigCh, unit, faults>>

StopClean(c) ==
  /\ At(c, "stopClean")
  /\ phase' = AfterSignal(targets[c])
  /\ Deliver(c, targets[c], "TERM")
  /\ Goto(c, "ok")
  /\ UNCHANGED <<pidFile, unit, faults>>

(* runDaemonRestartWithDeps: the state before, then a managed restart. *)
BeginRestart(c) ==
  /\ At(c, "idle") /\ "restart" \in Ops
  /\ Begins(c, "restart", "before", pidFile)
  /\ NoSignal

StateBefore(c) ==
  /\ At(c, "before")
  /\ Recalls(c, "managedRead", None, Found(c))
  /\ NoSignal

ManagedKill(c) ==
  /\ At(c, "managedKill")
  /\ Waits(c, IF Alive(cmd[c].pid) THEN "managedWait" ELSE "install", Found(c))
  /\ Send(c, Found(c), "TERM")

ManagedWait(c) ==
  /\ At(c, "managedWait")
  /\ PollEnds(cmd[c].pid)
  /\ Waits(c, "install", None)
  /\ NoSignal

(* InstallDaemon fails, or without a service manager is not even tried. *)
InstallFails(c) ==
  /\ At(c, "install")
  /\ Waits(c, "plan", pidFile)
  /\ NoSignal

(* `launchctl bootout` of the loaded service comes before its bootstrap. *)
Bootout(c) ==
  /\ At(c, "install")
  /\ Managed /\ unit # None
  /\ phase' = AfterSignal({unit})
  /\ Deliver(c, {unit}, "TERM")
  /\ unit' = None
  /\ UNCHANGED <<pidFile, cmd, faults>>

(* `systemctl enable --now` starts nothing when the unit still runs. *)
Install(c) ==
  /\ At(c, "install")
  /\ Managed
  /\ IF Running(unit)
     THEN UNCHANGED <<phase, sigCh, unit>>
     ELSE \E p \in Pid : Spawn(p) /\ unit' = p
  /\ Goto(c, "managedVerify")
  /\ UNCHANGED <<lock, pidFile, targets, faults>>

(* directRestartPlan, and the SIGTERM to the daemon that was not replaced; the
   state before is not read again. *)
Plan(c) ==
  LET after == Found(c)
      same  == after = cmd[c].before
  IN  /\ At(c, "plan")
      /\ Recalls(c, IF after = None THEN "checkRead" ELSE IF same THEN "directWait" ELSE "ok",
                    IF same THEN after ELSE None, None)
      /\ Send(c, IF same THEN after ELSE None, "TERM")

DirectWait(c) ==
  /\ At(c, "directWait")
  /\ PollEnds(cmd[c].pid)
  /\ Waits(c, "check", pidFile)
  /\ NoSignal

(* notifyDaemonReconcile reads the file, and then tests and signals. *)
BeginNotify(c) ==
  /\ At(c, "idle") /\ "notify" \in Ops
  /\ Begins(c, "notify", "notify", pidFile)
  /\ NoSignal

Notify(c) ==
  /\ At(c, "notify")
  /\ Waits(c, "ok", None)
  /\ Send(c, Found(c), "HUP")

Finish(c) ==
  /\ At(c, "ok") \/ At(c, "error") \/ At(c, "refused")
  /\ cmd' = [cmd EXCEPT ![c] = Idle]
  /\ NoSignal

(* The user interrupts the command. *)
Abort(c) ==
  /\ ~At(c, "idle") /\ "abort" \in Ops
  /\ cmd' = [cmd EXCEPT ![c] = Idle]
  /\ lock' = IF lock = c THEN None ELSE lock
  /\ targets' = [targets EXCEPT ![c] = {}]
  /\ UNCHANGED <<phase, pidFile, sigCh, unit, faults>>

-----------------------------------------------------------------------------

DaemonStep(p) ==
  \/ ListOthers(p) \/ SignalOthers(p) \/ AcquireLock(p) \/ BindServers(p)
  \/ WritePID(p) \/ InstallHandlers(p) \/ HandleHup(p) \/ HandleTerm(p)
  \/ RemovePID(p) \/ ReleaseLock(p)

CliStep(c) ==
  \/ ReadPID(c) \/ StartCleanup(c) \/ CheckPid(c) \/ ProbeLock(c)
  \/ ReleaseProbe(c) \/ SpawnChild(c) \/ Verify(c) \/ StopByFile(c)
  \/ StopList(c) \/ StopClean(c) \/ StateBefore(c) \/ ManagedKill(c)
  \/ ManagedWait(c) \/ InstallFails(c) \/ Install(c) \/ Plan(c)
  \/ DirectWait(c) \/ Notify(c) \/ Finish(c)

Environment ==
  \/ \E p \in Pid : StartupFails(p) \/ Kill(p) \/ Respawn(p)
  \/ \E c \in Cli : \/ BeginStart(c) \/ BeginStop(c) \/ BeginRestart(c)
                     \/ BeginNotify(c) \/ Bootout(c) \/ Abort(c)

Next ==
  \/ \E p \in Pid : DaemonStep(p)
  \/ \E c \in Cli : CliStep(c)
  \/ Environment

Spec == Init /\ [][Next]_vars

(* The scheduler runs every process; nothing obliges users to give commands.
   A process blocked in flock(2) is woken whenever the lock is released, so
   probes that hold it for an instant cannot keep it out for ever. *)
FairSpec ==
  /\ Spec
  /\ \A p \in Pid : WF_vars(DaemonStep(p)) /\ SF_vars(AcquireLock(p))
  /\ \A c \in Cli : WF_vars(CliStep(c))

-----------------------------------------------------------------------------
(* Properties                                                              *)

(* At most one daemon is between taking the lock and giving it up, so at most
   one binds the DNS, HTTP and TCP listeners and writes the shared state. *)
SingleServer ==
  \A p, q \in Pid : phase[p] \in Holding /\ phase[q] \in Holding => p = q

(* A daemon that has written daemon.pid is the one the file names until it
   removes it: no other process's write or removal gets in between. *)
ServerOwnsPidFile ==
  \A p \in Pid : phase[p] \in Published => pidFile = p

(* A live process that daemon.pid names has bound its servers and holds the
   lock: a reader never takes a daemon that is still waiting, starting or
   already draining for a running one. *)
LivePidServes ==
  Running(pidFile) => phase[pidFile] \in Published /\ lock = pidFile

(* The process c read from daemon.pid has bound its servers, and has not been
   reaped since. *)
FoundDaemon(c) ==
  \E p \in Pid : /\ cmd[c].pid = p
                 /\ \/ phase[p] \in Published \cup {"draining"}
                    \/ Unreaped(p)

(* `dnsvard daemon restart` reports success only for a process that it found
   alive in daemon.pid and that had bound its servers: never for one that still
   waits, starts or unwinds after failing, and never on a PID file whose process
   is known to be gone.  That process may have begun to shut down since the file
   was read, or have died as the command's own unreaped child, to which kill(0)
   still answers. *)
RestartVerified ==
  [][\A c \in Cli :
       cmd[c].op = "restart" /\ cmd[c].step # "ok" /\ cmd'[c].step = "ok"
         => FoundDaemon(c)]_vars

Serving == \E p \in Pid : phase[p] = "serving"

(* Another start, stop or restart is under way. *)
Disturbed == \E c \in Cli : cmd[c].step \notin {"idle", "ok", "refused"}

(* Where nothing fails, a restart that reported success leaves a daemon that
   ends up serving, unless a further command disturbs it.  It does not hold
   when SIGHUP comes before signal.Notify. *)
RestartSticks ==
  [](faults = 0) =>
    \A c \in Cli : cmd[c].op = "restart" /\ At(c, "ok") ~> Serving \/ Disturbed

(* A start that reports success, or that a daemon already runs, leaves a daemon
   that ends up serving, unless a further command disturbs it. *)
StartSticks ==
  \A c \in Cli : cmd[c].op = "start" /\ (At(c, "ok") \/ At(c, "refused"))
                  ~> Serving \/ Disturbed

(* The flock is never leaked: a daemon that waits for it serves, dies or sees
   another one serve. *)
WaiterServed ==
  \A p \in Pid : phase[p] = "waiting"
                  ~> phase[p] = "gone" \/ Serving

(* A SIGTERM that reaches the channel of a serving daemon ends it, through the
   removal of daemon.pid and the release of the lock. *)
TermEnds ==
  \A p \in Pid : sigCh[p] = "TERM" ~> phase[p] = "gone" /\ lock # p

=============================================================================
