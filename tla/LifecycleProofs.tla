--------------------------- MODULE LifecycleProofs ---------------------------
(***************************************************************************)
(* Safety of the daemon's life cycle for any number of processes and       *)
(* commands.  The inductive invariant IInv adds to type correctness who    *)
(* holds the lock in each phase, which phases daemon.pid can name, and     *)
(* what a process whose PID a command has read may have come to since.     *)
(***************************************************************************)
EXTENDS Lifecycle, TLAPS

(* Whoever is in the critical section, or probes the lock, holds it. *)
LockInv ==
  /\ \A p \in Pid : phase[p] \in Holding => lock = p
  /\ \A c \in Cli : cmd[c].step = "release" => lock = c

(* daemon.pid names its writer, or one that died without removing it. *)
PidFileInv ==
  /\ ServerOwnsPidFile
  /\ \A p \in Pid : pidFile = p => phase[p] \in Published \cup {"gone"}

(* A process that was in daemon.pid once has published itself since. *)
Seen == Published \cup {"draining", "gone"}

ReadInv == \A c \in Cli : \A p \in Pid : cmd[c].pid = p => phase[p] \in Seen

(* The steps of `stop` and of the SIGHUP of `run` are taken by them only. *)
MayBeAt(c, t) ==
  /\ t \in {"stopRead", "stopFile", "stopList", "stopClean"} => cmd[c].op = "stop"
  /\ t = "notify" => cmd[c].op = "notify"

OpInv == \A c \in Cli : MayBeAt(c, cmd[c].step)

IInv == TypeOK /\ LockInv /\ PidFileInv /\ ReadInv /\ OpInv

USE DEF Published, Handling, Holding, Phase, Seen

-----------------------------------------------------------------------------
(* What a signal may change: processes die, and only a dead one's lock goes. *)
LEMMA SignalEffect ==
  ASSUME TypeOK, NEW S, NEW a, NEW s \in {"HUP", "TERM"}, Deliver(a, S, s)
  PROVE  /\ sigCh' \in [Pid -> {"empty", "HUP", "TERM"}]
         /\ lock' \in {lock, None}
         /\ \A q \in Pid : lock = q /\ AfterSignal(S)[q] = phase[q]
                             /\ phase[q] # "gone" => lock' = lock
         /\ lock \notin Pid => lock' = lock
         /\ targets' \in [Pid \cup Cli -> SUBSET Pid]
         /\ AfterSignal(S) \in [Pid -> Phase]
         /\ \A q \in Pid : AfterSignal(S)[q] \in {phase[q], "gone"}
<1> USE DEF TypeOK
<1>1. \A q \in Pid : q \in Dies(S) => AfterSignal(S)[q] = "gone"
  BY DEF Dies, AfterSignal
<1>2. Dies(S) \subseteq Pid
  BY DEF Dies, Running
<1>3. lock' = IF lock \in Dies(S) THEN None ELSE lock
  BY DEF Deliver
<1>4. /\ sigCh' \in [Pid -> {"empty", "HUP", "TERM"}]
      /\ targets' \in [Pid \cup Cli -> SUBSET Pid]
  BY DEF Deliver
<1>5. /\ AfterSignal(S) \in [Pid -> Phase]
      /\ \A q \in Pid : AfterSignal(S)[q] \in {phase[q], "gone"}
  BY DEF AfterSignal
<1>6. QED
  BY <1>1, <1>2, <1>3, <1>4, <1>5

(* A step that only signals processes preserves what IInv says of them. *)
LEMMA SignalPreserves ==
  ASSUME IInv, NEW S, NEW a, NEW s \in {"HUP", "TERM"}, Deliver(a, S, s),
         phase' = AfterSignal(S), pidFile' = pidFile
  PROVE  /\ phase' \in [Pid -> Phase]
         /\ \A p \in Pid : phase'[p] \in Holding => lock' = p
         /\ \A c \in Cli : lock = c => lock' = c
         /\ lock' \in Pid \cup Cli \cup {None}
         /\ sigCh' \in [Pid -> {"empty", "HUP", "TERM"}]
         /\ targets' \in [Pid \cup Cli -> SUBSET Pid]
         /\ PidFileInv'
         /\ \A p \in Pid : phase[p] \in Seen => phase'[p] \in Seen
<1>1. TypeOK
  BY DEF IInv
<1>2. /\ sigCh' \in [Pid -> {"empty", "HUP", "TERM"}]
      /\ lock' \in {lock, None}
      /\ \A q \in Pid : lock = q /\ AfterSignal(S)[q] = phase[q]
                          /\ phase[q] # "gone" => lock' = lock
      /\ lock \notin Pid => lock' = lock
      /\ targets' \in [Pid \cup Cli -> SUBSET Pid]
      /\ AfterSignal(S) \in [Pid -> Phase]
      /\ \A q \in Pid : AfterSignal(S)[q] \in {phase[q], "gone"}
  BY <1>1, SignalEffect
<1>3. \A p \in Pid : phase'[p] \in Holding => lock' = p
  BY <1>2 DEF IInv, LockInv
<1>4. \A c \in Cli : lock = c => lock' = c
  BY <1>2, PidCliAssumption
<1>5. PidFileInv'
  BY <1>2 DEF IInv, PidFileInv, ServerOwnsPidFile
<1>6. \A p \in Pid : phase[p] \in Seen => phase'[p] \in Seen
  BY <1>2
<1>7. QED
  BY <1>1, <1>2, <1>3, <1>4, <1>5, <1>6 DEF TypeOK

(* The process p a command starts was gone and is not named by daemon.pid. *)
LEMMA SpawnPreserves ==
  ASSUME IInv, NEW p \in Pid, Spawn(p), lock' = lock, pidFile' = pidFile
  PROVE  /\ phase' \in [Pid -> Phase]
         /\ sigCh' \in [Pid -> {"empty", "HUP", "TERM"}]
         /\ \A q \in Pid : phase'[q] \in Holding => lock' = q
         /\ PidFileInv'
         /\ \A c \in Cli : \A q \in Pid : cmd[c].pid = q => phase'[q] \in Seen
  <1>1. /\ phase' \in [Pid -> Phase]
        /\ sigCh' \in [Pid -> {"empty", "HUP", "TERM"}]
        /\ phase'[p] = "booting"
        /\ \A q \in Pid \ {p} : phase'[q] = phase[q]
    BY DEF IInv, TypeOK, Spawn, Phase
  <1>2. p # pidFile
    BY DEF Spawn, Free
  <1>3. \A q \in Pid : phase'[q] \in Holding => lock' = q
    BY <1>1 DEF IInv, LockInv, Holding, Handling
  <1>4. PidFileInv'
    BY <1>1, <1>2 DEF IInv, PidFileInv, ServerOwnsPidFile, Published
  <1>5. \A c \in Cli : cmd[c].pid # p
    BY DEF Spawn, Free
  <1>6. \A c \in Cli : \A q \in Pid : cmd[c].pid = q => phase'[q] \in Seen
    BY <1>1, <1>5 DEF IInv, ReadInv
  <1> QED
    BY <1>1, <1>3, <1>4, <1>6

(* Command c moves to step t; the PID it then holds is the one it held, p or
   none. *)
Moves(c, t, p) ==
  \/ Goto(c, t)
  \/ Waits(c, t, p)
  \/ \E b \in Pid \cup {None} : Recalls(c, t, p, b)
  \/ \E k \in Pid : Starts(c, t, k)

LEMMA CommandStep ==
  ASSUME TypeOK, NEW c \in Cli, NEW t \in Step, NEW p \in Pid \cup {None}, Moves(c, t, p)
  PROVE  /\ cmd' \in [Cli -> Command]
         /\ cmd'[c].step = t /\ cmd'[c].op = cmd[c].op
         /\ cmd'[c].pid \in {cmd[c].pid, p, None}
         /\ \A d \in Cli : d # c => cmd'[d] = cmd[d]
<1> DEFINE moved == [cmd EXCEPT ![c].step = t]
           Kept(next) == /\ next \in [Cli -> Command] /\ next[c].step = t
                         /\ next[c].op = cmd[c].op
                         /\ next[c].pid \in {cmd[c].pid, p, None}
                         /\ \A d \in Cli : d # c => next[d] = cmd[d]
<1>1. Kept(moved)
  BY DEF TypeOK, Command
<1>2. CASE Goto(c, t)
  BY <1>1, <1>2 DEF Goto
<1>3. ASSUME NEW q \in {p, None} PROVE Kept([moved EXCEPT ![c].pid = q])
  <2> HIDE DEF moved
  <2>1. QED
    BY <1>1 DEF Command
<1>4. CASE Waits(c, t, p)
  BY <1>3, <1>4 DEF Waits
<1>5. CASE \E b \in Pid \cup {None} : Recalls(c, t, p, b)
  <2>1. PICK b \in Pid \cup {None} : Recalls(c, t, p, b)
    BY <1>5
  <2> DEFINE waits == [moved EXCEPT ![c].pid = p]
  <2>2. Kept(waits)
    BY <1>3
  <2>3. cmd' = [waits EXCEPT ![c].before = b]
    BY <2>1 DEF Recalls
  <2> HIDE DEF waits, moved
  <2>4. Kept([waits EXCEPT ![c].before = b])
    BY <2>2 DEF Command
  <2>5. QED
    BY <2>3, <2>4
<1>6. CASE \E k \in Pid : Starts(c, t, k)
  <2>1. PICK k \in Pid : Starts(c, t, k)
    BY <1>6
  <2> DEFINE waits == [moved EXCEPT ![c].pid = None]
  <2>2. Kept(waits)
    BY <1>3
  <2>3. cmd' = [waits EXCEPT ![c].child = k]
    BY <2>1 DEF Starts
  <2> HIDE DEF waits, moved
  <2>4. Kept([waits EXCEPT ![c].child = k])
    BY <2>2 DEF Command
  <2>5. QED
    BY <2>3, <2>4
<1>7. QED
  BY <1>2, <1>4, <1>5, <1>6 DEF Moves

(* Command c begins the operation o, with PID p read. *)
LEMMA CommandBegins ==
  ASSUME TypeOK, NEW c \in Cli, NEW o \in AllOps, NEW t \in Step, NEW p \in Pid \cup {None},
         Begins(c, o, t, p)
  PROVE  /\ cmd' \in [Cli -> Command]
         /\ cmd'[c].step = t /\ cmd'[c].op = o /\ cmd'[c].pid = p
         /\ \A d \in Cli : d # c => cmd'[d] = cmd[d]
<1> DEFINE begun == [op |-> o, step |-> t, pid |-> p, before |-> None, child |-> None]
<1>1. begun \in Command
  BY DEF Command
<1>2. cmd' = [cmd EXCEPT ![c] = begun]
  BY DEF Begins
<1>3. begun.step = t /\ begun.op = o /\ begun.pid = p
  OBVIOUS
<1> HIDE DEF begun
<1>4. QED
  BY <1>1, <1>2, <1>3 DEF TypeOK

(* What the variables but cmd satisfy after a step of command c. *)
RestKept(c) ==
  /\ phase' \in [Pid -> Phase]
  /\ lock' \in Pid \cup Cli \cup {None}
  /\ \A q \in Pid : phase'[q] \in Holding => lock' = q
  /\ \A d \in Cli : lock = d => lock' = d \/ d = c
  /\ pidFile' = pidFile /\ PidFileInv'
  /\ sigCh' \in [Pid -> {"empty", "HUP", "TERM"}]
  /\ targets' \in [Pid \cup Cli -> SUBSET Pid]
  /\ unit' \in Pid \cup {None} /\ faults' = faults
  /\ \A d \in Cli : \A q \in Pid : cmd[d].pid = q => phase'[q] \in Seen

(* A command moves to a step that does not claim the lock; what the other
   variables satisfy is proved apart. *)
LEMMA MoveIInv ==
  ASSUME IInv, NEW c \in Cli, NEW t \in Step \ {"release"}, NEW p \in Pid \cup {None},
         \/ /\ Moves(c, t, p)
            /\ MayBeAt(c, t)
         \/ \E o \in AllOps :
              /\ Begins(c, o, t, p)
              /\ t \in {"stopRead", "stopFile", "stopList", "stopClean"} => o = "stop"
              /\ t = "notify" => o = "notify",
         RestKept(c), p \in Pid => phase'[p] \in Seen
  PROVE  IInv'
<1>1. TypeOK /\ LockInv /\ ReadInv /\ OpInv
  BY DEF IInv
<1>2. /\ cmd' \in [Cli -> Command]
      /\ cmd'[c].step = t
      /\ cmd'[c].pid \in {cmd[c].pid, p, None}
      /\ \A d \in Cli : d # c => cmd'[d] = cmd[d]
      /\ t \in {"stopRead", "stopFile", "stopList", "stopClean"} => cmd'[c].op = "stop"
      /\ t = "notify" => cmd'[c].op = "notify"
  <2>1. CASE Moves(c, t, p) /\ MayBeAt(c, t)
    BY <1>1, <2>1, CommandStep DEF MayBeAt
  <2>2. CASE \E o \in AllOps :
              /\ Begins(c, o, t, p)
              /\ t \in {"stopRead", "stopFile", "stopList", "stopClean"} => o = "stop"
              /\ t = "notify" => o = "notify"
    BY <1>1, <2>2, CommandBegins
  <2>3. QED
    BY <2>1, <2>2
<1>3. TypeOK'
  BY <1>1, <1>2 DEF TypeOK, RestKept
<1>4. LockInv'
  BY <1>1, <1>2 DEF LockInv, RestKept
<1>5. OpInv'
  BY <1>1, <1>2 DEF OpInv, MayBeAt
<1>6. ReadInv'
  <2> SUFFICES ASSUME NEW d \in Cli, NEW q \in Pid, cmd'[d].pid = q
               PROVE  phase'[q] \in Seen
    BY DEF ReadInv
  <2>1. CASE d # c
    BY <1>2, <2>1 DEF RestKept
  <2>2. CASE d = c
    BY <1>2, <2>2, PidCliAssumption DEF RestKept
  <2>3. QED
    BY <2>1, <2>2
<1>7. QED
  BY <1>3, <1>4, <1>5, <1>6 DEF IInv, RestKept

(* The steps that leave the other variables alone; a PID that a command reads
   is the one in the file, or one that it has read before. *)
LEMMA QuietKept ==
  ASSUME IInv, NEW c \in Cli, NoSignal
  PROVE  /\ RestKept(c)
         /\ pidFile \in Pid => phase'[pidFile] \in Seen
<1>1. TypeOK /\ LockInv /\ PidFileInv /\ ReadInv
  BY DEF IInv
<1>2. PidFileInv'
  BY <1>1 DEF PidFileInv, ServerOwnsPidFile, NoSignal
<1>3. /\ phase' \in [Pid -> Phase] /\ lock' \in Pid \cup Cli \cup {None}
      /\ sigCh' \in [Pid -> {"empty", "HUP", "TERM"}]
      /\ targets' \in [Pid \cup Cli -> SUBSET Pid]
      /\ unit' \in Pid \cup {None} /\ faults' = faults /\ pidFile' = pidFile
      /\ \A q \in Pid : phase'[q] \in Holding => lock' = q
      /\ lock' = lock
  BY <1>1 DEF TypeOK, LockInv, NoSignal
<1>4. \A d \in Cli : \A q \in Pid : cmd[d].pid = q => phase'[q] \in Seen
  BY <1>1 DEF ReadInv, NoSignal
<1>5. pidFile \in Pid => phase'[pidFile] \in Seen
  BY <1>1 DEF PidFileInv, NoSignal
<1>6. QED
  BY <1>2, <1>3, <1>4, <1>5 DEF RestKept

LEMMA QuietIInv ==
  ASSUME IInv, NEW c \in Cli, NEW t \in Step \ {"release"}, NEW p \in {None, pidFile},
         Moves(c, t, p), MayBeAt(c, t), NoSignal
  PROVE  IInv'
<1>1. RestKept(c) /\ (pidFile \in Pid => phase'[pidFile] \in Seen)
  BY QuietKept
<1>2. p \in Pid \cup {None} /\ (p \in Pid => phase'[p] \in Seen)
  BY <1>1, PidCliAssumption DEF IInv, TypeOK
<1>3. QED
  BY <1>1, <1>2, MoveIInv

LEMMA SendKept ==
  ASSUME IInv, NEW c \in Cli, NEW S, NEW s \in {"HUP", "TERM"},
         Deliver(c, S, s), phase' = AfterSignal(S),
         pidFile' = pidFile, faults' = faults, unit' \in {unit, None}
  PROVE  /\ RestKept(c)
         /\ \A q \in Pid : phase[q] \in Seen => phase'[q] \in Seen
<1>1. /\ phase' \in [Pid -> Phase]
      /\ \A q \in Pid : phase'[q] \in Holding => lock' = q
      /\ \A d \in Cli : lock = d => lock' = d
      /\ lock' \in Pid \cup Cli \cup {None}
      /\ sigCh' \in [Pid -> {"empty", "HUP", "TERM"}]
      /\ targets' \in [Pid \cup Cli -> SUBSET Pid]
      /\ PidFileInv'
      /\ \A q \in Pid : phase[q] \in Seen => phase'[q] \in Seen
  BY SignalPreserves
<1>2. unit' \in Pid \cup {None} /\ pidFile' = pidFile /\ faults' = faults
  BY DEF IInv, TypeOK
<1>3. \A d \in Cli : \A q \in Pid : cmd[d].pid = q => phase'[q] \in Seen
  BY <1>1 DEF IInv, ReadInv
<1>4. QED
  BY <1>1, <1>2, <1>3 DEF RestKept

LEMMA SendIInv ==
  ASSUME IInv, NEW c \in Cli, NEW t \in Step \ {"release"}, NEW p \in {None, cmd[c].pid},
         Moves(c, t, p), MayBeAt(c, t), NEW S, NEW s \in {"HUP", "TERM"},
         Deliver(c, S, s), phase' = AfterSignal(S), UNCHANGED <<pidFile, unit, faults>>
  PROVE  IInv'
<1>1. RestKept(c)
  BY SendKept
<1>2. p \in Pid \cup {None}
  BY DEF IInv, TypeOK, Command
<1>3. p \in Pid => phase'[p] \in Seen
  BY <1>1, PidCliAssumption DEF RestKept
<1>4. QED
  BY <1>1, <1>2, <1>3, MoveIInv

LEMMA StartIInv ==
  ASSUME IInv, NEW c \in Cli, NEW t \in Step \ {"release"}, Moves(c, t, None), MayBeAt(c, t),
         NEW p \in Pid, Spawn(p), UNCHANGED <<lock, pidFile, targets, faults>>,
         unit' \in {unit, p}
  PROVE  IInv'
<1>1. /\ phase' \in [Pid -> Phase]
      /\ sigCh' \in [Pid -> {"empty", "HUP", "TERM"}]
      /\ \A q \in Pid : phase'[q] \in Holding => lock' = q
      /\ PidFileInv'
      /\ \A d \in Cli : \A q \in Pid : cmd[d].pid = q => phase'[q] \in Seen
  BY SpawnPreserves
<1>2. /\ unit' \in Pid \cup {None} /\ lock' \in Pid \cup Cli \cup {None}
      /\ targets' \in [Pid \cup Cli -> SUBSET Pid]
      /\ pidFile' = pidFile /\ faults' = faults /\ lock' = lock
  BY DEF IInv, TypeOK
<1>3. RestKept(c)
  BY <1>1, <1>2 DEF RestKept
<1>4. None \notin Pid
  BY PidCliAssumption
<1>5. QED
  BY <1>3, <1>4, MoveIInv

-----------------------------------------------------------------------------
LEMMA InitIInv == Init => IInv
  BY PidCliAssumption DEF Init, IInv, TypeOK, Command, LockInv, PidFileInv, ServerOwnsPidFile,
         ReadInv, OpInv, MayBeAt, Idle, AllOps, Step

(* A command ends; the lock it may have probed is free again. *)
LEMMA IdleIInv ==
  ASSUME IInv, NEW c \in Cli, cmd' = [cmd EXCEPT ![c] = Idle],
         lock' = lock \/ (lock = c /\ lock' = None),
         targets' \in [Pid \cup Cli -> SUBSET Pid],
         UNCHANGED <<phase, pidFile, sigCh, unit, faults>>
  PROVE  IInv'
<1>0. TypeOK /\ LockInv /\ PidFileInv /\ ReadInv /\ OpInv
  BY DEF IInv
<1>1. Idle \in Command /\ Idle.step = "idle" /\ Idle.pid = None
  BY DEF Idle, Command, AllOps, Step
<1>2. /\ cmd' \in [Cli -> Command] /\ cmd'[c] = Idle
      /\ \A d \in Cli : d # c => cmd'[d] = cmd[d]
  BY <1>0, <1>1 DEF TypeOK
<1>3. TypeOK'
  BY <1>0, <1>2 DEF TypeOK
<1>4. LockInv'
  BY <1>0, <1>1, <1>2, PidCliAssumption DEF LockInv
<1>5. PidFileInv'
  BY <1>0 DEF PidFileInv, ServerOwnsPidFile
<1>6. ReadInv'
  BY <1>0, <1>1, <1>2, PidCliAssumption DEF ReadInv
<1>7. OpInv'
  BY <1>0, <1>1, <1>2 DEF OpInv, MayBeAt
<1>8. QED
  BY <1>3, <1>4, <1>5, <1>6, <1>7 DEF IInv

(* A daemon's own step leaves the commands alone, and takes no process out of
   the phases a command may have seen it in. *)
LEMMA DaemonIInv ==
  ASSUME IInv, NEW p \in Pid, DaemonStep(p)
  PROVE  IInv'
<1> USE DEF cliVars
<1>0. TypeOK /\ LockInv /\ PidFileInv /\ ReadInv /\ OpInv
  BY DEF IInv
<1>1. cmd' = cmd
  BY DEF DaemonStep, ListOthers, SignalOthers, AcquireLock, BindServers, WritePID,
         InstallHandlers, HandleHup, HandleTerm, RemovePID, ReleaseLock
<1>2. /\ TypeOK' /\ LockInv' /\ PidFileInv'
      /\ \A q \in Pid : phase[q] \in Seen => phase'[q] \in Seen
  <2> USE PidCliAssumption DEF TypeOK, LockInv, PidFileInv, ServerOwnsPidFile
  <2>1. CASE ListOthers(p)
    BY <1>0, <1>1, <2>1 DEF ListOthers, ForegroundDaemons
  <2>2. CASE SignalOthers(p)
    <3>1. /\ sigCh' \in [Pid -> {"empty", "HUP", "TERM"}]
          /\ lock' \in {lock, None}
          /\ \A q \in Pid : lock = q /\ AfterSignal(targets[p])[q] = phase[q]
                              /\ phase[q] # "gone" => lock' = lock
          /\ lock \notin Pid => lock' = lock
          /\ targets' \in [Pid \cup Cli -> SUBSET Pid]
          /\ AfterSignal(targets[p]) \in [Pid -> Phase]
          /\ \A q \in Pid : AfterSignal(targets[p])[q] \in {phase[q], "gone"}
      BY <1>0, <2>2, SignalEffect DEF SignalOthers
    <3>2. /\ phase' \in [Pid -> Phase]
          /\ phase[p] = "cleaning" /\ phase'[p] = "waiting"
          /\ \A q \in Pid : q # p => phase'[q] \in {phase[q], "gone"}
          /\ \A q \in Pid : q # p => phase'[q] = AfterSignal(targets[p])[q]
          /\ UNCHANGED <<pidFile, unit, cmd, faults>>
      BY <2>2, <3>1 DEF SignalOthers
    <3>3. TypeOK'
      BY <1>0, <3>1, <3>2
    <3>4. LockInv'
      BY <1>0, <3>1, <3>2
    <3>5. PidFileInv' /\ \A q \in Pid : phase[q] \in Seen => phase'[q] \in Seen
      BY <1>0, <3>2
    <3>6. QED
      BY <3>3, <3>4, <3>5
  <2>3. CASE AcquireLock(p)
    BY <1>0, <1>1, <2>3 DEF AcquireLock
  <2>4. CASE BindServers(p)
    BY <1>0, <1>1, <2>4 DEF BindServers
  <2>5. CASE WritePID(p)
    BY <1>0, <1>1, <2>5 DEF WritePID
  <2>6. CASE InstallHandlers(p)
    BY <1>0, <1>1, <2>6 DEF InstallHandlers
  <2>7. CASE HandleHup(p)
    BY <1>0, <1>1, <2>7 DEF HandleHup
  <2>8. CASE HandleTerm(p)
    BY <1>0, <1>1, <2>8 DEF HandleTerm
  <2>9. CASE RemovePID(p)
    BY <1>0, <1>1, <2>9 DEF RemovePID
  <2>10. CASE ReleaseLock(p)
    BY <1>0, <1>1, <2>10 DEF ReleaseLock
  <2>11. QED
    BY <2>1, <2>2, <2>3, <2>4, <2>5, <2>6, <2>7, <2>8, <2>9, <2>10 DEF DaemonStep
<1>3. ReadInv' /\ OpInv'
  BY <1>0, <1>1, <1>2 DEF ReadInv, OpInv, MayBeAt
<1>4. QED
  BY <1>2, <1>3 DEF IInv

(* A command's step leaves its record well-formed, and only the step "release"
   claims the lock, only a stop is at a step of `stop`. *)
LEMMA CliIInv ==
  ASSUME IInv, NEW c \in Cli, CliStep(c)
  PROVE  IInv'
<1> USE DEF At, Step, MayBeAt, Moves
<1>0. /\ TypeOK /\ LockInv /\ PidFileInv /\ ReadInv /\ OpInv
      /\ Found(c) \in {None, cmd[c].pid} /\ Found(c) \in Pid \cup {None}
  BY DEF IInv, Found, TypeOK, Alive
<1>1. CASE ReadPID(c)
  <2>1. CASE At(c, "checkRead") /\ Waits(c, "check", pidFile)
    BY <1>1, <2>1, QuietIInv DEF ReadPID
  <2>2. CASE At(c, "stopRead") /\ Waits(c, "stopFile", pidFile)
    <3>1. cmd[c].op = "stop"
      BY <1>0, <2>2 DEF OpInv
    <3>2. QED
      BY <1>1, <2>2, <3>1, QuietIInv DEF ReadPID
  <2>3. CASE At(c, "managedRead") /\ Waits(c, "managedKill", pidFile)
    BY <1>1, <2>3, QuietIInv DEF ReadPID
  <2>4. QED
    BY <1>1, <2>1, <2>2, <2>3 DEF ReadPID
<1>2. CASE StartCleanup(c)
  <2>1. Goto(c, "checkRead") /\ Deliver(c, targets[c], "TERM")
        /\ phase' = AfterSignal(targets[c]) /\ UNCHANGED <<pidFile, unit, faults>>
    BY <1>2 DEF StartCleanup
  <2>2. QED
    BY <2>1, SendIInv
<1>3. CASE CheckPid(c)
  <2>1. PICK t \in {"refused", "verify", "probe"} : Waits(c, t, None) /\ NoSignal
    BY <1>3 DEF CheckPid, Refused
  <2>2. QED
    BY <2>1, QuietIInv
<1>4. CASE ProbeLock(c)
  <2>1. CASE lock = None
    <3>0. Moves(c, "release", None)
      BY <1>4, <2>1 DEF ProbeLock
    <3>1. /\ cmd' \in [Cli -> Command]
          /\ cmd'[c].step = "release" /\ cmd'[c].pid \in {cmd[c].pid, None}
          /\ \A d \in Cli : d # c => cmd'[d] = cmd[d]
      BY <1>0, <3>0, CommandStep
    <3>2. lock' = c /\ UNCHANGED <<phase, pidFile, sigCh, targets, unit, faults>>
      BY <1>4, <2>1 DEF ProbeLock
    <3>3. TypeOK'
      BY <1>0, <3>1, <3>2 DEF TypeOK
    <3>4. LockInv'
      BY <1>0, <2>1, <3>1, <3>2, PidCliAssumption DEF LockInv
    <3>5. PidFileInv' /\ OpInv'
      BY <1>0, <3>1, <3>2 DEF PidFileInv, ServerOwnsPidFile, OpInv
    <3>6. ReadInv'
      <4> SUFFICES ASSUME NEW d \in Cli, NEW q \in Pid, cmd'[d].pid = q
                   PROVE  phase'[q] \in Seen
        BY DEF ReadInv
      <4>1. cmd[d].pid = q
        BY <3>1, PidCliAssumption
      <4>2. QED
        BY <1>0, <3>2, <4>1 DEF ReadInv
    <3>7. QED
      BY <3>3, <3>4, <3>5, <3>6 DEF IInv
  <2>2. CASE lock # None
    <3>1. PICK t \in {"refused", "verify"} : Goto(c, t) /\ NoSignal
      BY <1>4, <2>2 DEF ProbeLock, NoSignal, Refused
    <3>2. QED
      BY <3>1, QuietIInv
  <2>3. QED
    BY <2>1, <2>2
<1>5. CASE ReleaseProbe(c)
  <2>1. Goto(c, "spawn") /\ lock' = None /\ lock = c
        /\ UNCHANGED <<phase, pidFile, sigCh, targets, unit, faults>>
    BY <1>0, <1>5 DEF ReleaseProbe, LockInv
  <2>2. \A q \in Pid : phase'[q] \notin Holding
    BY <1>0, <2>1, PidCliAssumption DEF LockInv
  <2>3. PidFileInv'
    BY <1>0, <2>1 DEF PidFileInv, ServerOwnsPidFile
  <2>4. /\ phase' \in [Pid -> Phase] /\ lock' \in Pid \cup Cli \cup {None}
        /\ sigCh' \in [Pid -> {"empty", "HUP", "TERM"}]
        /\ targets' \in [Pid \cup Cli -> SUBSET Pid]
        /\ unit' \in Pid \cup {None} /\ faults' = faults /\ pidFile' = pidFile
    BY <1>0, <2>1 DEF TypeOK
  <2>5. \A d \in Cli : lock = d => lock' = d \/ d = c
    BY <2>1
  <2>6. \A d \in Cli : \A q \in Pid : cmd[d].pid = q => phase'[q] \in Seen
    BY <1>0, <2>1 DEF ReadInv
  <2>7. RestKept(c)
    BY <2>2, <2>3, <2>4, <2>5, <2>6 DEF RestKept
  <2>8. None \notin Pid
    BY PidCliAssumption
  <2>9. Moves(c, "spawn", None) /\ MayBeAt(c, "spawn")
    BY <2>1
  <2>10. QED
    BY <2>7, <2>8, <2>9, MoveIInv
<1>6. CASE SpawnChild(c)
  <2>1. PICK p \in Pid, t \in {"ok", "verify"} : Spawn(p) /\ Starts(c, t, p)
    BY <1>6 DEF SpawnChild
  <2>2. UNCHANGED <<lock, pidFile, targets, unit, faults>>
    BY <1>6 DEF SpawnChild
  <2>3. Moves(c, t, None) /\ MayBeAt(c, t)
    BY <2>1
  <2>4. QED
    BY <2>1, <2>2, <2>3, StartIInv
<1>7. CASE Verify(c)
  <2>1. NoSignal /\ (cmd[c].step \in {"verify", "managedVerify"})
    BY <1>7 DEF Verify
  <2>2. CASE Recalls(c, "ok", None, None)
    BY <2>1, <2>2, QuietIInv
  <2>3. CASE Waits(c, cmd[c].step, pidFile)
    BY <2>1, <2>3, QuietIInv
  <2>4. CASE Waits(c, "plan", pidFile) \/ Waits(c, "error", None)
    BY <2>1, <2>4, QuietIInv
  <2>5. QED
    BY <1>7, <2>2, <2>3, <2>4 DEF Verify
<1>8. CASE StopByFile(c)
  <2>0. cmd[c].op = "stop"
    BY <1>0, <1>8 DEF StopByFile, OpInv
  <2>1. CASE Goto(c, "error") /\ NoSignal
    BY <2>1, QuietIInv
  <2>2. CASE Waits(c, "stopList", None) /\ Send(c, cmd[c].pid, "TERM")
    <3>1. Deliver(c, {cmd[c].pid}, "TERM") /\ phase' = AfterSignal({cmd[c].pid})
          /\ UNCHANGED <<pidFile, unit, faults>>
      BY <2>2 DEF Send
    <3>2. QED
      BY <2>0, <2>2, <3>1, SendIInv
  <2>3. QED
    BY <1>8, <2>1, <2>2 DEF StopByFile
<1>9. CASE StopList(c)
  <2>1. /\ Goto(c, "stopClean") /\ cmd[c].op = "stop"
        /\ targets' \in [Pid \cup Cli -> SUBSET Pid]
        /\ UNCHANGED <<phase, lock, pidFile, sigCh, unit, faults>>
    BY <1>0, <1>9 DEF StopList, ForegroundDaemons, TypeOK, OpInv
  <2>2. PidFileInv'
    BY <1>0, <2>1 DEF PidFileInv, ServerOwnsPidFile
  <2>3. /\ phase' \in [Pid -> Phase] /\ lock' \in Pid \cup Cli \cup {None}
        /\ sigCh' \in [Pid -> {"empty", "HUP", "TERM"}]
        /\ unit' \in Pid \cup {None} /\ faults' = faults /\ pidFile' = pidFile
        /\ \A q \in Pid : phase'[q] \in Holding => lock' = q
        /\ lock' = lock
        /\ \A d \in Cli : \A q \in Pid : cmd[d].pid = q => phase'[q] \in Seen
    BY <1>0, <2>1 DEF TypeOK, LockInv, ReadInv
  <2>4. RestKept(c)
    BY <2>1, <2>2, <2>3 DEF RestKept
  <2>5. Moves(c, "stopClean", None) /\ MayBeAt(c, "stopClean") /\ None \notin Pid
    BY <2>1, PidCliAssumption
  <2>6. QED
    BY <2>4, <2>5, MoveIInv
<1>10. CASE StopClean(c)
  <2>1. Goto(c, "ok") /\ Deliver(c, targets[c], "TERM")
        /\ phase' = AfterSignal(targets[c]) /\ UNCHANGED <<pidFile, unit, faults>>
    BY <1>10 DEF StopClean
  <2>2. QED
    BY <2>1, SendIInv
<1>11. CASE StateBefore(c)
  <2>1. Recalls(c, "managedRead", None, Found(c)) /\ NoSignal
    BY <1>11 DEF StateBefore
  <2>2. Moves(c, "managedRead", None) /\ MayBeAt(c, "managedRead")
    BY <1>0, <2>1
  <2>3. QED
    BY <2>1, <2>2, QuietIInv
<1>12. CASE ManagedKill(c)
  <2>1. PICK t \in {"managedWait", "install"} : Waits(c, t, Found(c))
    BY <1>12 DEF ManagedKill
  <2>2. Deliver(c, {Found(c)}, "TERM") /\ phase' = AfterSignal({Found(c)})
        /\ UNCHANGED <<pidFile, unit, faults>>
    BY <1>12 DEF ManagedKill, Send
  <2>3. Moves(c, t, Found(c)) /\ MayBeAt(c, t)
    BY <2>1
  <2>4. QED
    BY <1>0, <2>2, <2>3, SendIInv
<1>13. CASE ManagedWait(c)
  <2>1. Waits(c, "install", None) /\ NoSignal
    BY <1>13 DEF ManagedWait
  <2>2. QED
    BY <2>1, QuietIInv
<1>14. CASE InstallFails(c)
  <2>1. Waits(c, "plan", pidFile) /\ NoSignal
    BY <1>14 DEF InstallFails
  <2>2. QED
    BY <2>1, QuietIInv
<1>15. CASE Install(c)
  <2>1. Goto(c, "managedVerify") /\ UNCHANGED <<lock, pidFile, targets, faults>>
    BY <1>15 DEF Install
  <2>2. CASE UNCHANGED <<phase, sigCh, unit>>
    <3>1. NoSignal
      BY <2>1, <2>2 DEF NoSignal
    <3>2. QED
      BY <2>1, <3>1, QuietIInv
  <2>3. CASE \E p \in Pid : Spawn(p) /\ unit' = p
    <3>1. PICK p \in Pid : Spawn(p) /\ unit' = p
      BY <2>3
    <3>2. QED
      BY <2>1, <3>1, StartIInv
  <2>4. QED
    BY <1>15, <2>2, <2>3 DEF Install
<1>16. CASE Plan(c)
  <2>1. PICK t \in {"checkRead", "directWait", "ok"}, q \in {None, Found(c)} :
          Recalls(c, t, q, None) /\ Send(c, q, "TERM")
    BY <1>16 DEF Plan
  <2>2. Deliver(c, {q}, "TERM") /\ phase' = AfterSignal({q})
        /\ UNCHANGED <<pidFile, unit, faults>>
    BY <2>1 DEF Send
  <2>3. Moves(c, t, q) /\ MayBeAt(c, t) /\ q \in {None, cmd[c].pid}
    BY <1>0, <2>1
  <2>4. QED
    BY <2>2, <2>3, SendIInv
<1>17. CASE DirectWait(c)
  <2>1. Waits(c, "check", pidFile) /\ NoSignal
    BY <1>17 DEF DirectWait
  <2>2. QED
    BY <2>1, QuietIInv
<1>18. CASE Notify(c)
  <2>1. Waits(c, "ok", None) /\ Deliver(c, {Found(c)}, "HUP")
        /\ phase' = AfterSignal({Found(c)}) /\ UNCHANGED <<pidFile, unit, faults>>
    BY <1>18 DEF Notify, Send
  <2>2. QED
    BY <2>1, SendIInv
<1>19. CASE Finish(c)
  <2>1. /\ cmd' = [cmd EXCEPT ![c] = Idle] /\ lock' = lock
        /\ targets' \in [Pid \cup Cli -> SUBSET Pid]
        /\ UNCHANGED <<phase, pidFile, sigCh, unit, faults>>
    BY <1>0, <1>19 DEF Finish, NoSignal, TypeOK
  <2>2. QED
    BY <2>1, IdleIInv
<1>20. QED
  BY <1>1, <1>2, <1>3, <1>4, <1>5, <1>6, <1>7, <1>8, <1>9, <1>10, <1>11, <1>12,
     <1>13, <1>14, <1>15, <1>16, <1>17, <1>18, <1>19 DEF CliStep

(* Faults, respawns and the first or last step of a command. *)
LEMMA EnvironmentIInv ==
  ASSUME IInv, Environment
  PROVE  IInv'
<1> USE DEF At
<1>0. TypeOK /\ LockInv /\ PidFileInv /\ ReadInv /\ OpInv
  BY DEF IInv
<1>1. ASSUME NEW p \in Pid, StartupFails(p) PROVE IInv'
  <2>1. /\ phase[p] \in {"starting", "bound"}
        /\ phase' = [phase EXCEPT ![p] = "failing"] /\ faults' = faults + 1
        /\ UNCHANGED <<lock, pidFile, sigCh, targets, unit, cmd>>
    BY <1>1 DEF StartupFails, cliVars
  <2>2. TypeOK' /\ LockInv' /\ PidFileInv' /\ OpInv'
    BY <1>0, <2>1 DEF TypeOK, LockInv, PidFileInv, ServerOwnsPidFile, OpInv, MayBeAt
  <2>3. ReadInv'
    BY <1>0, <2>1 DEF ReadInv, TypeOK
  <2>4. QED
    BY <2>2, <2>3 DEF IInv
<1>2. ASSUME NEW p \in Pid, Kill(p) PROVE IInv'
  <2>1. /\ phase' = [phase EXCEPT ![p] = "gone"] /\ faults' = faults + 1
        /\ sigCh' = [sigCh EXCEPT ![p] = "empty"]
        /\ lock' = IF lock = p THEN None ELSE lock
        /\ targets' = [targets EXCEPT ![p] = {}]
        /\ UNCHANGED <<pidFile, unit, cmd>>
    BY <1>2 DEF Kill
  <2>2. TypeOK' /\ LockInv' /\ PidFileInv' /\ OpInv'
    BY <1>0, <2>1, PidCliAssumption
       DEF TypeOK, LockInv, PidFileInv, ServerOwnsPidFile, OpInv, MayBeAt
  <2>3. ReadInv'
    BY <1>0, <2>1 DEF ReadInv, TypeOK
  <2>4. QED
    BY <2>2, <2>3 DEF IInv
<1>3. ASSUME NEW p \in Pid, Respawn(p) PROVE IInv'
  <2>1. /\ phase' \in [Pid -> Phase]
        /\ sigCh' \in [Pid -> {"empty", "HUP", "TERM"}]
        /\ \A q \in Pid : phase'[q] \in Holding => lock' = q
        /\ PidFileInv'
        /\ \A d \in Cli : \A q \in Pid : cmd[d].pid = q => phase'[q] \in Seen
    BY <1>3, SpawnPreserves DEF Respawn
  <2>2. unit' = p /\ UNCHANGED <<lock, pidFile, targets, cmd, faults>>
    BY <1>3 DEF Respawn
  <2>3. QED
    BY <1>0, <2>1, <2>2 DEF IInv, TypeOK, LockInv, ReadInv, OpInv, MayBeAt
<1>4. ASSUME NEW c \in Cli, BeginStart(c) PROVE IInv'
  <2>1. /\ Begins(c, "start", "cleanup", None)
        /\ targets' \in [Pid \cup Cli -> SUBSET Pid]
        /\ UNCHANGED <<phase, lock, pidFile, sigCh, unit, faults>>
    BY <1>0, <1>4 DEF BeginStart, ForegroundDaemons, TypeOK
  <2>2. PidFileInv'
    BY <1>0, <2>1 DEF PidFileInv, ServerOwnsPidFile
  <2>3. RestKept(c)
    BY <1>0, <2>1, <2>2 DEF RestKept, TypeOK, LockInv, ReadInv
  <2>4. "start" \in AllOps /\ "cleanup" \in Step \ {"release"} /\ None \notin Pid
    BY PidCliAssumption DEF AllOps, Step
  <2>5. QED
    BY <2>1, <2>3, <2>4, MoveIInv
<1>5. ASSUME NEW c \in Cli, BeginStop(c) PROVE IInv'
  <2>1. /\ Begins(c, "stop", "stopRead", None)
        /\ Deliver(c, {unit}, "TERM") /\ phase' = AfterSignal({unit})
        /\ unit' = None /\ UNCHANGED <<pidFile, faults>>
    BY <1>5 DEF BeginStop
  <2>2. RestKept(c)
    BY <2>1, SendKept
  <2>3. "stop" \in AllOps /\ "stopRead" \in Step \ {"release"} /\ None \notin Pid
    BY PidCliAssumption DEF AllOps, Step
  <2>4. QED
    BY <2>1, <2>2, <2>3, MoveIInv
<1>6. ASSUME NEW c \in Cli, NEW o \in {"restart", "notify"}, NEW t \in {"before", "notify"},
             t = "notify" => o = "notify", Begins(c, o, t, pidFile), NoSignal
      PROVE  IInv'
  <2>1. RestKept(c) /\ (pidFile \in Pid => phase'[pidFile] \in Seen)
    BY <1>6, QuietKept
  <2>2. o \in AllOps /\ t \in Step \ {"release"} /\ pidFile \in Pid \cup {None}
    BY <1>0 DEF AllOps, Step, TypeOK
  <2>3. QED
    BY <1>6, <2>1, <2>2, MoveIInv
<1>7. ASSUME NEW c \in Cli, BeginRestart(c) PROVE IInv'
  BY <1>6, <1>7 DEF BeginRestart
<1>8. ASSUME NEW c \in Cli, BeginNotify(c) PROVE IInv'
  BY <1>6, <1>8 DEF BeginNotify
<1>9. ASSUME NEW c \in Cli, Bootout(c) PROVE IInv'
  <2>1. /\ Deliver(c, {unit}, "TERM") /\ phase' = AfterSignal({unit})
        /\ unit' = None /\ UNCHANGED <<pidFile, faults, cmd>>
    BY <1>9 DEF Bootout
  <2>2. /\ RestKept(c)
        /\ \A d \in Cli : lock = d => lock' = d
    BY <1>0, <2>1, SendKept, SignalPreserves
  <2>3. TypeOK'
    BY <1>0, <2>1, <2>2 DEF TypeOK, RestKept
  <2>4. LockInv' /\ ReadInv' /\ OpInv'
    BY <1>0, <2>1, <2>2 DEF LockInv, ReadInv, OpInv, MayBeAt, RestKept
  <2>5. QED
    BY <2>2, <2>3, <2>4 DEF IInv, RestKept
<1>10. ASSUME NEW c \in Cli, Abort(c) PROVE IInv'
  <2>1. /\ cmd' = [cmd EXCEPT ![c] = Idle]
        /\ lock' = IF lock = c THEN None ELSE lock
        /\ targets' \in [Pid \cup Cli -> SUBSET Pid]
        /\ UNCHANGED <<phase, pidFile, sigCh, unit, faults>>
    BY <1>0, <1>10 DEF Abort, TypeOK
  <2>2. QED
    BY <2>1, IdleIInv
<1>11. QED
  BY <1>1, <1>2, <1>3, <1>4, <1>5, <1>7, <1>8, <1>9, <1>10 DEF Environment

-----------------------------------------------------------------------------
LEMMA StepIInv == IInv /\ [Next]_vars => IInv'
<1> SUFFICES ASSUME IInv, [Next]_vars PROVE IInv'
  OBVIOUS
<1>1. CASE UNCHANGED vars
  BY <1>1 DEF vars, IInv, TypeOK, LockInv, PidFileInv, ServerOwnsPidFile, ReadInv, OpInv, MayBeAt
<1>2. CASE Next
  BY <1>2, DaemonIInv, CliIInv, EnvironmentIInv DEF Next
<1>3. QED
  BY <1>1, <1>2

(* IInv is an invariant of the daemon's life cycle. *)
THEOREM Invariance == Spec => []IInv
  BY InitIInv, StepIInv, PTL DEF Spec

(* Every variable keeps its type. *)
THEOREM TypeCorrect == Spec => []TypeOK
<1>1. IInv => TypeOK
  BY DEF IInv
<1>2. QED
  BY <1>1, Invariance, PTL

(* At most one daemon process at a time is past AcquireLock. *)
THEOREM OneServer == Spec => []SingleServer
<1>1. IInv => SingleServer
  BY DEF IInv, LockInv, SingleServer
<1>2. QED
  BY <1>1, Invariance, PTL

(* No other process overwrites or removes the PID file of a daemon that has
   published it. *)
THEOREM PidFileKept == Spec => []ServerOwnsPidFile
<1>1. IInv => ServerOwnsPidFile
  BY DEF IInv, PidFileInv
<1>2. QED
  BY <1>1, Invariance, PTL

(* A live process named by daemon.pid holds the lock with its servers bound. *)
THEOREM PidFileTrusted == Spec => []LivePidServes
<1>1. IInv => LivePidServes
  BY DEF IInv, TypeOK, LockInv, PidFileInv, LivePidServes, Running
<1>2. QED
  BY <1>1, Invariance, PTL

-----------------------------------------------------------------------------
(* Moving command d to a step other than "ok" makes no command "ok". *)
LEMMA NotOk ==
  ASSUME TypeOK, NEW c \in Cli, NEW d \in Cli, NEW t \in Step \ {"ok"},
         NEW p \in Pid \cup {None}, Moves(d, t, p), cmd[c].step # "ok"
  PROVE  cmd'[c].step # "ok"
  BY CommandStep

(* A restart turns to "ok" only when the process it read from daemon.pid is
   alive to kill(0): in Verify, or in Plan once another has replaced it. *)
LEMMA OkNeedsDaemon ==
  ASSUME IInv, NEW c \in Cli, Next, cmd[c].op = "restart",
         cmd[c].step # "ok", cmd'[c].step = "ok"
  PROVE  Alive(cmd[c].pid)
<1> USE DEF At
<1>0. TypeOK /\ OpInv
  BY DEF IInv
<1>1. ASSUME NEW p \in Pid, DaemonStep(p) PROVE FALSE
  BY <1>1 DEF DaemonStep, ListOthers, SignalOthers, AcquireLock, BindServers, WritePID,
              InstallHandlers, HandleHup, HandleTerm, RemovePID, ReleaseLock, cliVars
<1>2. ASSUME Environment PROVE FALSE
  <2> USE DEF Step, AllOps
  <2>1. ASSUME NEW p \in Pid, StartupFails(p) \/ Kill(p) \/ Respawn(p) PROVE cmd' = cmd
    BY <2>1 DEF StartupFails, Kill, Respawn, cliVars
  <2>2. ASSUME NEW d \in Cli, Bootout(d) PROVE cmd' = cmd
    BY <2>2 DEF Bootout
  <2>3. ASSUME NEW d \in Cli, NEW o \in AllOps, NEW t \in Step \ {"ok"},
               NEW p \in Pid \cup {None}, Begins(d, o, t, p)
        PROVE  FALSE
    BY <1>0, <2>3, CommandBegins
  <2>4. ASSUME NEW d \in Cli, BeginStart(d) \/ BeginStop(d) PROVE FALSE
    BY <2>3, <2>4 DEF BeginStart, BeginStop
  <2>5. ASSUME NEW d \in Cli, BeginRestart(d) \/ BeginNotify(d) PROVE FALSE
    BY <1>0, <2>3, <2>5 DEF BeginRestart, BeginNotify, TypeOK
  <2>6. ASSUME NEW d \in Cli, Abort(d) PROVE FALSE
    BY <1>0, <2>6 DEF Abort, Idle, TypeOK
  <2>7. QED
    BY <1>2, <2>1, <2>2, <2>4, <2>5, <2>6 DEF Environment
<1>3. ASSUME NEW d \in Cli, CliStep(d) PROVE Alive(cmd[c].pid)
  <2> USE DEF Step, Moves
  <2>0. /\ pidFile \in Pid \cup {None} /\ Found(d) \in Pid \cup {None}
        /\ None \in Pid \cup {None} /\ cmd[d].pid \in Pid \cup {None}
    BY <1>0 DEF TypeOK, Command, Found, Alive
  <2>1. CASE StartCleanup(d) \/ ReleaseProbe(d) \/ StopList(d) \/ Install(d)
    <3>1. PICK t \in {"checkRead", "spawn", "stopClean", "managedVerify"} : Goto(d, t)
      BY <2>1 DEF StartCleanup, ReleaseProbe, StopList, Install
    <3>2. QED
      BY <1>0, <2>0, <3>1, NotOk
  <2>2. CASE ReadPID(d) \/ CheckPid(d) \/ InstallFails(d) \/ ManagedWait(d)
             \/ DirectWait(d) \/ ManagedKill(d)
    <3>1. PICK t \in Step \ {"ok"}, p \in Pid \cup {None} : Waits(d, t, p)
      BY <2>0, <2>2 DEF ReadPID, CheckPid, Refused, InstallFails, ManagedWait, DirectWait,
                        ManagedKill
    <3>2. QED
      BY <1>0, <3>1, NotOk
  <2>3. CASE ProbeLock(d)
    <3>1. PICK t \in {"release", "refused", "verify"} : Goto(d, t)
      BY <2>3 DEF ProbeLock, Refused
    <3>2. QED
      BY <1>0, <2>0, <3>1, NotOk
  <2>4. CASE StopByFile(d)
    <3>1. Goto(d, "error") \/ Waits(d, "stopList", None)
      BY <2>4 DEF StopByFile
    <3>2. QED
      BY <1>0, <2>0, <3>1, NotOk
  <2>5. CASE StateBefore(d)
    <3>1. Recalls(d, "managedRead", None, Found(d))
      BY <2>5 DEF StateBefore
    <3>2. Moves(d, "managedRead", None)
      BY <2>0, <3>1
    <3>3. QED
      BY <1>0, <2>0, <3>2, NotOk
  <2>6. CASE Finish(d)
    BY <1>0, <2>6 DEF Finish, Idle, TypeOK
  <2>7. CASE SpawnChild(d)
    <3>1. PICK p \in Pid : Starts(d, IF cmd[d].op = "start" THEN "ok" ELSE "verify", p)
      BY <2>7 DEF SpawnChild
    <3>2. CASE cmd[d].op = "start"
      <4>1. Moves(d, "ok", None)
        BY <3>1, <3>2
      <4>2. d # c
        BY <3>2
      <4>3. QED
        BY <1>0, <2>0, <4>1, <4>2, CommandStep
    <3>3. CASE cmd[d].op # "start"
      <4>1. Moves(d, "verify", None)
        BY <3>1, <3>3
      <4>2. QED
        BY <1>0, <2>0, <4>1, NotOk
    <3>4. QED
      BY <3>2, <3>3
  <2>8. CASE StopClean(d) \/ Notify(d)
    <3>1. d # c
      BY <1>0, <2>8 DEF StopClean, Notify, OpInv, MayBeAt
    <3>2. Moves(d, "ok", None)
      BY <2>8 DEF StopClean, Notify
    <3>3. QED
      BY <1>0, <2>0, <3>1, <3>2, CommandStep
  <2>9. CASE Verify(d)
    <3>1. CASE d = c /\ Alive(cmd[d].pid)
      BY <3>1
    <3>2. CASE Alive(cmd[d].pid) /\ d # c
      <4>1. Moves(d, "ok", None)
        BY <2>0, <2>9, <3>2 DEF Verify
      <4>2. QED
        BY <1>0, <2>0, <3>2, <4>1, CommandStep
    <3>3. CASE ~Alive(cmd[d].pid)
      <4>1. PICK t \in Step \ {"ok"}, p \in Pid \cup {None} : Waits(d, t, p)
        BY <2>0, <2>9, <3>3 DEF Verify
      <4>2. QED
        BY <1>0, <4>1, NotOk
    <3>4. QED
      BY <3>1, <3>2, <3>3
  <2>10. CASE Plan(d)
    <3>1. PICK t \in {"checkRead", "directWait", "ok"}, p \in {None, Found(d)} :
            Recalls(d, t, p, None) /\ (Found(d) = None => t = "checkRead")
      BY <2>10 DEF Plan
    <3>2. Moves(d, t, p) /\ p \in Pid \cup {None}
      BY <2>0, <3>1
    <3>3. CASE d = c /\ Found(d) # None
      BY <3>3 DEF Found
    <3>4. CASE d # c
      <4> HIDE DEF Moves
      <4>1. cmd'[c] = cmd[c]
        BY <1>0, <3>2, <3>4, CommandStep
      <4>2. QED
        BY <4>1
    <3>5. CASE Found(d) = None
      BY <1>0, <3>1, <3>2, <3>5, NotOk
    <3>6. QED
      BY <3>3, <3>4, <3>5
  <2>11. QED
    BY <1>3, <2>1, <2>2, <2>3, <2>4, <2>5, <2>6, <2>7, <2>8, <2>9, <2>10 DEF CliStep
<1>4. QED
  BY <1>1, <1>2, <1>3 DEF Next

(* `daemon restart` reports success only for a process it read from daemon.pid
   and found alive, and such a process has bound its servers before. *)
THEOREM RestartChecked == Spec => RestartVerified
<1> DEFINE Checked == \A c \in Cli :
      cmd[c].op = "restart" /\ cmd[c].step # "ok" /\ cmd'[c].step = "ok"
        => FoundDaemon(c)
<1>1. IInv /\ [Next]_vars => [Checked]_vars
  <2> SUFFICES ASSUME IInv, Next, NEW c \in Cli, cmd[c].op = "restart",
                      cmd[c].step # "ok", cmd'[c].step = "ok"
               PROVE  FoundDaemon(c)
    OBVIOUS
  <2>1. Alive(cmd[c].pid)
    BY OkNeedsDaemon
  <2>2. cmd[c].pid \in Pid /\ (phase[cmd[c].pid] # "gone" \/ Unreaped(cmd[c].pid))
    BY <2>1 DEF Alive, Running
  <2>3. phase[cmd[c].pid] \in Seen
    BY <2>2 DEF IInv, ReadInv
  <2>4. QED
    BY <2>2, <2>3 DEF FoundDaemon
<1>2. QED
  BY <1>1, Invariance, PTL DEF Spec, RestartVerified

=============================================================================
