--------------------------- MODULE CommandsProofs ---------------------------
(***************************************************************************)
(* Commands for any runs, containers and commands: no child is left        *)
(* running unknown, and no command ends what it was not asked to.          *)
(***************************************************************************)
EXTENDS Commands, TLAPS

RunType ==
  /\ at \in [Run -> {"off", "start", "save", "wait", "serve", "done", "crashed", "lost"}]
  /\ child \in [Run -> {"none", "alive", "gone"}]
  /\ helper \in [Run -> {"none", "group", "detached"}]
  /\ doomed \in [Run -> BOOLEAN]

AccountInv == RunType /\ Accounted

runVars == <<at, child, helper, doomed, leases>>

-----------------------------------------------------------------------------

LEMMA AccountInit == Init => AccountInv
  BY DEF Init, AccountInv, RunType, Accounted

(* SIGKILL to a group reaches a child that lives, and nobody is spared later. *)
LEMMA GroupKilled ==
  ASSUME RunType, NEW r \in Run, KillGroup(r)
  PROVE  /\ doomed' \in [Run -> BOOLEAN]
         /\ \A q \in Run : doomed[q] => doomed'[q]
         /\ child[r] = "alive" => doomed'[r]
  <1> InGroup(r) \in BOOLEAN
    BY DEF InGroup
  <1> QED
    BY DEF RunType, KillGroup, InGroup

(* What leaves every run where it is, and takes no lease of a living child. *)
LEMMA AccountSame ==
  ASSUME AccountInv, UNCHANGED <<at, helper>>, doomed' \in [Run -> BOOLEAN],
         \A q \in Run : doomed[q] => doomed'[q],
         child' \in [Run -> {"none", "alive", "gone"}],
         \A q \in Run : child'[q] = "alive" => child[q] = "alive",
         \A q \in Run : child'[q] = "alive" /\ q \in leases => q \in leases' \/ doomed'[q]
  PROVE  AccountInv'
  <1>1. RunType'
    BY DEF AccountInv, RunType
  <1>2. Accounted'
    BY DEF AccountInv, Accounted
  <1> QED
    BY <1>1, <1>2 DEF AccountInv

LEMMA AccountStutter == AccountInv /\ UNCHANGED runVars => AccountInv'
  BY DEF AccountInv, RunType, Accounted, runVars

-----------------------------------------------------------------------------
(* dnsvard run                                                             *)

LEMMA AccountBegins ==
  ASSUME AccountInv, NEW r \in Run,
         Start(r) \/ Listen(r) \/ Upsert(r) \/ Serve(r) \/ Signal(r)
  PROVE  AccountInv'
  <1>1. CASE Start(r)
    <2>1. RunType'
      BY <1>1 DEF AccountInv, RunType, Start, Goto
    <2>2. Accounted'
      BY <1>1 DEF AccountInv, RunType, Accounted, Start, Goto
    <2> QED
      BY <2>1, <2>2 DEF AccountInv
  <1>2. CASE Listen(r) \/ Serve(r)
    BY <1>2 DEF AccountInv, RunType, Accounted, Listen, Serve, Goto, group
  <1>3. CASE Upsert(r)
    BY <1>3 DEF AccountInv, RunType, Accounted, Upsert, Goto, group
  <1>4. CASE Signal(r)
    BY <1>4 DEF AccountInv, RunType, Accounted, Signal, Goto, group
  <1> QED
    BY <1>1, <1>2, <1>3, <1>4

(* A run that cannot save its lease kills its child first. *)
LEMMA AccountUpsertFails ==
  ASSUME AccountInv, NEW r \in Run, UpsertFails(r)
  PROVE  AccountInv'
  <1>1. /\ doomed' \in [Run -> BOOLEAN]
        /\ \A q \in Run : doomed[q] => doomed'[q]
        /\ child[r] = "alive" => doomed'[r]
    BY GroupKilled DEF AccountInv, UpsertFails
  <1>2. /\ at' = [at EXCEPT ![r] = "done"]
        /\ UNCHANGED <<child, helper, leases>>
    BY DEF UpsertFails, Goto
  <1>3. RunType'
    BY <1>1, <1>2 DEF AccountInv, RunType
  <1>4. Accounted'
    BY <1>1, <1>2 DEF AccountInv, RunType, Accounted
  <1> QED
    BY <1>3, <1>4 DEF AccountInv

LEMMA AccountAdvances ==
  ASSUME AccountInv, NEW r \in Run, TakeSignal(r) \/ Escalate(r)
  PROVE  AccountInv'
  <1>1. KillGroup(r) \/ UNCHANGED doomed
    BY DEF TakeSignal, Escalate, Advance
  <1>2. UNCHANGED <<at, child, helper, leases>>
    BY DEF TakeSignal, Escalate
  <1>3. doomed' \in [Run -> BOOLEAN] /\ \A q \in Run : doomed[q] => doomed'[q]
    BY <1>1, GroupKilled DEF AccountInv, RunType
  <1> QED
    BY <1>2, <1>3, AccountSame DEF AccountInv, RunType

(* The lease a run takes away when it returns is that of a child that has ended. *)
LEMMA AccountEnds ==
  ASSUME AccountInv, NEW r \in Run, Return(r) \/ Crash(r)
  PROVE  AccountInv'
  <1>1. CASE Return(r)
    BY <1>1 DEF AccountInv, RunType, Accounted, Return, Goto, group
  <1>2. CASE Crash(r)
    BY <1>2 DEF AccountInv, RunType, Accounted, Crash, Goto, group
  <1> QED
    BY <1>1, <1>2

LEMMA AccountProcesses ==
  ASSUME AccountInv, NEW r \in Run, Forks(r) \/ ChildExits(r) \/ HelperExits(r)
  PROVE  AccountInv'
  <1>1. CASE Forks(r)
    BY <1>1 DEF AccountInv, RunType, Accounted, Forks, runs
  <1>2. CASE ChildExits(r)
    BY <1>2 DEF AccountInv, RunType, Accounted, ChildExits, runs
  <1>3. CASE HelperExits(r)
    BY <1>3 DEF AccountInv, RunType, Accounted, HelperExits, runs
  <1> QED
    BY <1>1, <1>2, <1>3

(* The daemon drops only leases of children that have ended. *)
LEMMA AccountPrune == AccountInv /\ Prune => AccountInv'
  BY DEF AccountInv, RunType, Accounted, Prune, runs, group

-----------------------------------------------------------------------------
(* stop, kill and rm                                                       *)

(* kill signals before it removes a lease, whatever has become of the run since
   it was listed. *)
LEMMA AccountSignalLease ==
  ASSUME AccountInv, NEW t \in Command, NEW r \in Run, SignalLease(t, r)
  PROVE  AccountInv'
  <1>1. UNCHANGED <<at, child, helper>>
    BY DEF SignalLease, runs
  <1>2. CASE KillGroup(r) /\ leases' = leases \ {r}
    <2>1. /\ doomed' \in [Run -> BOOLEAN]
          /\ \A q \in Run : doomed[q] => doomed'[q]
          /\ child[r] = "alive" => doomed'[r]
      BY <1>2, GroupKilled DEF AccountInv
    <2>2. \A q \in Run : child'[q] = "alive" /\ q \in leases => q \in leases' \/ doomed'[q]
      BY <1>1, <1>2, <2>1
    <2> QED
      BY <1>1, <2>1, <2>2, AccountSame DEF AccountInv, RunType
  <1>3. CASE UNCHANGED <<doomed, leases>>
    BY <1>1, <1>3, AccountStutter DEF runVars
  <1> QED
    BY <1>2, <1>3 DEF SignalLease

LEMMA AccountCommand ==
  ASSUME AccountInv, NEW t \in Command,
         \/ Invoke(t) \/ ListIds(t) \/ Choose(t) \/ Finish(t)
         \/ \E c \in Ids : DockerActs(t, c)
  PROVE  AccountInv'
  <1> UNCHANGED runVars
    BY DEF Invoke, ListIds, Choose, Finish, DockerActs, runs, group, runVars
  <1> QED
    BY AccountStutter

LEMMA AccountContainers ==
  ASSUME AccountInv, NEW c \in Ids, ContainerChanges(c)
  PROVE  AccountInv'
  BY AccountStutter DEF ContainerChanges, runs, group, runVars

LEMMA AccountStep == AccountInv /\ [Next]_vars => AccountInv'
  <1> SUFFICES ASSUME AccountInv, [Next]_vars PROVE AccountInv'
    OBVIOUS
  <1>1. CASE \E r \in Run : \/ Start(r) \/ Listen(r) \/ Upsert(r) \/ UpsertFails(r) \/ Serve(r)
                            \/ Signal(r) \/ TakeSignal(r) \/ Escalate(r) \/ Return(r)
                            \/ Forks(r) \/ ChildExits(r) \/ HelperExits(r) \/ Crash(r)
    BY <1>1, AccountBegins, AccountUpsertFails, AccountAdvances, AccountEnds,
       AccountProcesses
  <1>2. CASE Prune
    BY <1>2, AccountPrune
  <1>3. CASE \E t \in Command : Invoke(t) \/ ListIds(t) \/ Choose(t) \/ Finish(t)
    BY <1>3, AccountCommand
  <1>4. CASE \E t \in Command, r \in Run : SignalLease(t, r)
    BY <1>4, AccountSignalLease
  <1>5. CASE \E t \in Command, c \in Ids : DockerActs(t, c)
    BY <1>5, AccountCommand
  <1>6. CASE \E c \in Ids : ContainerChanges(c)
    BY <1>6, AccountContainers
  <1>7. CASE UNCHANGED vars
    BY <1>7, AccountStutter DEF vars, runs, group, runVars
  <1> QED
    BY <1>1, <1>2, <1>3, <1>4, <1>5, <1>6, <1>7 DEF Next

(* Whatever the commands choose and however they interleave,
   a run that ends, fails or is killed leaves its child with a lease or about to
   die. *)
THEOREM ChildrenAccounted == Spec => []Accounted
  <1>1. Init => AccountInv
    BY AccountInit
  <1>2. AccountInv /\ [Next]_vars => AccountInv'
    BY AccountStep
  <1>3. AccountInv => Accounted
    BY DEF AccountInv
  <1> QED
    BY <1>1, <1>2, <1>3, PTL DEF Spec

-----------------------------------------------------------------------------
(* Types: what a command keeps from one step to the next. *)

CommandRecord ==
  [step : {"idle", "ps", "inspect", "signal", "over"}, i : Invocations \cup {Idle.i},
   leases : SUBSET Run, listed : SUBSET Ids,
   runs : SUBSET Run, ids : SUBSET Ids, acted : SUBSET Ids]

(* Whoever has been chosen or ended was listed, and is meant. *)
ChosenWell(c) ==
  /\ c.step # "idle" => c.i \in Invocations
  /\ c.step \in {"idle", "ps", "inspect"} => c.ids = {} /\ c.acted = {}
  /\ \A n \in DOMAIN Containers :
       Containers[n].id \in c.ids \cup c.acted =>
         Containers[n].id \in c.listed /\ MayMean(c.i, Containers[n])

(* Who is listed has been there, and no container is new again. *)
Known(c) == \A x \in c.listed : docker[x] # "new"

ActInv ==
  /\ docker \in [Ids -> {"new", "running", "stopped", "gone"}]
  /\ leases \subseteq Run
  /\ cmd \in [Command -> CommandRecord]
  /\ \A t \in Command : ChosenWell(cmd[t]) /\ Known(cmd[t])

(* The escalation of a shutdown, and the bounds. *)
LoopInv ==
  /\ piped \in [Run -> BOOLEAN]
  /\ inbox \in [Run -> 0 .. 2]
  /\ phase \in [Run -> 0 .. 3]
  /\ timer \in [Run -> {"none", "running"}]
  /\ \A r \in Run : timer[r] = "running" <=> phase[r] \in {1, 2}
  /\ signals \in 0 .. MaxSignals /\ changes \in 0 .. MaxChanges

-----------------------------------------------------------------------------

LEMMA PrefixOfItself ==
  ASSUME NEW s \in Seq(STRING)
  PROVE  IsPrefix(s, s)
  BY DEF IsPrefix

LEMMA ShortSequence ==
  ASSUME NEW S, NEW s \in Seq(S), Len(s) <= 3, NEW k \in DOMAIN s
  PROVE  k \in {1, 2, 3} /\ Len(s) \in Nat /\ k <= Len(s) /\ (k = 3 => Len(s) = 3)
  <1>1. ASSUME NEW l \in Nat, l <= 3, k \in 1 .. l
        PROVE  k \in {1, 2, 3} /\ k <= l /\ (k = 3 => l = 3)
    BY <1>1
  <1>2. Len(s) \in Nat /\ k \in 1 .. Len(s)
    OBVIOUS
  <1> QED
    BY <1>1, <1>2

LEMMA ContainerFields ==
  ASSUME NEW n \in DOMAIN Containers
  PROVE  Containers[n].id \in Ids /\ Containers[n].name \in Seq(STRING)
  <1> DEFINE Records == [id : Seq(STRING), name : Seq(STRING), service : Seq(STRING),
                         project : Seq(STRING), workspace : Seq(STRING)]
  <1>1. Containers \in Seq(Records)
    BY ContainersAssumption
  <1> HIDE DEF Records
  <1>2. Containers[n] \in Records
    BY <1>1
  <1> QED
    BY <1>2 DEF Records, Ids

(* A target that names a container means it, in every mode. *)
LEMMA NamedMeant ==
  ASSUME NEW n \in DOMAIN Containers, NEW i \in Invocations,
         i.kind \in {"container", "bare"},
         Containers[n].name = i.of \/ IsPrefix(i.of, Containers[n].id)
  PROVE  Means(i, Containers[n])
  <1>1. Matches(Containers[n].name, Containers[n].name, i.mode)
    BY ContainerFields, PrefixOfItself DEF Matches
  <1> QED
    BY <1>1 DEF Means

(* The paths that workspace targets are matched with are those the help text
   speaks of. *)
LEMMA WorkspaceMeant ==
  ASSUME NEW n \in DOMAIN Containers, NEW i \in Invocations, i.kind = "workspace",
         InWorkspace(Containers[n], i.of, i.mode)
  PROVE  Means(i, Containers[n])
  <1> DEFINE c == Containers[n]
  <1>1. CASE i.mode = "regex"
    BY <1>1 DEF InWorkspace, Means
  <1>2. CASE i.mode # "regex"
    <2>1. i.of \in Seq(Seq(STRING)) /\ Len(i.of) <= 3
      BY <1>2, InvocationsAssumption DEF InvocationType
    <2>2. PICK m \in {c.service, c.name} : Len(i.of) = 3 => Matches(m, i.of[3], i.mode)
      BY <1>2 DEF InWorkspace
    <2> DEFINE p == <<c.project, c.workspace, m>>
    <2>3. p \in Paths(c) /\ Len(p) = 3
      BY DEF Paths
    <2>4. ASSUME NEW k \in DOMAIN i.of
          PROVE  Matches(p[k], i.of[k], i.mode)
      <3>1. k \in {1, 2, 3} /\ Len(i.of) \in Nat /\ k <= Len(i.of) /\ (k = 3 => Len(i.of) = 3)
        BY <2>1, ShortSequence
      <3>2. CASE k = 1
        BY <1>2, <2>1, <3>1, <3>2 DEF InWorkspace
      <3>3. CASE k = 2
        BY <1>2, <2>1, <3>1, <3>3 DEF InWorkspace
      <3>4. CASE k = 3
        <4>1. Len(i.of) = 3
          BY <3>1, <3>4
        <4>2. p[3] = m
          OBVIOUS
        <4> QED
          BY <2>2, <3>4, <4>1, <4>2
      <3> QED
        BY <3>1, <3>2, <3>3, <3>4
    <2> QED
      BY <1>2, <2>3, <2>4 DEF Means
  <1> QED
    BY <1>1, <1>2

(* What rm chooses. *)
LEMMA RemoveMeant ==
  ASSUME NEW i \in Invocations, i.op \in {"rm", "rm -f"},
         NEW listing \in SUBSET DOMAIN Containers,
         NEW n \in DOMAIN Containers, Containers[n].id \in ToRemove(listing, i)
  PROVE  n \in listing /\ MayMean(i, Containers[n])
  <1>1. n \in Filtered(listing, i)
    BY ContainersAssumption DEF ToRemove, IdsOf, Filtered
  <1>2. n \in listing
    BY <1>1 DEF Filtered
  <1>3. i.kind \in {"all", "lease", "container", "workspace", "bare"}
    BY InvocationsAssumption DEF InvocationType
  <1>4. CASE i.kind = "all"
    BY <1>2, <1>4 DEF MayMean, Means
  <1>5. CASE i.kind = "lease"
    BY <1>1, <1>5 DEF Filtered
  <1>6. CASE i.kind = "workspace"
    BY <1>1, <1>6, WorkspaceMeant DEF Filtered, MayMean
  <1>7. CASE i.kind = "container"
    BY <1>1, <1>7 DEF Filtered, MayMean, Means
  <1>8. CASE i.kind = "bare"
    BY <1>1, <1>8 DEF Filtered, MayMean, Means
  <1> QED
    BY <1>2, <1>3, <1>4, <1>5, <1>6, <1>7, <1>8

(* What stop and kill choose. *)
LEMMA SignalMeant ==
  ASSUME NEW i \in Invocations, NEW listed \in SUBSET Run,
         NEW listing \in SUBSET DOMAIN Containers
  PROVE  /\ ToSignal(listed, listing, i).runs \subseteq Run
         /\ ToSignal(listed, listing, i).ids \subseteq Ids
         /\ \A n \in DOMAIN Containers :
              Containers[n].id \in ToSignal(listed, listing, i).ids =>
                n \in listing /\ Means(i, Containers[n])
  <1> DEFINE named == {n \in listing : \/ Containers[n].name = i.of
                                       \/ IsPrefix(i.of, Containers[n].id)}
             first == {n \in RunningOf(named) : \A m \in named : n <= m}
             within == {n \in RunningOf(listing) : InWorkspace(Containers[n], i.of, i.mode)}
             lease == {r \in listed : r = i.of}
             Good(ns) == /\ IdsOf(ns) \subseteq Ids
                         /\ \A n \in DOMAIN Containers :
                              Containers[n].id \in IdsOf(ns) => n \in listing /\ Means(i, Containers[n])
  <1>1. ASSUME NEW ns \in SUBSET listing, \A n \in ns : Means(i, Containers[n])
        PROVE  Good(ns)
    BY <1>1, ContainersAssumption DEF IdsOf, Ids
  <1>2. /\ first \subseteq named /\ named \subseteq listing /\ within \subseteq listing
        /\ RunningOf(listing) \subseteq listing /\ lease \subseteq Run
        /\ Good({}) /\ IdsOf({}) = {}
    BY DEF RunningOf, IdsOf
  <1> HIDE DEF Good
  <1>3. i.kind \in {"all", "lease", "container", "workspace", "bare"}
    BY InvocationsAssumption DEF InvocationType
  <1>4. CASE i.kind = "all"
    <2>1. Good(RunningOf(listing))
      BY <1>1, <1>2, <1>4 DEF Means
    <2>2. ToSignal(listed, listing, i) = [runs |-> listed, ids |-> IdsOf(RunningOf(listing))]
      BY <1>4 DEF ToSignal
    <2> QED
      BY <2>1, <2>2 DEF Good
  <1>5. CASE i.kind = "lease"
    <2>1. ToSignal(listed, listing, i) = [runs |-> lease, ids |-> {}]
      BY <1>5 DEF ToSignal
    <2> QED
      BY <1>2, <2>1
  <1>6. CASE i.kind = "workspace"
    <2>1. \A n \in within : n \in DOMAIN Containers /\ Means(i, Containers[n])
      BY <1>2, <1>6, WorkspaceMeant
    <2>2. Good(within)
      BY <1>1, <1>2, <2>1
    <2>3. ToSignal(listed, listing, i) = [runs |-> {}, ids |-> IdsOf(within)]
      BY <1>6 DEF ToSignal
    <2> QED
      BY <2>2, <2>3 DEF Good
  <1>7. CASE i.kind \in {"container", "bare"}
    <2>1. \A n \in first : n \in DOMAIN Containers /\ Means(i, Containers[n])
      BY <1>2, <1>7, NamedMeant
    <2>2. Good(first)
      BY <1>1, <1>2, <2>1
    <2>3. CASE i.kind = "container"
      <3>1. ToSignal(listed, listing, i) = [runs |-> {}, ids |-> IdsOf(first)]
        BY <2>3 DEF ToSignal
      <3> QED
        BY <2>2, <3>1 DEF Good
    <2>4. CASE i.kind = "bare"
      <3>1. ToSignal(listed, listing, i) =
              [runs |-> lease, ids |-> IF lease = {} THEN IdsOf(first) ELSE {}]
        BY <2>4 DEF ToSignal
      <3> QED
        BY <1>2, <2>2, <3>1 DEF Good
    <2> QED
      BY <1>7, <2>3, <2>4
  <1> QED
    BY <1>3, <1>4, <1>5, <1>6, <1>7

-----------------------------------------------------------------------------
(* The commands, step by step. *)

LEMMA IdleType ==
  /\ Idle \in CommandRecord
  /\ Idle.listed = {} /\ Idle.ids = {} /\ Idle.acted = {}
  BY DEF Idle, CommandRecord

LEMMA ActInit == Init => ActInv
  <1> SUFFICES ASSUME Init PROVE ActInv
    OBVIOUS
  <1>1. Idle \in CommandRecord /\ ChosenWell(Idle) /\ Known(Idle)
    BY DEF Idle, CommandRecord, ChosenWell, Known
  <1> QED
    BY <1>1 DEF Init, ActInv

(* No container becomes new. *)
Aging ==
  /\ docker' \in [Ids -> {"new", "running", "stopped", "gone"}]
  /\ \A x \in Ids : docker[x] # "new" => docker'[x] # "new"

LEMMA ActSame ==
  ASSUME ActInv, UNCHANGED cmd, leases' \subseteq Run, Aging
  PROVE  ActInv'
  <1>1. ASSUME NEW t \in Command
        PROVE  Known(cmd[t])'
    <2>1. cmd[t].listed \subseteq Ids
      BY DEF ActInv, CommandRecord
    <2> QED
      BY <2>1 DEF ActInv, Aging, Known
  <1>2. ASSUME NEW t \in Command
        PROVE  ChosenWell(cmd[t])'
    BY DEF ActInv, ChosenWell
  <1> QED
    BY <1>1, <1>2 DEF ActInv, Aging

LEMMA ActSet ==
  ASSUME ActInv, NEW t \in Command, NEW c, Set(t, c), leases' \subseteq Run, Aging,
         c \in CommandRecord, ChosenWell(c), \A x \in c.listed : docker'[x] # "new"
  PROVE  ActInv'
  <1>1. cmd' = [cmd EXCEPT ![t] = c]
    BY DEF Set
  <1>2. cmd' \in [Command -> CommandRecord]
    BY <1>1 DEF ActInv
  <1>3. ASSUME NEW u \in Command
        PROVE  ChosenWell(cmd'[u]) /\ \A x \in cmd'[u].listed : docker'[x] # "new"
    <2>1. CASE u = t
      BY <1>1, <2>1 DEF ActInv
    <2>2. CASE u # t
      <3>1. cmd'[u] = cmd[u] /\ cmd[u].listed \subseteq Ids
        BY <1>1, <2>2 DEF ActInv, CommandRecord
      <3> QED
        BY <3>1 DEF ActInv, Aging, Known
    <2> QED
      BY <2>1, <2>2
  <1>4. ASSUME NEW u \in Command
        PROVE  ChosenWell(cmd[u])' /\ Known(cmd[u])'
    BY <1>3 DEF ChosenWell, Known
  <1> QED
    BY <1>2, <1>4 DEF ActInv, Aging

LEMMA Ageless == ActInv /\ UNCHANGED docker => Aging
  BY DEF ActInv, Aging

LEMMA ActInvoke ==
  ASSUME ActInv, NEW t \in Command, Invoke(t)
  PROVE  ActInv'
  <1>1. PICK i \in Invocations :
          Set(t, [Idle EXCEPT !.step = "ps", !.i = i,
                  !.leases = IF i.op \in {"stop", "kill"} THEN leases ELSE {}])
    BY DEF Invoke
  <1> DEFINE ls == IF i.op \in {"stop", "kill"} THEN leases ELSE {}
             c == [Idle EXCEPT !.step = "ps", !.i = i, !.leases = ls]
  <1>2. Set(t, c)
    BY <1>1
  <1>3. ls \subseteq Run
    BY DEF ActInv
  <1> HIDE DEF ls
  <1>4. /\ c \in CommandRecord /\ c.i = i
        /\ c.listed = {} /\ c.ids = {} /\ c.acted = {}
    BY <1>3, IdleType DEF CommandRecord
  <1> HIDE DEF c
  <1>5. ChosenWell(c)
    BY <1>4 DEF ChosenWell
  <1>6. Aging /\ leases' \subseteq Run
    BY Ageless DEF Invoke, ActInv
  <1> QED
    BY <1>2, <1>4, <1>5, <1>6, ActSet

LEMMA ActListIds ==
  ASSUME ActInv, NEW t \in Command, ListIds(t)
  PROVE  ActInv'
  <1> DEFINE there == {c \in Ids : Exists(c)}
             c == [cmd[t] EXCEPT !.step = "inspect", !.listed = there]
  <1>1. cmd[t] \in CommandRecord /\ ChosenWell(cmd[t]) /\ cmd[t].step = "ps"
    BY DEF ActInv, ListIds
  <1>2. \A x \in there : docker[x] # "new"
    BY DEF Exists
  <1>3. /\ c \in CommandRecord /\ c.step = "inspect" /\ c.listed = there
        /\ c.i = cmd[t].i /\ c.ids = cmd[t].ids /\ c.acted = cmd[t].acted
    BY <1>1 DEF CommandRecord
  <1>4. Set(t, c) /\ Aging /\ leases' \subseteq Run
    BY Ageless DEF ListIds, ActInv
  <1> HIDE DEF c
  <1>5. ChosenWell(c)
    BY <1>1, <1>3 DEF ChosenWell
  <1>6. \A x \in c.listed : docker'[x] # "new"
    BY <1>2, <1>3 DEF ListIds
  <1> QED
    BY <1>3, <1>4, <1>5, <1>6, ActSet

(* A command that is over keeps what it has listed and ended. *)
LEMMA OverWell ==
  ASSUME ActInv, NEW t \in Command, cmd[t].step # "idle"
  PROVE  /\ Over(t) \in CommandRecord /\ ChosenWell(Over(t))
         /\ Over(t).listed = cmd[t].listed
  <1>1. cmd[t] \in CommandRecord /\ ChosenWell(cmd[t])
    BY DEF ActInv
  <1>2. /\ Over(t) \in CommandRecord /\ Over(t).step = "over" /\ Over(t).i = cmd[t].i
        /\ Over(t).listed = cmd[t].listed /\ Over(t).ids = {} /\ Over(t).acted = cmd[t].acted
    BY <1>1, IdleType DEF Over, CommandRecord
  <1>3. ChosenWell(Over(t))
    BY <1>1, <1>2 DEF ChosenWell
  <1> QED
    BY <1>2, <1>3

LEMMA ActChoose ==
  ASSUME ActInv, NEW t \in Command, Choose(t)
  PROVE  ActInv'
  <1> DEFINE i == cmd[t].i
             chosen == IF i.op \in {"stop", "kill"} THEN ToSignal(cmd[t].leases, Listing(t), i)
                       ELSE [runs |-> {}, ids |-> ToRemove(Listing(t), i)]
             c == [cmd[t] EXCEPT !.step = "signal", !.leases = {},
                                 !.runs = chosen.runs, !.ids = chosen.ids]
  <1>1. /\ cmd[t] \in CommandRecord /\ ChosenWell(cmd[t]) /\ Known(cmd[t])
        /\ cmd[t].step = "inspect" /\ i \in Invocations
    BY DEF ActInv, Choose, ChosenWell
  <1>2. /\ Listing(t) \subseteq DOMAIN Containers
        /\ \A n \in Listing(t) : Containers[n].id \in cmd[t].listed
    BY DEF Listing
  <1>3. /\ chosen.runs \subseteq Run /\ chosen.ids \subseteq Ids
        /\ \A n \in DOMAIN Containers :
             Containers[n].id \in chosen.ids => n \in Listing(t) /\ MayMean(i, Containers[n])
    <2>1. CASE i.op \in {"stop", "kill"}
      <3>1. cmd[t].leases \subseteq Run
        BY <1>1 DEF CommandRecord
      <3> QED
        BY <1>1, <1>2, <2>1, <3>1, SignalMeant DEF MayMean
    <2>2. CASE i.op \notin {"stop", "kill"}
      <3>1. i.op \in {"rm", "rm -f"}
        BY <1>1, <2>2, InvocationsAssumption DEF InvocationType
      <3>2. ToRemove(Listing(t), i) \subseteq Ids
        BY <1>2 DEF ToRemove, IdsOf, Filtered, Ids
      <3> QED
        BY <1>1, <1>2, <2>2, <3>1, <3>2, RemoveMeant
    <2> QED
      BY <2>1, <2>2
  <1>4. Set(t, Over(t)) \/ Set(t, c)
    BY DEF Choose
  <1> HIDE DEF chosen
  <1>5. /\ c \in CommandRecord /\ c.step = "signal" /\ c.i = i
        /\ c.listed = cmd[t].listed /\ c.ids = chosen.ids /\ c.acted = cmd[t].acted
    BY <1>1, <1>3 DEF CommandRecord
  <1> HIDE DEF c
  <1>6. ChosenWell(c)
    BY <1>1, <1>2, <1>3, <1>5 DEF ChosenWell
  <1>7. Aging /\ leases' \subseteq Run /\ docker' = docker
    BY Ageless DEF Choose, ActInv
  <1>8. \A x \in cmd[t].listed : docker'[x] # "new"
    BY <1>1, <1>7 DEF Known
  <1>9. CASE Set(t, Over(t))
    BY <1>1, <1>7, <1>8, <1>9, OverWell, ActSet
  <1>10. CASE Set(t, c)
    BY <1>5, <1>6, <1>7, <1>8, <1>10, ActSet
  <1> QED
    BY <1>4, <1>9, <1>10

LEMMA ActFinish ==
  ASSUME ActInv, NEW t \in Command, Finish(t)
  PROVE  ActInv'
  <1>1. Set(t, Over(t)) /\ cmd[t].step # "idle"
    BY DEF Finish
  <1>2. Aging /\ leases' \subseteq Run /\ docker' = docker
    BY Ageless DEF Finish, ActInv
  <1>3. \A x \in cmd[t].listed : docker'[x] # "new"
    BY <1>2 DEF ActInv, Known
  <1> QED
    BY <1>1, <1>2, <1>3, OverWell, ActSet

LEMMA ActSignalLease ==
  ASSUME ActInv, NEW t \in Command, NEW r \in Run, SignalLease(t, r)
  PROVE  ActInv'
  <1> DEFINE c == [cmd[t] EXCEPT !.runs = @ \ {r}]
  <1>1. cmd[t] \in CommandRecord /\ ChosenWell(cmd[t]) /\ Known(cmd[t])
    BY DEF ActInv
  <1>2. Set(t, c) /\ Aging /\ leases' \subseteq Run /\ docker' = docker
    BY Ageless DEF SignalLease, ActInv
  <1>3. /\ c \in CommandRecord /\ c.step = cmd[t].step /\ c.i = cmd[t].i
        /\ c.listed = cmd[t].listed /\ c.ids = cmd[t].ids /\ c.acted = cmd[t].acted
    BY <1>1 DEF CommandRecord
  <1> HIDE DEF c
  <1>4. ChosenWell(c)
    BY <1>1, <1>3 DEF ChosenWell
  <1> QED
    BY <1>1, <1>2, <1>3, <1>4, ActSet DEF Known

(* docker is given the ids that were chosen, so whatever has taken a name since
   is left alone. *)
LEMMA ActDocker ==
  ASSUME ActInv, NEW t \in Command, NEW x \in Ids, DockerActs(t, x)
  PROVE  ActInv'
  <1> DEFINE kept == [cmd[t] EXCEPT !.ids = @ \ {x}]
             done == [cmd[t] EXCEPT !.ids = @ \ {x}, !.acted = @ \cup {x}]
  <1>1. /\ cmd[t] \in CommandRecord /\ ChosenWell(cmd[t]) /\ Known(cmd[t])
        /\ cmd[t].step = "signal" /\ x \in cmd[t].ids
    BY DEF ActInv, DockerActs
  <1>2. leases' \subseteq Run
    BY DEF DockerActs, ActInv
  <1>3. CASE Set(t, kept) /\ UNCHANGED docker
    <2>1. /\ kept \in CommandRecord /\ kept.step = "signal" /\ kept.i = cmd[t].i
          /\ kept.listed = cmd[t].listed /\ kept.ids = cmd[t].ids \ {x}
          /\ kept.acted = cmd[t].acted
      BY <1>1 DEF CommandRecord
    <2> HIDE DEF kept
    <2>2. ChosenWell(kept)
      BY <1>1, <2>1 DEF ChosenWell
    <2> QED
      BY <1>1, <1>2, <1>3, <2>1, <2>2, Ageless, ActSet DEF Known
  <1>4. CASE /\ Set(t, done)
             /\ docker' = [docker EXCEPT ![x] = IF cmd[t].i.op \in {"stop", "kill"}
                                                THEN "stopped" ELSE "gone"]
    <2>1. /\ done \in CommandRecord /\ done.step = "signal" /\ done.i = cmd[t].i
          /\ done.listed = cmd[t].listed /\ done.ids = cmd[t].ids \ {x}
          /\ done.acted = cmd[t].acted \cup {x}
      BY <1>1 DEF CommandRecord
    <2> HIDE DEF done
    <2>2. ChosenWell(done)
      BY <1>1, <2>1 DEF ChosenWell
    <2>3. Aging
      BY <1>4 DEF ActInv, Aging
    <2>4. \A y \in done.listed : docker'[y] # "new"
      <3>1. done.listed \subseteq Ids
        BY <2>1 DEF CommandRecord
      <3> QED
        BY <1>1, <2>1, <2>3, <3>1 DEF Aging, Known
    <2> QED
      BY <1>2, <1>4, <2>1, <2>2, <2>3, <2>4, ActSet
  <1> QED
    BY <1>3, <1>4 DEF DockerActs

LEMMA ActContainers ==
  ASSUME ActInv, NEW x \in Ids, ContainerChanges(x)
  PROVE  ActInv'
  <1>1. UNCHANGED cmd /\ leases' \subseteq Run
    BY DEF ContainerChanges, ActInv
  <1>2. Aging
    BY DEF ContainerChanges, ActInv, Aging
  <1> QED
    BY <1>1, <1>2, ActSame

LEMMA ActOther ==
  ASSUME ActInv, UNCHANGED <<docker, cmd>>, leases' \subseteq Run
  PROVE  ActInv'
  BY Ageless, ActSame

LEMMA ActRun ==
  ASSUME ActInv, NEW r \in Run,
         \/ Start(r) \/ Listen(r) \/ Upsert(r) \/ UpsertFails(r) \/ Serve(r)
         \/ Signal(r) \/ TakeSignal(r) \/ Escalate(r) \/ Return(r)
         \/ Forks(r) \/ ChildExits(r) \/ HelperExits(r) \/ Crash(r)
  PROVE  ActInv'
  <1>1. UNCHANGED <<docker, cmd>>
    BY DEF Start, Listen, Upsert, UpsertFails, Serve, Signal, TakeSignal, Escalate, Return,
           Forks, ChildExits, HelperExits, Crash
  <1>2. leases' \subseteq Run
    BY DEF ActInv, Start, Listen, Upsert, UpsertFails, Serve, Signal, TakeSignal, Escalate,
           Return, Forks, ChildExits, HelperExits, Crash
  <1> QED
    BY <1>1, <1>2, ActOther

LEMMA ActStep == ActInv /\ [Next]_vars => ActInv'
  <1> SUFFICES ASSUME ActInv, [Next]_vars PROVE ActInv'
    OBVIOUS
  <1>1. CASE \E r \in Run : \/ Start(r) \/ Listen(r) \/ Upsert(r) \/ UpsertFails(r) \/ Serve(r)
                            \/ Signal(r) \/ TakeSignal(r) \/ Escalate(r) \/ Return(r)
                            \/ Forks(r) \/ ChildExits(r) \/ HelperExits(r) \/ Crash(r)
    BY <1>1, ActRun
  <1>2. CASE Prune
    BY <1>2, ActOther DEF Prune, ActInv
  <1>3. CASE \E t \in Command : Invoke(t) \/ ListIds(t) \/ Choose(t) \/ Finish(t)
    BY <1>3, ActInvoke, ActListIds, ActChoose, ActFinish
  <1>4. CASE \E t \in Command, r \in Run : SignalLease(t, r)
    BY <1>4, ActSignalLease
  <1>5. CASE \E t \in Command, c \in Ids : DockerActs(t, c)
    BY <1>5, ActDocker
  <1>6. CASE \E c \in Ids : ContainerChanges(c)
    BY <1>6, ActContainers
  <1>7. CASE UNCHANGED vars
    BY <1>7, ActOther DEF vars, ActInv
  <1> QED
    BY <1>1, <1>2, <1>3, <1>4, <1>5, <1>6, <1>7 DEF Next

-----------------------------------------------------------------------------
(* The shutdown of a run, and the bounds. *)

loopVars == <<piped, inbox, phase, timer, signals, changes>>

LEMMA LoopInit == Init => LoopInv
  BY BoundsAssumption DEF Init, LoopInv

LEMMA LoopStutter == LoopInv /\ UNCHANGED loopVars => LoopInv'
  BY DEF LoopInv, loopVars

LEMMA LoopSignal ==
  ASSUME LoopInv, NEW r \in Run, Signal(r)
  PROVE  LoopInv'
  <1>1. UNCHANGED <<piped, phase, timer, changes>>
    BY DEF Signal, group
  <1>2. signals' \in 0 .. MaxSignals
    BY BoundsAssumption DEF LoopInv, Signal
  <1>3. inbox' = inbox \/ inbox' = [inbox EXCEPT ![r] = Queued(@)]
    BY DEF Signal
  <1>4. Queued(inbox[r]) \in 0 .. 2
    BY DEF LoopInv, Queued
  <1>5. inbox' \in [Run -> 0 .. 2]
    BY <1>3, <1>4 DEF LoopInv
  <1> QED
    BY <1>1, <1>2, <1>5 DEF LoopInv

(* The timer runs exactly while an escalation is left. *)
LEMMA LoopAdvances ==
  ASSUME LoopInv, NEW r \in Run, TakeSignal(r) \/ Escalate(r)
  PROVE  LoopInv'
  <1>1. UNCHANGED <<piped, signals, changes>> /\ Advance(r)
    BY DEF TakeSignal, Escalate
  <1>2. inbox' \in [Run -> 0 .. 2]
    <2>1. CASE TakeSignal(r)
      BY <2>1 DEF LoopInv, TakeSignal
    <2>2. CASE Escalate(r)
      BY <2>2 DEF LoopInv, Escalate
    <2> QED
      BY <2>1, <2>2
  <1>3. /\ phase' = [phase EXCEPT ![r] = IF @ < 3 THEN @ + 1 ELSE @]
        /\ timer' = [timer EXCEPT ![r] = IF phase[r] < 2 THEN "running"
                                         ELSE IF phase[r] = 2 THEN "none" ELSE @]
    BY <1>1 DEF Advance
  <1>4. phase[r] \in {0, 1, 2, 3}
    BY DEF LoopInv
  <1>5. phase' \in [Run -> 0 .. 3] /\ timer' \in [Run -> {"none", "running"}]
    BY <1>3, <1>4 DEF LoopInv
  <1>6. ASSUME NEW q \in Run
        PROVE  timer'[q] = "running" <=> phase'[q] \in {1, 2}
    BY <1>3, <1>4 DEF LoopInv
  <1> QED
    BY <1>1, <1>2, <1>5, <1>6 DEF LoopInv

LEMMA LoopChanges ==
  ASSUME LoopInv,
         (\E r \in Run : Crash(r)) \/ (\E x \in Ids : ContainerChanges(x))
  PROVE  LoopInv'
  <1>1. UNCHANGED <<piped, inbox, phase, timer, signals>>
    BY DEF Crash, ContainerChanges, runs, group
  <1>2. changes < MaxChanges /\ changes' = changes + 1
    BY DEF Crash, ContainerChanges
  <1> QED
    BY <1>1, <1>2, BoundsAssumption DEF LoopInv

LEMMA LoopStep == LoopInv /\ [Next]_vars => LoopInv'
  <1> SUFFICES ASSUME LoopInv, [Next]_vars PROVE LoopInv'
    OBVIOUS
  <1>1. CASE \E r \in Run : \/ Start(r) \/ Listen(r) \/ Upsert(r) \/ UpsertFails(r) \/ Serve(r)
                            \/ Return(r) \/ Forks(r) \/ ChildExits(r) \/ HelperExits(r)
    <2>1. UNCHANGED loopVars
      BY <1>1 DEF Start, Listen, Upsert, UpsertFails, Serve, Return, Forks, ChildExits,
                  HelperExits, runs, group, loopVars
    <2> QED
      BY <2>1, LoopStutter
  <1>2. CASE \E r \in Run : Signal(r) \/ TakeSignal(r) \/ Escalate(r)
    BY <1>2, LoopSignal, LoopAdvances
  <1>3. CASE \/ \E r \in Run : Crash(r)
             \/ \E x \in Ids : ContainerChanges(x)
    BY <1>3, LoopChanges
  <1>4. CASE \/ Prune \/ UNCHANGED vars
             \/ \E t \in Command : Invoke(t) \/ ListIds(t) \/ Choose(t) \/ Finish(t)
             \/ \E t \in Command, r \in Run : SignalLease(t, r)
             \/ \E t \in Command, c \in Ids : DockerActs(t, c)
    <2>1. UNCHANGED loopVars
      BY <1>4 DEF Prune, Invoke, ListIds, Choose, Finish, SignalLease, DockerActs, vars,
                  runs, group, loopVars
    <2> QED
      BY <2>1, LoopStutter
  <1> QED
    BY <1>1, <1>2, <1>3, <1>4 DEF Next

-----------------------------------------------------------------------------

IInv == AccountInv /\ ActInv /\ LoopInv

(* The inductive invariant: the accounts of the runs, what the commands have
   chosen, and the shutdown. *)
THEOREM Invariance == Spec => []IInv
  <1>1. Init => IInv
    BY AccountInit, ActInit, LoopInit DEF IInv
  <1>2. IInv /\ [Next]_vars => IInv'
    BY AccountStep, ActStep, LoopStep DEF IInv
  <1> QED
    BY <1>1, <1>2, PTL DEF Spec

(* Every variable keeps its type: sigCh its capacity, a timer only while a
   shutdown is under way, and chosen containers that docker has known. *)
THEOREM TypeCorrect == Spec => []TypeOK
  <1>1. IInv => TypeOK
    <2> SUFFICES ASSUME IInv PROVE TypeOK
      OBVIOUS
    <2>1. ASSUME NEW t \in Command
          PROVE  /\ cmd[t].step \in {"idle", "ps", "inspect", "signal", "over"}
                 /\ cmd[t].leases \cup cmd[t].runs \subseteq Run
                 /\ \A c \in cmd[t].listed \cup cmd[t].ids \cup cmd[t].acted : docker[c] # "new"
      <3>1. cmd[t] \in CommandRecord /\ ChosenWell(cmd[t]) /\ Known(cmd[t])
        BY DEF IInv, ActInv
      <3>2. /\ cmd[t].step \in {"idle", "ps", "inspect", "signal", "over"}
            /\ cmd[t].leases \subseteq Run /\ cmd[t].runs \subseteq Run
            /\ cmd[t].ids \subseteq Ids /\ cmd[t].acted \subseteq Ids
        BY <3>1 DEF CommandRecord
      <3>3. cmd[t].ids \cup cmd[t].acted \subseteq cmd[t].listed
        BY <3>1, <3>2 DEF ChosenWell, Ids
      <3> QED
        BY <3>1, <3>2, <3>3 DEF Known
    <2>2. RunType /\ ActInv /\ LoopInv
      BY DEF IInv, AccountInv
    <2> QED
      BY <2>1, <2>2 DEF TypeOK, RunType, ActInv, LoopInv
  <1> QED
    BY <1>1, Invariance, PTL

(* However containers are created, restarted and removed beside it, a command ends
   only what it has listed and its target may mean: what the help text says, and
   what begins with x for rm of `container/x`. *)
THEOREM EndsWhatIsMeant == Spec => []Meant
  <1>1. IInv => Meant
    BY DEF IInv, ActInv, ChosenWell, Meant
  <1> QED
    BY <1>1, Invariance, PTL

(* Hence, where no rm is given `container/x` without --prefix, a command ends only
   what the help text says. *)
THEOREM EndsAsHelpSays ==
  ASSUME \A i \in Invocations :
           i.op \in {"rm", "rm -f"} /\ i.kind = "container" => i.mode = "prefix"
  PROVE  Spec => []EndsAsHelped
  <1>1. ASSUME IInv, NEW t \in Command, NEW n \in DOMAIN Containers,
               Containers[n].id \in cmd[t].acted
        PROVE  Containers[n].id \in cmd[t].listed /\ Means(cmd[t].i, Containers[n])
    <2>1. /\ ChosenWell(cmd[t]) /\ cmd[t].step # "idle" /\ cmd[t].i \in Invocations
          /\ MayMean(cmd[t].i, Containers[n])
      BY <1>1 DEF IInv, ActInv, ChosenWell
    <2>2. CASE /\ cmd[t].i.op \in {"rm", "rm -f"} /\ cmd[t].i.kind = "container"
               /\ IsPrefix(cmd[t].i.of, Containers[n].name)
      <3>1. cmd[t].i.mode = "prefix"
        BY <2>1, <2>2
      <3> QED
        BY <1>1, <2>1, <2>2, <3>1 DEF Means, Matches, ChosenWell
    <2> QED
      BY <1>1, <2>1, <2>2 DEF MayMean, ChosenWell
  <1>2. IInv => EndsAsHelped
    BY <1>1 DEF EndsAsHelped
  <1> QED
    BY <1>2, Invariance, PTL

=============================================================================
