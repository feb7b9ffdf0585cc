------------------------------ MODULE Commands ------------------------------
(***************************************************************************)
(* The commands that start and end workloads: `dnsvard run` with its child *)
(* and the escalation from SIGINT to SIGKILL, and stop, kill and rm, which *)
(* list leases and containers, choose by a target, and act on what they    *)
(* have chosen while everything else goes on.                              *)
(* Source: cmd/dnsvard/cmd_run.go, cmd/dnsvard/cmd_process.go.             *)
(*                                                                         *)
(* A run stands for the command, its lease and its child, which leads a    *)
(* process group.  How the lease file is rewritten is in Leases; here its  *)
(* rewritings are atomic, and runs claim different names.  Process ids are *)
(* not used again.  Names, labels and ids are sequences, as prefixes count.*)
(***************************************************************************)
EXTENDS Naturals, SequencesExt

CONSTANTS Run,          \* invocations of dnsvard run
          Containers,   \* [id, name, service, project, workspace], in the
                        \* order of listings: by project, workspace and name
          Present,      \* the ids that exist at first
          Command,      \* one stop, kill or rm each
          Invocations,  \* what they may be: [op, kind, of, mode]
          MaxSignals,   \* SIGINT and SIGTERM to runs, at most
          MaxChanges    \* changes to containers and kills of commands, at most

Ids == {Containers[i].id : i \in DOMAIN Containers}

(* kind and of are a target: "all", a lease, a container by name or id, a
   workspace by a path of up to three labels (for regex, by the paths that match,
   all of them if it is empty), or a bare word. *)
InvocationType(i) ==
  /\ i.op \in {"stop", "kill", "rm", "rm -f"}
  /\ i.kind \in {"all", "lease", "container", "workspace", "bare"}
  /\ i.mode \in {"exact", "prefix", "regex"}
  /\ i.kind = "workspace" /\ i.mode # "regex" =>
       i.of \in Seq(Seq(STRING)) /\ Len(i.of) <= 3

ASSUME ContainersAssumption ==
  /\ Containers \in Seq([id : Seq(STRING), name : Seq(STRING), service : Seq(STRING),
                         project : Seq(STRING), workspace : Seq(STRING)])
  /\ \A i, j \in DOMAIN Containers : i # j => Containers[i].id # Containers[j].id
ASSUME InvocationsAssumption ==
  Present \subseteq Ids /\ \A i \in Invocations : InvocationType(i)
ASSUME RunAssumption == Run \cap Ids = {} /\ Run \cap Command = {}
ASSUME BoundsAssumption == MaxSignals \in Nat /\ MaxChanges \in Nat

VARIABLES at,       \* the next step of a run
          child,    \* its child
          helper,   \* a process the child has started
          piped,    \* the child writes to a pipe, as with an adapter
          doomed,   \* SIGKILL has been sent to the process group
          inbox,    \* signals in sigCh
          phase,    \* shutdownPhase
          timer,    \* escalationTimer
          leases,   \* the lease file
          docker,   \* the state of a container
          cmd,      \* a command: its step, and what it has listed and chosen
          signals, changes

runs == <<at, phase, timer, inbox, signals>>
group == <<child, helper, piped, doomed>>
vars == <<runs, group, leases, docker, cmd, changes>>

-----------------------------------------------------------------------------
(* Targets.  A listing is a set of indices of Containers. *)

Matches(value, pattern, mode) ==
  IF mode = "prefix" THEN IsPrefix(pattern, value) ELSE value = pattern

Paths(c) == {<<c.project, c.workspace>>} \cup
            {<<c.project, c.workspace, n>> : n \in {c.service, c.name}}

(* Regular expressions match whole paths. *)
InWorkspace(c, path, mode) ==
  IF mode = "regex" THEN Paths(c) \cap path # {}
  ELSE /\ Len(path) >= 1 => Matches(c.project, path[1], mode)
       /\ Len(path) >= 2 => Matches(c.workspace, path[2], mode)
       /\ Len(path) = 3  => \E n \in {c.service, c.name} : Matches(n, path[3], mode)

(* filterContainersForPS, for ps and rm: `container/x` matches by prefix
   whatever the mode. *)
Filtered(listing, i) ==
  LET Chosen(c) ==
        CASE i.kind = "all" -> TRUE
          [] i.kind = "workspace" -> InWorkspace(c, i.of, i.mode)
          [] i.kind = "container" -> IsPrefix(i.of, c.name) \/ IsPrefix(i.of, c.id)
          [] i.kind = "bare" -> /\ i.mode # "regex"
                                /\ Matches(c.name, i.of, i.mode) \/ IsPrefix(i.of, c.id)
          [] i.kind = "lease" -> FALSE
  IN  {n \in listing : Chosen(Containers[n])}

IdsOf(listing) == {Containers[n].id : n \in listing}
RunningOf(listing) == {n \in listing : docker[Containers[n].id] = "running"}

(* rm spares what was running, unless forced. *)
ToRemove(listing, i) ==
  IdsOf(Filtered(listing, i) \ (IF i.op = "rm -f" THEN {} ELSE RunningOf(listing)))

(* selectManagedTarget, for stop and kill: of the containers a name or id may
   mean the first one counts, and only if it is running. *)
ToSignal(listed, listing, i) ==
  LET named == {n \in listing : \/ Containers[n].name = i.of
                                \/ IsPrefix(i.of, Containers[n].id)}
      first == {n \in RunningOf(named) : \A m \in named : n <= m}
      lease == {r \in listed : r = i.of}
      within == {n \in RunningOf(listing) : InWorkspace(Containers[n], i.of, i.mode)}
  IN  CASE i.kind = "all"       -> [runs |-> listed, ids |-> IdsOf(RunningOf(listing))]
        [] i.kind = "lease"     -> [runs |-> lease,  ids |-> {}]
        [] i.kind = "container" -> [runs |-> {},     ids |-> IdsOf(first)]
        [] i.kind = "workspace" -> [runs |-> {},     ids |-> IdsOf(within)]
        [] i.kind = "bare"      -> [runs |-> lease,
                                    ids |-> IF lease = {} THEN IdsOf(first) ELSE {}]

(* What the help text says of a target, `container/<name-or-id>` included. *)
Means(i, c) ==
  CASE i.kind = "all" -> TRUE
    [] i.kind = "workspace" /\ i.mode = "regex" -> \E p \in Paths(c) : p \in i.of
    [] i.kind = "workspace" /\ i.mode # "regex" ->
         \E p \in Paths(c) : Len(p) = 3 /\ \A k \in DOMAIN i.of : Matches(p[k], i.of[k], i.mode)
    [] i.kind \in {"container", "bare"} ->
         Matches(c.name, i.of, i.mode) \/ IsPrefix(i.of, c.id)
    [] i.kind = "lease" -> FALSE

-----------------------------------------------------------------------------

Idle == [step |-> "idle", i |-> [op |-> "none"], leases |-> {}, listed |-> {},
         runs |-> {}, ids |-> {}, acted |-> {}]

Init ==
  /\ at = [r \in Run |-> "off"]
  /\ child = [r \in Run |-> "none"]
  /\ helper = [r \in Run |-> "none"]
  /\ piped \in [Run -> BOOLEAN]
  /\ doomed = [r \in Run |-> FALSE]
  /\ inbox = [r \in Run |-> 0]
  /\ phase = [r \in Run |-> 0]
  /\ timer = [r \in Run |-> "none"]
  /\ leases = {}
  /\ docker \in [Ids -> {"running", "stopped", "new"}]
  /\ \A c \in Ids : docker[c] = "new" <=> c \notin Present
  /\ cmd = [t \in Command |-> Idle]
  /\ signals = 0 /\ changes = 0

Goto(r, step) == at' = [at EXCEPT ![r] = step]

(* kill(2) with SIGKILL and the negated id reaches whoever is in the group. *)
InGroup(r) == child[r] = "alive" \/ helper[r] = "group"
KillGroup(r) == doomed' = [doomed EXCEPT ![r] = @ \/ InGroup(r)]

-----------------------------------------------------------------------------
(* dnsvard run                                                             *)

Start(r) ==
  /\ at[r] = "off"
  /\ child' = [child EXCEPT ![r] = "alive"]
  /\ Goto(r, "start")
  /\ UNCHANGED <<helper, piped, doomed, phase, timer, inbox, signals, leases, docker,
                 cmd, changes>>

(* signal.Notify *)
Listen(r) ==
  /\ at[r] = "start"
  /\ Goto(r, "save")
  /\ UNCHANGED <<phase, timer, inbox, signals, group, leases, docker, cmd, changes>>

Upsert(r) ==
  /\ at[r] = "save"
  /\ leases' = leases \cup {r}
  /\ Goto(r, "wait")
  /\ UNCHANGED <<phase, timer, inbox, signals, group, docker, cmd, changes>>

(* Mutation: the child is left to itself. *)
UpsertFailsQuietly(r) ==
  /\ at[r] = "save"
  /\ Goto(r, "done")
  /\ UNCHANGED <<phase, timer, inbox, signals, group, leases, docker, cmd, changes>>

UpsertFails(r) ==
  /\ at[r] = "save"
  /\ KillGroup(r)
  /\ Goto(r, "done")
  /\ UNCHANGED <<child, helper, piped, phase, timer, inbox, signals, leases, docker,
                 cmd, changes>>

(* The waits for DNS, of 5 s at most, are over. *)
Serve(r) ==
  /\ at[r] = "wait"
  /\ Goto(r, "serve")
  /\ UNCHANGED <<phase, timer, inbox, signals, group, leases, docker, cmd, changes>>

(* Mutation: the channel has no limit. *)
QueuedAlways(n) == n + 1

Queued(n) == IF n < 2 THEN n + 1 ELSE n

(* SIGINT or SIGTERM: its default before Notify, and later sigCh, which holds
   two. *)
Signal(r) ==
  /\ at[r] \in {"start", "save", "wait", "serve"}
  /\ signals < MaxSignals
  /\ signals' = signals + 1
  /\ IF at[r] = "start" THEN Goto(r, "lost") /\ UNCHANGED inbox
     ELSE /\ inbox' = [inbox EXCEPT ![r] = Queued(@)]
          /\ UNCHANGED at
  /\ UNCHANGED <<phase, timer, group, leases, docker, cmd, changes>>

(* Mutation: the timer is set only once. *)
AdvanceOnce(r) ==
  /\ phase' = [phase EXCEPT ![r] = IF @ < 3 THEN @ + 1 ELSE @]
  /\ timer' = [timer EXCEPT ![r] = IF phase[r] = 0 THEN "running" ELSE "none"]
  /\ IF phase[r] = 2 THEN KillGroup(r) ELSE UNCHANGED doomed

(* advanceShutdown: the signal, SIGTERM, SIGKILL, each to the group.  The first two
   may be ignored and have no effect here. *)
Advance(r) ==
  /\ phase' = [phase EXCEPT ![r] = IF @ < 3 THEN @ + 1 ELSE @]
  /\ timer' = [timer EXCEPT ![r] = IF phase[r] < 2 THEN "running"
                                   ELSE IF phase[r] = 2 THEN "none" ELSE @]
  /\ IF phase[r] = 2 THEN KillGroup(r) ELSE UNCHANGED doomed

TakeSignal(r) ==
  /\ at[r] = "serve"
  /\ inbox[r] > 0
  /\ inbox' = [inbox EXCEPT ![r] = @ - 1]
  /\ Advance(r)
  /\ UNCHANGED <<at, signals, child, helper, piped, leases, docker, cmd, changes>>

(* 750 ms have passed and the loop takes the tick, of which a reset leaves none. *)
Escalate(r) ==
  /\ at[r] = "serve"
  /\ timer[r] = "running"
  /\ Advance(r)
  /\ UNCHANGED <<at, inbox, signals, child, helper, piped, leases, docker, cmd, changes>>

(* command.Wait also waits for the end of the pipe.  The deferred calls notify
   the daemon and remove the lease. *)
Return(r) ==
  /\ at[r] = "serve"
  /\ child[r] = "gone"
  /\ piped[r] => helper[r] = "none"
  /\ leases' = leases \ {r}
  /\ Goto(r, "done")
  /\ UNCHANGED <<phase, timer, inbox, signals, group, docker, cmd, changes>>

(* A child may start another process, which may leave the group. *)
Forks(r) ==
  /\ child[r] = "alive" /\ ~doomed[r]
  /\ helper[r] = "none"
  /\ helper' \in {[helper EXCEPT ![r] = h] : h \in {"group", "detached"}}
  /\ UNCHANGED <<runs, child, piped, doomed, leases, docker, cmd, changes>>

ChildExits(r) ==
  /\ child[r] = "alive"
  /\ child' = [child EXCEPT ![r] = "gone"]
  /\ UNCHANGED <<runs, helper, piped, doomed, leases, docker, cmd, changes>>

HelperExits(r) ==
  /\ helper[r] # "none"
  /\ helper' = [helper EXCEPT ![r] = "none"]
  /\ UNCHANGED <<runs, child, piped, doomed, leases, docker, cmd, changes>>

(* The command is killed, before or after its lease is saved. *)
Crash(r) ==
  /\ at[r] \in {"start", "save", "wait", "serve"}
  /\ changes < MaxChanges
  /\ changes' = changes + 1
  /\ Goto(r, IF r \in leases THEN "crashed" ELSE "lost")
  /\ UNCHANGED <<phase, timer, inbox, signals, group, leases, docker, cmd>>

(* The daemon drops leases of children that have ended. *)
Prune ==
  /\ \E r \in leases : child[r] = "gone"
  /\ leases' = {r \in leases : child[r] # "gone"}
  /\ UNCHANGED <<runs, group, docker, cmd, changes>>

-----------------------------------------------------------------------------
(* stop, kill and rm                                                       *)

Set(t, c) == cmd' = [cmd EXCEPT ![t] = c]

(* stop and kill read all leases first, those of ended children included. *)
Invoke(t) ==
  /\ cmd[t] = Idle
  /\ \E i \in Invocations :
       Set(t, [Idle EXCEPT !.step = "ps", !.i = i,
               !.leases = IF i.op \in {"stop", "kill"} THEN leases ELSE {}])
  /\ UNCHANGED <<runs, group, leases, docker, changes>>

Exists(c) == docker[c] \in {"running", "stopped"}

ListIds(t) ==
  /\ cmd[t].step = "ps"
  /\ Set(t, [cmd[t] EXCEPT !.step = "inspect", !.listed = {c \in Ids : Exists(c)}])
  /\ UNCHANGED <<runs, group, leases, docker, changes>>

Over(t) == [Idle EXCEPT !.step = "over", !.i = cmd[t].i, !.listed = cmd[t].listed,
                        !.acted = cmd[t].acted]

(* docker inspect gives no listing if a container is gone that docker ps has
   named: rm gives up, stop and kill go on with the leases. *)
Listing(t) ==
  IF \E c \in cmd[t].listed : ~Exists(c) THEN {}
  ELSE {n \in DOMAIN Containers : Containers[n].id \in cmd[t].listed}

Choose(t) ==
  /\ cmd[t].step = "inspect"
  /\ LET i == cmd[t].i
         chosen == IF i.op \in {"stop", "kill"} THEN ToSignal(cmd[t].leases, Listing(t), i)
                   ELSE [runs |-> {}, ids |-> ToRemove(Listing(t), i)]
     IN  Set(t, IF chosen.runs = {} /\ chosen.ids = {} THEN Over(t)
                ELSE [cmd[t] EXCEPT !.step = "signal", !.leases = {},
                                    !.runs = chosen.runs, !.ids = chosen.ids])
  /\ UNCHANGED <<runs, group, leases, docker, changes>>

(* kill removes the lease it has signalled; a group that is gone counts as
   signalled. *)
SignalLease(t, r) ==
  /\ cmd[t].step = "signal"
  /\ r \in cmd[t].runs
  /\ IF cmd[t].i.op = "kill" THEN KillGroup(r) /\ leases' = leases \ {r}
     ELSE UNCHANGED <<doomed, leases>>
  /\ Set(t, [cmd[t] EXCEPT !.runs = @ \ {r}])
  /\ UNCHANGED <<runs, child, helper, piped, docker, changes>>

SameName(c, d) ==
  \E i, j \in DOMAIN Containers :
    Containers[i].id = c /\ Containers[j].id = d /\ Containers[i].name = Containers[j].name

(* The docker command acts on one container after the other and fails if it
   failed for any. *)
Refused(op, state) ==
  CASE op = "stop"  -> state = "gone"
    [] op = "kill"  -> state # "running"
    [] op = "rm"    -> state # "stopped"
    [] op = "rm -f" -> state = "gone"

(* Mutation: containers are given to docker by name. *)
DockerActsByName(t, c) ==
  /\ cmd[t].step = "signal" /\ cmd[t].runs = {}
  /\ c \in cmd[t].ids
  /\ \E d \in Ids :
       /\ SameName(c, d) /\ ~Refused(cmd[t].i.op, docker[d])
       /\ Set(t, [cmd[t] EXCEPT !.ids = @ \ {c}, !.acted = @ \cup {d}])
       /\ docker' = [docker EXCEPT ![d] = IF cmd[t].i.op \in {"stop", "kill"}
                                          THEN "stopped" ELSE "gone"]
  /\ UNCHANGED <<runs, group, leases, changes>>

DockerActs(t, c) ==
  /\ cmd[t].step = "signal" /\ cmd[t].runs = {}
  /\ c \in cmd[t].ids
  /\ IF Refused(cmd[t].i.op, docker[c])
     THEN Set(t, [cmd[t] EXCEPT !.ids = @ \ {c}]) /\ UNCHANGED docker
     ELSE /\ Set(t, [cmd[t] EXCEPT !.ids = @ \ {c}, !.acted = @ \cup {c}])
          /\ docker' = [docker EXCEPT ![c] = IF cmd[t].i.op \in {"stop", "kill"}
                                             THEN "stopped" ELSE "gone"]
  /\ UNCHANGED <<runs, group, leases, changes>>

(* After a failure of docker the command gives up; else it waits up to 6 s for
   what it has ended, warns or not, and notifies the daemon. *)
Finish(t) ==
  /\ cmd[t].step = "signal" /\ cmd[t].runs = {} /\ cmd[t].ids = {}
  /\ Set(t, Over(t))
  /\ UNCHANGED <<runs, group, leases, docker, changes>>

(* The user or another tool creates, starts, stops or removes containers; two
   of one name are not there at once. *)
ContainerChanges(c) ==
  /\ changes < MaxChanges
  /\ changes' = changes + 1
  /\ \/ /\ docker[c] = "new"
        /\ \A d \in Ids : SameName(c, d) => ~Exists(d)
        /\ docker' = [docker EXCEPT ![c] = "running"]
     \/ docker[c] = "stopped" /\ docker' \in {[docker EXCEPT ![c] = s] : s \in {"running", "gone"}}
     \/ docker[c] = "running" /\ docker' = [docker EXCEPT ![c] = "stopped"]
  /\ UNCHANGED <<runs, group, leases, cmd>>

-----------------------------------------------------------------------------

Next ==
  \/ \E r \in Run : Start(r) \/ Listen(r) \/ Upsert(r) \/ UpsertFails(r) \/ Serve(r)
                      \/ Signal(r) \/ TakeSignal(r) \/ Escalate(r) \/ Return(r)
                      \/ Forks(r) \/ ChildExits(r) \/ HelperExits(r) \/ Crash(r)
  \/ Prune
  \/ \E t \in Command : Invoke(t) \/ ListIds(t) \/ Choose(t) \/ Finish(t)
  \/ \E t \in Command, r \in Run : SignalLease(t, r)
  \/ \E t \in Command, c \in Ids : DockerActs(t, c)
  \/ \E c \in Ids : ContainerChanges(c)

Spec == Init /\ [][Next]_vars

(* The loop of a run goes on and its timer runs out; who has been sent SIGKILL
   ends.  No child, helper, user or command owes anything. *)
FairSpec ==
  /\ Spec
  /\ \A r \in Run : /\ WF_vars(Listen(r)) /\ WF_vars(Upsert(r) \/ UpsertFails(r))
                    /\ WF_vars(Serve(r)) /\ WF_vars(TakeSignal(r))
                    /\ WF_vars(Escalate(r)) /\ WF_vars(Return(r))
                    /\ WF_vars(doomed[r] /\ ChildExits(r))
                    /\ WF_vars(doomed[r] /\ helper[r] = "group" /\ HelperExits(r))

-----------------------------------------------------------------------------
(* Properties                                                              *)

(* Every variable keeps its type: sigCh within its capacity, a timer only while
   a shutdown is under way, and chosen containers that docker has known. *)
TypeOK ==
  /\ at \in [Run -> {"off", "start", "save", "wait", "serve", "done", "crashed", "lost"}]
  /\ child \in [Run -> {"none", "alive", "gone"}]
  /\ helper \in [Run -> {"none", "group", "detached"}]
  /\ piped \in [Run -> BOOLEAN] /\ doomed \in [Run -> BOOLEAN]
  /\ inbox \in [Run -> 0 .. 2]
  /\ phase \in [Run -> 0 .. 3]
  /\ timer \in [Run -> {"none", "running"}]
  /\ \A r \in Run : timer[r] = "running" <=> phase[r] \in {1, 2}
  /\ leases \subseteq Run
  /\ docker \in [Ids -> {"new", "running", "stopped", "gone"}]
  /\ \A t \in Command :
       /\ cmd[t].step \in {"idle", "ps", "inspect", "signal", "over"}
       /\ cmd[t].leases \cup cmd[t].runs \subseteq Run
       /\ \A c \in cmd[t].listed \cup cmd[t].ids \cup cmd[t].acted : docker[c] # "new"
  /\ signals \in 0 .. MaxSignals /\ changes \in 0 .. MaxChanges

(* What a command may end: what the help text says, and for rm of `container/x`,
   with or without a flag for prefixes, the containers whose name begins with x. *)
MayMean(i, c) ==
  \/ Means(i, c)
  \/ i.op \in {"rm", "rm -f"} /\ i.kind = "container" /\ IsPrefix(i.of, c.name)

(* Whatever is created, restarted or removed while a command runs, it only ends
   containers that it has listed and that its target may mean: none that has
   taken their names since, and beyond the help text only those that rm of
   `container/x` takes for x. *)
Meant ==
  \A t \in Command : \A n \in DOMAIN Containers :
    Containers[n].id \in cmd[t].acted =>
      Containers[n].id \in cmd[t].listed /\ MayMean(cmd[t].i, Containers[n])

(* The same with the help text alone, which rm of `container/x` does not keep to. *)
EndsAsHelped ==
  \A t \in Command : \A n \in DOMAIN Containers :
    Containers[n].id \in cmd[t].acted =>
      Containers[n].id \in cmd[t].listed /\ Means(cmd[t].i, Containers[n])

(* A child that lives is waited for by its run, or has a lease by which kill
   finds it, or is about to die: no failure, crash or command leaves it running
   unknown, except a run that dies before it has saved its lease. *)
Accounted ==
  \A r \in Run :
    child[r] = "alive" /\ at[r] \in {"done", "crashed"} => r \in leases \/ doomed[r]

(* A run that has been signalled comes to an end, whatever its child ignores, as
   soon as its waits for DNS are over: unless the run is killed, or a process that
   left the group keeps the pipe open. *)
ShutdownEnds ==
  \A r \in Run :
    inbox[r] > 0 ~> \/ at[r] \in {"done", "crashed", "lost"}
                    \/ piped[r] /\ helper[r] = "detached"

=============================================================================
