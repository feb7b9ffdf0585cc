------------------------------- MODULE Leases -------------------------------
(***************************************************************************)
(* The lease file, which `dnsvard run` commands, the daemon and other      *)
(* commands read and rewrite without a lock.  Each rewriting loads the     *)
(* file, edits what it has loaded, writes a temporary file whose name all  *)
(* share and renames it.                                                   *)
(* Source: internal/runtimeprovider/provider.go, cmd/dnsvard/cmd_run.go.   *)
(*                                                                         *)
(* A run is used once and stands for the command, its child process, its   *)
(* lease and the lease's id.  What a file holds is a set of leases, empty  *)
(* also for a file that is missing or empty, or Torn, which no one can     *)
(* parse.                                                                  *)
(***************************************************************************)
EXTENDS Naturals

CONSTANTS Run,       \* invocations of dnsvard run
          Tool,      \* other commands: doctor, env, kill
          Host,      \* host names
          Claims,    \* which names the runs may claim
          Daemon,    \* the daemon's route build
          Torn,      \* contents that are not JSON
          None,      \* no file, no descriptor, no id
          MaxFaults  \* commands that are killed, and uses of tools, at most

Writer == Run \cup Tool \cup {Daemon}

ASSUME HostAssumption == Claims \subseteq [Run -> (SUBSET Host) \ {{}}]
ASSUME ActorAssumption ==
  Run \cap Tool = {} /\ Daemon \notin Run \cup Tool /\ None \notin Run
ASSUME FileAssumption == /\ Torn # None /\ \A S \in SUBSET Run : S \notin {Torn, None}
                         /\ None \notin {"tmp", "file", "gone"}
ASSUME BoundAssumption == MaxFaults \in Nat

VARIABLES hosts,    \* the names of a run: its workspace's and its service's
          child,    \* the child process of a run
          at,       \* the next step of a writer
          job,      \* what it does to which lease
          view,     \* the leases it has loaded
          fd,       \* the file its descriptor leads to
          file,     \* runtime-leases.json
          tmp,      \* runtime-leases.json.tmp
          trigger,  \* a pass is asked for
          routed,   \* leases whose hosts the daemon serves
          ok,       \* the last pass succeeded
          raced,    \* history: rewritings under way have overlapped
          owed,     \* history: leases saved, and no race or other claim since
          faults    \* kills and uses of tools so far

vars == <<hosts, child, at, job, view, fd, file, tmp, trigger, routed, ok, raced,
          owed, faults>>
disk == <<file, tmp, fd>>
daemon == <<trigger, routed, ok>>
history == <<raced, owed>>

Steps == {"idle", "load", "check", "open", "write", "rename",
          "announce", "serving", "done", "failed", "crashed", "signal"}

List == [op |-> "active", id |-> None]
Jobs == {List} \cup [op : {"upsert", "remove"}, id : Run]

TypeOK ==
  /\ hosts \in Claims
  /\ child \in [Run -> {"none", "alive", "killed", "gone"}]
  /\ at \in [Writer -> Steps]
  /\ job \in [Writer -> Jobs]
  /\ view \in [Writer -> SUBSET Run]
  /\ fd \in [Writer -> {None, "tmp", "file", "gone"}]
  /\ \A w \in Writer : fd[w] # None => at[w] = "write"
  /\ file = Torn \/ file \subseteq Run
  /\ tmp \in {Torn, None} \/ tmp \subseteq Run
  /\ trigger \in BOOLEAN /\ routed \subseteq Run /\ ok \in BOOLEAN
  /\ raced \in BOOLEAN /\ owed \subseteq Run
  /\ faults \in 0 .. MaxFaults

Init ==
  /\ hosts \in Claims
  /\ child = [r \in Run |-> "none"]
  /\ at = [w \in Writer |-> "idle"]
  /\ job = [w \in Writer |-> List]
  /\ view = [w \in Writer |-> {}]
  /\ fd = [w \in Writer |-> None]
  /\ file = {} /\ tmp = None
  /\ trigger = FALSE /\ routed = {} /\ ok = TRUE
  /\ raced = FALSE /\ owed = {}
  /\ faults = 0

Overlap(r, q) == hosts[r] \cap hosts[q] # {}

(* procutil.Running: signal 0 reaches a process until it has been waited for. *)
Running(r) == child[r] \in {"alive", "killed"}

Goto(w, step) == at' = [at EXCEPT ![w] = step]

Rewriting(w) == at[w] \in {"check", "open", "write", "rename"}
Alone(w) == \A q \in Writer \ {w} : ~Rewriting(q)

-----------------------------------------------------------------------------
(* Rewriting the file                                                      *)

(* Mutation: Upsert leaves leases of the same name. *)
EditedBeside(w) ==
  CASE job[w].op = "upsert" -> file \cup {job[w].id}
    [] job[w].op = "remove" -> file \ {job[w].id}
    [] job[w].op = "active" -> file

(* Mutation: Upsert starts from an empty file. *)
EditedAfresh(w) ==
  CASE job[w].op = "upsert" -> {job[w].id}
    [] job[w].op = "remove" -> file \ {job[w].id}
    [] job[w].op = "active" -> file

(* Upsert replaces the leases that claim one of its names. *)
Edited(w) ==
  LET lease == job[w].id
  IN  CASE job[w].op = "upsert" -> {r \in file : ~Overlap(r, lease)} \cup {lease}
        [] job[w].op = "remove" -> file \ {lease}
        [] job[w].op = "active" -> file

(* The end of a rewriting, with the step that comes next for a run; kill asks
   for a pass. *)
Ends(w, step) ==
  /\ Goto(w, IF w \in Run THEN step ELSE "idle")
  /\ job' = [job EXCEPT ![w] = List]
  /\ view' = [view EXCEPT ![w] = {}]
  /\ raced' = (raced /\ ~Alone(w))
  /\ trigger' = (trigger \/ (w \in Tool /\ job[w].op = "remove"))

Succeeded(w, leases) ==
  /\ Ends(w, IF job[w].op = "upsert" THEN "announce" ELSE "done")
  /\ owed' = IF job[w].op # "upsert" \/ raced THEN owed
             ELSE {r \in owed : ~Overlap(r, w)} \cup {w}
  /\ IF w = Daemon THEN routed' = leases /\ ok' = TRUE ELSE UNCHANGED <<routed, ok>>
  /\ UNCHANGED child

(* A run that cannot save its lease kills its child and gives up; nobody heeds a
   Remove that fails. *)
Failed(w) ==
  /\ Ends(w, IF job[w].op = "upsert" THEN "failed" ELSE "done")
  /\ child' = IF job[w].op = "upsert" /\ child[w] = "alive"
              THEN [child EXCEPT ![w] = "killed"] ELSE child
  /\ ok' = (ok /\ w # Daemon)
  /\ UNCHANGED <<routed, owed>>

Load(w) ==
  /\ at[w] = "load"
  /\ UNCHANGED <<hosts, disk, faults>>
  /\ \/ file = Torn /\ Failed(w)
     \/ /\ file # Torn
        /\ view' = [view EXCEPT ![w] = Edited(w)]
        /\ Goto(w, IF job[w].op = "active" THEN "check" ELSE "open")
        /\ raced' = (raced \/ ~Alone(w))
        /\ owed' = IF Alone(w) THEN owed ELSE {}
        /\ UNCHANGED <<child, job, daemon>>

Live(S) == {r \in S : Running(r)}

(* Active drops the leases of processes that have ended, and saves only if
   there are any; as mutations, it does not drop them, or never saves. *)
CheckNothing(w) ==
  /\ at[w] = "check"
  /\ UNCHANGED <<hosts, disk, faults>>
  /\ Succeeded(w, view[w])

CheckOnly(w) ==
  /\ at[w] = "check"
  /\ UNCHANGED <<hosts, disk, faults>>
  /\ Succeeded(w, Live(view[w]))

Check(w) ==
  /\ at[w] = "check"
  /\ UNCHANGED <<hosts, disk, faults>>
  /\ IF Live(view[w]) = view[w] THEN Succeeded(w, view[w])
     ELSE /\ view' = [view EXCEPT ![w] = Live(view[w])]
          /\ Goto(w, "open")
          /\ UNCHANGED <<child, job, daemon, history>>

(* os.WriteFile opens and truncates, then writes; a second writer truncates
   the file of the first. *)
Open(w) ==
  /\ at[w] = "open"
  /\ Goto(w, "write")
  /\ tmp' = {}
  /\ fd' = [fd EXCEPT ![w] = "tmp"]
  /\ UNCHANGED <<hosts, child, job, view, file, daemon, history, faults>>

(* What a file may hold once v is written over c from its start: v, or v with
   the rest of something longer. *)
Over(c, v) == IF c = {} \/ c = v THEN {v} ELSE {v, Torn}

(* Mutation: the descriptor is not closed. *)
WriteOpen(w) ==
  /\ at[w] = "write"
  /\ Goto(w, "rename")
  /\ tmp' = view[w]
  /\ UNCHANGED <<hosts, child, job, view, fd, file, daemon, history, faults>>

Write(w) ==
  /\ at[w] = "write"
  /\ Goto(w, "rename")
  /\ fd' = [fd EXCEPT ![w] = None]
  /\ IF fd[w] = "tmp" THEN tmp' \in Over(tmp, view[w]) ELSE UNCHANGED tmp
  /\ IF fd[w] = "file" THEN file' \in Over(file, view[w]) ELSE UNCHANGED file
  /\ UNCHANGED <<hosts, child, job, view, daemon, history, faults>>

(* The rename takes what the temporary file holds now, whoever wrote it, and
   descriptors go with the files; it fails if another rename came before. *)
Moved(f) == CASE f = "tmp" -> "file" [] f = "file" -> "gone" [] OTHER -> f

Rename(w) ==
  /\ at[w] = "rename"
  /\ UNCHANGED <<hosts, faults>>
  /\ \/ tmp = None /\ Failed(w) /\ UNCHANGED disk
     \/ /\ tmp # None
        /\ file' = tmp
        /\ tmp' = None
        /\ fd' = [q \in Writer |-> Moved(fd[q])]
        /\ Succeeded(w, view[w])

Rewrite(w) == Load(w) \/ Check(w) \/ Open(w) \/ Write(w) \/ Rename(w)

-----------------------------------------------------------------------------
(* dnsvard run                                                             *)

Start(r) ==
  /\ at[r] = "idle"
  /\ child' = [child EXCEPT ![r] = "alive"]
  /\ job' = [job EXCEPT ![r] = [op |-> "upsert", id |-> r]]
  /\ Goto(r, "load")
  /\ UNCHANGED <<hosts, view, disk, daemon, history, faults>>

(* notifyDaemonReconcile, before it waits for the names to resolve. *)
Announce(r) ==
  /\ at[r] = "announce"
  /\ trigger' = TRUE
  /\ Goto(r, "serving")
  /\ UNCHANGED <<hosts, child, job, view, disk, routed, ok, history, faults>>

(* The child has been waited for: of the deferred calls, the notice comes
   first and Remove after it. *)
Return(r) ==
  /\ at[r] = "serving"
  /\ child[r] = "gone"
  /\ trigger' = TRUE
  /\ job' = [job EXCEPT ![r] = [op |-> "remove", id |-> r]]
  /\ Goto(r, "load")
  /\ UNCHANGED <<hosts, child, view, disk, routed, ok, history, faults>>

(* The child ends by itself or of a signal, and is waited for by the goroutine
   in command.Wait, or by init. *)
ChildEnds(r) ==
  /\ Running(r)
  /\ child' = [child EXCEPT ![r] = "gone"]
  /\ UNCHANGED <<hosts, at, job, view, disk, daemon, history, faults>>

(* The command is killed; its child lives on. *)
Crash(r) ==
  /\ at[r] \notin {"idle", "done", "failed", "crashed"}
  /\ faults < MaxFaults
  /\ faults' = faults + 1
  /\ Goto(r, "crashed")
  /\ job' = [job EXCEPT ![r] = List]
  /\ view' = [view EXCEPT ![r] = {}]
  /\ fd' = [fd EXCEPT ![r] = None]
  /\ raced' = (raced /\ ~Alone(r))
  /\ UNCHANGED <<hosts, child, owed, file, tmp, daemon>>

-----------------------------------------------------------------------------
(* The daemon and other commands                                           *)

(* The ticker asks for a pass. *)
Tick ==
  /\ ~trigger
  /\ trigger' = TRUE
  /\ UNCHANGED <<hosts, child, at, job, view, disk, routed, ok, history, faults>>

BeginPass ==
  /\ trigger
  /\ at[Daemon] = "idle"
  /\ trigger' = FALSE
  /\ Goto(Daemon, "load")
  /\ UNCHANGED <<hosts, child, job, view, disk, routed, ok, history, faults>>

(* doctor and env list the active leases. *)
Report(t) ==
  /\ at[t] = "idle"
  /\ faults < MaxFaults
  /\ faults' = faults + 1
  /\ Goto(t, "load")
  /\ UNCHANGED <<hosts, child, job, view, disk, daemon, history>>

(* kill chooses a lease that it reads, also one whose process has ended. *)
Kill(t) ==
  /\ at[t] = "idle"
  /\ faults < MaxFaults
  /\ faults' = faults + 1
  /\ file # Torn
  /\ \E r \in file : job' = [job EXCEPT ![t] = [op |-> "remove", id |-> r]]
  /\ Goto(t, "signal")
  /\ UNCHANGED <<hosts, child, view, disk, daemon, history>>

(* It sends SIGKILL, which counts as sent where no process is left, and then
   removes the lease. *)
SignalChild(t) ==
  /\ at[t] = "signal"
  /\ child' = [child EXCEPT ![job[t].id] = IF @ = "alive" THEN "killed" ELSE @]
  /\ Goto(t, "load")
  /\ UNCHANGED <<hosts, job, view, disk, daemon, history, faults>>

-----------------------------------------------------------------------------

Next ==
  \/ \E w \in Writer : Rewrite(w)
  \/ \E r \in Run : Start(r) \/ Announce(r) \/ Return(r) \/ ChildEnds(r) \/ Crash(r)
  \/ Tick \/ BeginPass
  \/ \E t \in Tool : Report(t) \/ Kill(t) \/ SignalChild(t)

Spec == Init /\ [][Next]_vars

-----------------------------------------------------------------------------
(* Properties                                                              *)

(* No two leases that can be read claim the same name, however rewritings
   overlap: a host has one target. *)
HostsDisjoint ==
  file # Torn => \A r, q \in file : r # q => ~Overlap(r, q)

(* Once a run has returned, and the pass its notice asked for has succeeded, the
   daemon does not serve its hosts, although the pass may read the lease before
   it is removed, and a stale rewriting may bring it back. *)
ReturnedUnrouted ==
  \A r \in Run :
    at[r] = "done" /\ at[Daemon] = "idle" /\ ~trigger /\ ok => r \notin routed

(* A run's lease stays while its child lives and no other run claims its names:
   no other command, crash or pass removes it.  It is owed from a rewriting that
   no other one overlapped, until two overlap: then the later rename undoes the
   change of the earlier, and no one restores it. *)
LeaseKept == \A r \in owed : child[r] = "alive" => file # Torn /\ r \in file

(* A pass that no other rewriting overlapped leaves in the file exactly the
   leases it serves: those of ended processes go, also where their command
   crashed before Remove or a stale rewriting brought them back. *)
PassAgrees ==
  [][ at[Daemon] \in {"check", "rename"} /\ at'[Daemon] = "idle" /\ ok' /\ ~raced
        => file' = routed' ]_vars

=============================================================================
