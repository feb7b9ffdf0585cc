---------------------------- MODULE LeasesProofs ----------------------------
(***************************************************************************)
(* Safety of the lease file for any runs, tools and host names.            *)
(***************************************************************************)
EXTENDS Leases, TLAPS

(* What each kind of writer may be at. *)
JobInv ==
  /\ at[Daemon] \in {"idle", "load", "check", "open", "write", "rename"}
  /\ job[Daemon] = List
  /\ \A r \in Run : at[r] = "load" \/ Rewriting(r) =>
       at[r] # "check" /\ job[r].op \in {"upsert", "remove"} /\ job[r].id = r
  /\ \A t \in Tool : job[t].op # "upsert"

TypeInv == TypeOK /\ JobInv

(* The leases in S claim different names. *)
Disjoint(S) == \A r, q \in S : r # q => ~Overlap(r, q)

DisjointInv ==
  /\ file # Torn => Disjoint(file)
  /\ tmp \notin {Torn, None} => Disjoint(tmp)
  /\ \A w \in Writer : Disjoint(view[w])

(* The run has waited for its child and given notice. *)
Returned(r) ==
  \/ at[r] = "done"
  \/ (at[r] = "load" \/ Rewriting(r)) /\ job[r].op = "remove"

Saving == at[Daemon] \in {"open", "write", "rename"}

(* A pass that could still serve the hosts of such a run is followed by
   another one. *)
ReturnInv ==
  \A r \in Run : Returned(r) =>
    /\ child[r] = "gone"
    /\ r \in routed => trigger \/ at[Daemon] # "idle" \/ ~ok
    /\ Saving /\ r \in view[Daemon] => trigger

-----------------------------------------------------------------------------
(* Types.                                                                  *)

LEMMA Actors == /\ Daemon \in Writer /\ Run \subseteq Writer /\ Tool \subseteq Writer
                /\ \A r \in Run : r # Daemon /\ r \notin Tool
                /\ \A t \in Tool : t # Daemon
  BY ActorAssumption DEF Writer

LEMMA ListFacts == List \in Jobs /\ List.op = "active"
  BY DEF List, Jobs

LEMMA JobFacts ==
  ASSUME NEW j \in Jobs
  PROVE  /\ j.op \in {"active", "upsert", "remove"}
         /\ j.op # "active" => j.id \in Run
         /\ j.op = "active" => j = List
  BY DEF Jobs, List

LEMMA InitType == Init => TypeInv
<1> SUFFICES ASSUME Init PROVE TypeInv
  OBVIOUS
<1>1. TypeOK
  <2>1. 0 \in 0 .. MaxFaults
    BY BoundAssumption
  <2>2. "idle" \in Steps
    BY DEF Steps
  <2>3. QED
    BY <2>1, <2>2, ListFacts DEF Init, TypeOK
<1>2. JobInv
  BY Actors, ListFacts DEF Init, JobInv, Rewriting
<1>3. QED
  BY <1>1, <1>2 DEF TypeInv

LEMMA EditedType ==
  ASSUME TypeOK, NEW w \in Writer, file # Torn
  PROVE  Edited(w) \in SUBSET Run
<1>1. job[w] \in Jobs /\ file \subseteq Run
  BY DEF TypeOK
<1>2. QED
  BY <1>1, JobFacts DEF Edited

(* The end of a rewriting. *)
LEMMA EndsType ==
  ASSUME TypeInv, NEW w \in Writer, NEW step \in {"announce", "done", "failed"},
         at[w] = "load" \/ Rewriting(w),
         Ends(w, step)
  PROVE  /\ at' \in [Writer -> Steps] /\ job' \in [Writer -> Jobs]
         /\ view' \in [Writer -> SUBSET Run]
         /\ raced' \in BOOLEAN /\ trigger' \in BOOLEAN
         /\ JobInv'
         /\ \A q \in Writer \ {w} : at'[q] = at[q]
<1> USE DEF TypeInv, TypeOK
<1>1. at' \in [Writer -> Steps] /\ \A q \in Writer \ {w} : at'[q] = at[q]
  BY DEF Ends, Goto, Steps
<1>2. job' \in [Writer -> Jobs] /\ view' \in [Writer -> SUBSET Run]
  BY ListFacts DEF Ends
<1>3. raced' \in BOOLEAN /\ trigger' \in BOOLEAN
  BY DEF Ends
<1>4. JobInv'
  BY Actors, ListFacts DEF JobInv, Ends, Goto, Rewriting
<1>5. QED
  BY <1>1, <1>2, <1>3, <1>4

LEMMA SucceededType ==
  ASSUME TypeInv, NEW w \in Writer, NEW leases \in SUBSET Run,
         at[w] = "load" \/ Rewriting(w),
         Succeeded(w, leases)
  PROVE  /\ child' \in [Run -> {"none", "alive", "killed", "gone"}]
         /\ routed' \subseteq Run /\ ok' \in BOOLEAN /\ owed' \subseteq Run
<1>1. job[w].op = "upsert" => w \in Run
  BY ListFacts, Actors DEF TypeInv, JobInv, Writer
<1>2. QED
  BY <1>1 DEF TypeInv, TypeOK, Succeeded

LEMMA FailedType ==
  ASSUME TypeInv, NEW w \in Writer, at[w] = "load" \/ Rewriting(w), Failed(w)
  PROVE  /\ child' \in [Run -> {"none", "alive", "killed", "gone"}]
         /\ routed' \subseteq Run /\ ok' \in BOOLEAN /\ owed' \subseteq Run
  BY DEF TypeInv, TypeOK, Failed

LEMMA LoadType == ASSUME TypeInv, NEW w \in Writer, Load(w) PROVE TypeInv'
<1>1. CASE file = Torn /\ Failed(w)
  <2>1. Ends(w, "failed") \/ Ends(w, "done")
    BY <1>1 DEF Failed
  <2>2. QED
    BY <1>1, <2>1, EndsType, FailedType DEF Load, disk, TypeInv, TypeOK
<1>2. CASE /\ file # Torn
           /\ view' = [view EXCEPT ![w] = Edited(w)]
           /\ Goto(w, IF job[w].op = "active" THEN "check" ELSE "open")
           /\ raced' = (raced \/ ~Alone(w))
           /\ owed' = IF Alone(w) THEN owed ELSE {}
           /\ UNCHANGED <<child, job, daemon>>
  <2>1. view' \in [Writer -> SUBSET Run]
    BY <1>2, EditedType DEF TypeInv, TypeOK
  <2>2. at' \in [Writer -> Steps] /\ \A q \in Writer \ {w} : at'[q] = at[q]
    BY <1>2 DEF Goto, Steps, TypeInv, TypeOK
  <2>3. TypeOK'
    BY <1>2, <2>1, <2>2 DEF Load, disk, daemon, TypeInv, TypeOK
  <2>4. JobInv'
    BY <1>2, Actors, ListFacts DEF Load, Goto, TypeInv, TypeOK, JobInv, Rewriting
  <2>5. QED
    BY <2>3, <2>4 DEF TypeInv
<1>3. QED
  BY <1>1, <1>2 DEF Load

LEMMA CheckType == ASSUME TypeInv, NEW w \in Writer, Check(w) PROVE TypeInv'
<1>1. CASE Live(view[w]) = view[w] /\ Succeeded(w, view[w])
  <2>1. Ends(w, "announce") \/ Ends(w, "done")
    BY <1>1 DEF Succeeded
  <2>2. Rewriting(w) /\ view[w] \in SUBSET Run
    BY DEF Check, Rewriting, TypeInv, TypeOK
  <2>3. QED
    BY <1>1, <2>1, <2>2, EndsType, SucceededType DEF Check, disk, TypeInv, TypeOK
<1>2. CASE /\ view' = [view EXCEPT ![w] = Live(view[w])]
           /\ Goto(w, "open")
           /\ UNCHANGED <<child, job, daemon, history>>
  <2>1. view' \in [Writer -> SUBSET Run]
    BY <1>2 DEF Live, TypeInv, TypeOK
  <2>2. at' \in [Writer -> Steps] /\ \A q \in Writer \ {w} : at'[q] = at[q]
    BY <1>2 DEF Goto, Steps, TypeInv, TypeOK
  <2>3. TypeOK'
    BY <1>2, <2>1, <2>2 DEF Check, disk, daemon, history, TypeInv, TypeOK
  <2>4. JobInv'
    BY <1>2, Actors DEF Check, Goto, TypeInv, TypeOK, JobInv, Rewriting
  <2>5. QED
    BY <2>3, <2>4 DEF TypeInv
<1>3. QED
  BY <1>1, <1>2 DEF Check

LEMMA OpenType == ASSUME TypeInv, NEW w \in Writer, Open(w) PROVE TypeInv'
<1>1. TypeOK'
  BY DEF Open, Goto, Steps, daemon, history, TypeInv, TypeOK
<1>2. JobInv'
  BY Actors DEF Open, Goto, TypeInv, TypeOK, JobInv, Rewriting
<1>3. QED
  BY <1>1, <1>2 DEF TypeInv

LEMMA WriteType == ASSUME TypeInv, NEW w \in Writer, Write(w) PROVE TypeInv'
<1>1. /\ file' = Torn \/ file' \subseteq Run
      /\ tmp' \in {Torn, None} \/ tmp' \subseteq Run
  BY DEF Write, Over, TypeInv, TypeOK
<1>2. at' \in [Writer -> Steps] /\ fd' \in [Writer -> {None, "tmp", "file", "gone"}]
  BY DEF Write, Goto, Steps, TypeInv, TypeOK
<1>3. \A q \in Writer : fd'[q] # None => at'[q] = "write"
  BY DEF Write, Goto, TypeInv, TypeOK
<1>4. TypeOK'
  BY <1>1, <1>2, <1>3 DEF Write, daemon, history, TypeInv, TypeOK
<1>5. JobInv'
  BY Actors DEF Write, Goto, TypeInv, TypeOK, JobInv, Rewriting
<1>6. QED
  BY <1>4, <1>5 DEF TypeInv

LEMMA RenameType == ASSUME TypeInv, NEW w \in Writer, Rename(w) PROVE TypeInv'
<1>0. Rewriting(w) /\ view[w] \in SUBSET Run
  BY DEF Rename, Rewriting, TypeInv, TypeOK
<1>1. CASE tmp = None /\ Failed(w) /\ UNCHANGED disk
  <2>1. Ends(w, "failed") \/ Ends(w, "done")
    BY <1>1 DEF Failed
  <2>2. at[w] = "rename"
    BY DEF Rename
  <2>3. QED
    BY <1>0, <1>1, <2>1, <2>2, EndsType, FailedType DEF Rename, disk, TypeInv, TypeOK
<1>2. CASE /\ tmp # None
           /\ file' = tmp
           /\ tmp' = None
           /\ fd' = [q \in Writer |-> Moved(fd[q])]
           /\ Succeeded(w, view[w])
  <2>1. Ends(w, "announce") \/ Ends(w, "done")
    BY <1>2 DEF Succeeded
  <2>2. fd' \in [Writer -> {None, "tmp", "file", "gone"}]
    BY <1>2 DEF Moved, TypeInv, TypeOK
  <2>3. at[w] = "rename" /\ UNCHANGED <<hosts, faults>>
    BY DEF Rename
  <2>4. \A q \in Writer : fd'[q] # None => fd[q] # None
    BY <1>2, FileAssumption DEF Moved, TypeInv, TypeOK
  <2>5. file' = Torn \/ file' \subseteq Run
    BY <1>2 DEF TypeInv, TypeOK
  <2>6. /\ at' \in [Writer -> Steps] /\ job' \in [Writer -> Jobs]
        /\ view' \in [Writer -> SUBSET Run]
        /\ raced' \in BOOLEAN /\ trigger' \in BOOLEAN
        /\ JobInv'
        /\ \A q \in Writer \ {w} : at'[q] = at[q]
    BY <1>0, <2>1, EndsType
  <2>7. /\ child' \in [Run -> {"none", "alive", "killed", "gone"}]
        /\ routed' \subseteq Run /\ ok' \in BOOLEAN /\ owed' \subseteq Run
    BY <1>0, <1>2, SucceededType
  <2>8. \A q \in Writer : fd'[q] # None => at'[q] = "write"
    BY <2>3, <2>4, <2>6 DEF TypeInv, TypeOK
  <2>9. QED
    BY <1>2, <2>2, <2>3, <2>5, <2>6, <2>7, <2>8 DEF TypeInv, TypeOK
<1>3. QED
  BY <1>1, <1>2 DEF Rename

LEMMA RunType ==
  ASSUME TypeInv, NEW r \in Run,
         Start(r) \/ Announce(r) \/ Return(r) \/ ChildEnds(r) \/ Crash(r)
  PROVE  TypeInv'
<1> USE Actors, ListFacts DEF daemon, history, disk, Goto
<1>0. [op |-> "upsert", id |-> r] \in Jobs /\ [op |-> "remove", id |-> r] \in Jobs
  BY DEF Jobs
<1>1. CASE Start(r)
  <2>1. TypeOK'
    BY <1>0, <1>1 DEF Start, Steps, TypeInv, TypeOK
  <2>2. JobInv'
    BY <1>1 DEF Start, TypeInv, TypeOK, JobInv, Rewriting
  <2>3. QED
    BY <2>1, <2>2 DEF TypeInv
<1>2. CASE Announce(r)
  <2>1. TypeOK'
    BY <1>2 DEF Announce, Steps, TypeInv, TypeOK
  <2>2. JobInv'
    BY <1>2 DEF Announce, TypeInv, TypeOK, JobInv, Rewriting
  <2>3. QED
    BY <2>1, <2>2 DEF TypeInv
<1>3. CASE Return(r)
  <2>1. TypeOK'
    BY <1>0, <1>3 DEF Return, Steps, TypeInv, TypeOK
  <2>2. JobInv'
    BY <1>3 DEF Return, TypeInv, TypeOK, JobInv, Rewriting
  <2>3. QED
    BY <2>1, <2>2 DEF TypeInv
<1>4. CASE ChildEnds(r)
  BY <1>4 DEF ChildEnds, TypeInv, TypeOK, JobInv, Rewriting
<1>5. CASE Crash(r)
  <2>1. faults' \in 0 .. MaxFaults
    BY <1>5, BoundAssumption DEF Crash, TypeInv, TypeOK
  <2>2. TypeOK'
    BY <1>5, <2>1 DEF Crash, Steps, TypeInv, TypeOK
  <2>3. JobInv'
    BY <1>5 DEF Crash, TypeInv, TypeOK, JobInv, Rewriting
  <2>4. QED
    BY <2>2, <2>3 DEF TypeInv
<1>6. QED
  BY <1>1, <1>2, <1>3, <1>4, <1>5

LEMMA OtherType ==
  ASSUME TypeInv, Tick \/ BeginPass \/ \E t \in Tool : Report(t) \/ Kill(t) \/ SignalChild(t)
  PROVE  TypeInv'
<1> USE Actors DEF daemon, history, disk, Goto
<1>1. CASE Tick
  BY <1>1 DEF Tick, TypeInv, TypeOK, JobInv, Rewriting
<1>2. CASE BeginPass
  <2>1. TypeOK'
    BY <1>2 DEF BeginPass, Steps, TypeInv, TypeOK
  <2>2. JobInv'
    BY <1>2 DEF BeginPass, TypeInv, TypeOK, JobInv, Rewriting
  <2>3. QED
    BY <2>1, <2>2 DEF TypeInv
<1>3. ASSUME NEW t \in Tool, Report(t)
      PROVE  TypeInv'
  <2>1. faults' \in 0 .. MaxFaults
    BY <1>3, BoundAssumption DEF Report, TypeInv, TypeOK
  <2>2. TypeOK'
    BY <1>3, <2>1 DEF Report, Steps, TypeInv, TypeOK
  <2>3. JobInv'
    BY <1>3 DEF Report, TypeInv, TypeOK, JobInv, Rewriting
  <2>4. QED
    BY <2>2, <2>3 DEF TypeInv
<1>4. ASSUME NEW t \in Tool, Kill(t)
      PROVE  TypeInv'
  <2>1. faults' \in 0 .. MaxFaults
    BY <1>4, BoundAssumption DEF Kill, TypeInv, TypeOK
  <2>2. PICK r \in file : job' = [job EXCEPT ![t] = [op |-> "remove", id |-> r]]
    BY <1>4 DEF Kill
  <2>3. r \in Run
    BY <1>4 DEF Kill, TypeInv, TypeOK
  <2>4. [op |-> "remove", id |-> r] \in Jobs
    BY <2>3 DEF Jobs
  <2>5. TypeOK'
    BY <1>4, <2>1, <2>2, <2>4 DEF Kill, Steps, TypeInv, TypeOK
  <2>6. JobInv'
    BY <1>4, <2>2 DEF Kill, TypeInv, TypeOK, JobInv, Rewriting
  <2>7. QED
    BY <2>5, <2>6 DEF TypeInv
<1>5. ASSUME NEW t \in Tool, SignalChild(t)
      PROVE  TypeInv'
  <2>1. TypeOK'
    BY <1>5 DEF SignalChild, Steps, TypeInv, TypeOK
  <2>2. JobInv'
    BY <1>5 DEF SignalChild, TypeInv, TypeOK, JobInv, Rewriting
  <2>3. QED
    BY <2>1, <2>2 DEF TypeInv
<1>6. QED
  BY <1>1, <1>2, <1>3, <1>4, <1>5

LEMMA StutterType == ASSUME TypeInv, UNCHANGED vars PROVE TypeInv'
  BY DEF vars, TypeInv, TypeOK, JobInv, Rewriting

LEMMA TypeInvariance == Spec => []TypeInv
<1>1. TypeInv /\ [Next]_vars => TypeInv'
  BY LoadType, CheckType, OpenType, WriteType, RenameType, RunType, OtherType,
     StutterType DEF Next, Rewrite
<1>2. QED
  BY <1>1, InitType, PTL DEF Spec

(* Every variable keeps its type, and a descriptor is open only while its
   writer is about to write. *)
THEOREM TypeCorrect == Spec => []TypeOK
<1>1. TypeInv => TypeOK
  BY DEF TypeInv
<1>2. QED
  BY <1>1, TypeInvariance, PTL

-----------------------------------------------------------------------------
(* One lease per name.                                                     *)

(* What is loaded, or kept of it, stays disjoint; Upsert adds a lease only beside
   those that claim other names. *)
LEMMA EditedDisjoint ==
  ASSUME TypeOK, NEW w \in Writer, file # Torn, Disjoint(file)
  PROVE  Disjoint(Edited(w))
<1>0. job[w].op \in {"active", "upsert", "remove"}
  BY JobFacts DEF TypeOK
<1>1. CASE job[w].op = "upsert"
  <2> DEFINE lease == job[w].id
  <2>1. Edited(w) = {r \in file : ~Overlap(r, lease)} \cup {lease}
    BY <1>1 DEF Edited
  <2>2. \A r \in file : ~Overlap(r, lease) => ~Overlap(lease, r)
    BY DEF Overlap
  <2>3. QED
    BY <2>1, <2>2 DEF Disjoint
<1>2. CASE job[w].op # "upsert"
  <2>1. Edited(w) \subseteq file
    BY <1>0, <1>2 DEF Edited
  <2>2. QED
    BY <2>1 DEF Disjoint
<1>3. QED
  BY <1>1, <1>2

LEMMA OverDisjoint ==
  ASSUME NEW c, NEW v, NEW w \in Over(c, v), Disjoint(v)
  PROVE  w # Torn => Disjoint(w)
  BY DEF Over

LEMMA EmptyDisjoint == Disjoint({})
  BY DEF Disjoint

LEMMA EndsDisjoint ==
  ASSUME TypeInv, DisjointInv, NEW w \in Writer, NEW step, Ends(w, step), hosts' = hosts
  PROVE  \A q \in Writer : Disjoint(view[q])'
  BY DEF Ends, TypeInv, TypeOK, DisjointInv, Disjoint, Overlap

LEMMA LoadDisjoint ==
  ASSUME TypeInv, DisjointInv, NEW w \in Writer, Load(w)
  PROVE  DisjointInv'
<1> USE DEF DisjointInv, Disjoint, Overlap
<1>0. hosts' = hosts /\ UNCHANGED <<file, tmp>>
  BY DEF Load, disk
<1>1. CASE Failed(w)
  <2>1. Ends(w, "failed") \/ Ends(w, "done")
    BY <1>1 DEF Failed
  <2>2. QED
    BY <1>0, <2>1, EndsDisjoint
<1>2. CASE file # Torn /\ view' = [view EXCEPT ![w] = Edited(w)]
  <2>1. Disjoint(Edited(w))
    BY <1>2, EditedDisjoint DEF TypeInv
  <2>2. \A q \in Writer : Disjoint(view'[q])
    BY <1>2, <2>1 DEF TypeInv, TypeOK
  <2>3. QED
    BY <1>0, <2>2
<1>3. QED
  BY <1>1, <1>2 DEF Load

LEMMA CheckDisjoint ==
  ASSUME TypeInv, DisjointInv, NEW w \in Writer, Check(w)
  PROVE  DisjointInv'
<1> USE DEF DisjointInv, Disjoint, Overlap
<1>0. hosts' = hosts /\ UNCHANGED <<file, tmp>>
  BY DEF Check, disk
<1>1. CASE Succeeded(w, view[w])
  <2>1. Ends(w, "announce") \/ Ends(w, "done")
    BY <1>1 DEF Succeeded
  <2>2. QED
    BY <1>0, <2>1, EndsDisjoint
<1>2. CASE view' = [view EXCEPT ![w] = Live(view[w])]
  <2>1. Disjoint(Live(view[w]))
    BY DEF Live
  <2>2. \A q \in Writer : Disjoint(view'[q])
    BY <1>2, <2>1 DEF TypeInv, TypeOK
  <2>3. QED
    BY <1>0, <2>2
<1>3. QED
  BY <1>1, <1>2 DEF Check

LEMMA WriteDisjoint ==
  ASSUME TypeInv, DisjointInv, NEW w \in Writer, Open(w) \/ Write(w)
  PROVE  DisjointInv'
<1>1. CASE Open(w)
  BY <1>1, EmptyDisjoint DEF Open, DisjointInv, Disjoint, Overlap
<1>2. CASE Write(w)
  <2>0. Disjoint(view[w]) /\ UNCHANGED <<hosts, view>>
    BY <1>2 DEF Write, DisjointInv
  <2>1. tmp' \notin {Torn, None} => Disjoint(tmp')
    BY <1>2, <2>0, OverDisjoint DEF Write, DisjointInv
  <2>2. file' # Torn => Disjoint(file')
    BY <1>2, <2>0, OverDisjoint DEF Write, DisjointInv
  <2>3. QED
    BY <2>0, <2>1, <2>2 DEF DisjointInv, Disjoint, Overlap
<1>3. QED
  BY <1>1, <1>2

LEMMA RenameDisjoint ==
  ASSUME TypeInv, DisjointInv, NEW w \in Writer, Rename(w)
  PROVE  DisjointInv'
<1>0. hosts' = hosts
  BY DEF Rename
<1>1. Ends(w, "failed") \/ Ends(w, "done") \/ Ends(w, "announce")
  BY DEF Rename, Failed, Succeeded
<1>2. \A q \in Writer : Disjoint(view[q])'
  BY <1>0, <1>1, EndsDisjoint
<1>3. \/ UNCHANGED <<file, tmp>>
      \/ tmp # None /\ file' = tmp /\ tmp' = None
  BY DEF Rename, disk
<1>4. QED
  BY <1>0, <1>2, <1>3 DEF DisjointInv, Disjoint, Overlap

LEMMA OtherDisjoint ==
  ASSUME TypeInv, DisjointInv,
         \/ \E r \in Run : Start(r) \/ Announce(r) \/ Return(r) \/ ChildEnds(r) \/ Crash(r)
         \/ Tick \/ BeginPass
         \/ \E t \in Tool : Report(t) \/ Kill(t) \/ SignalChild(t)
         \/ UNCHANGED vars
  PROVE  DisjointInv'
<1>1. UNCHANGED <<hosts, file, tmp>>
  BY DEF Start, Announce, Return, ChildEnds, Crash, Tick, BeginPass, Report, Kill,
         SignalChild, disk, vars
<1>2. view' = view \/ \E r \in Run : view' = [view EXCEPT ![r] = {}]
  BY DEF Start, Announce, Return, ChildEnds, Crash, Tick, BeginPass, Report, Kill, SignalChild, vars
<1>3. \A w \in Writer : view'[w] = view[w] \/ view'[w] = {}
  BY <1>2 DEF TypeInv, TypeOK
<1>4. QED
  BY <1>1, <1>3 DEF DisjointInv, Disjoint, Overlap

(* No name has two leases in the file, whatever the order in which commands and
   daemon rewrite it: a host has one target. *)
THEOREM OneLeasePerHost == Spec => []HostsDisjoint
<1>1. Init => DisjointInv
  BY EmptyDisjoint DEF Init, DisjointInv, Disjoint
<1>2. TypeInv /\ DisjointInv /\ [Next]_vars => DisjointInv'
  BY LoadDisjoint, CheckDisjoint, WriteDisjoint, RenameDisjoint, OtherDisjoint
  DEF Next, Rewrite
<1>3. DisjointInv => HostsDisjoint
  BY DEF DisjointInv, Disjoint, HostsDisjoint
<1>4. QED
  BY <1>1, <1>2, <1>3, TypeInvariance, PTL DEF Spec

-----------------------------------------------------------------------------
(* Runs that have returned.                                                *)

Served(r) ==
  /\ child[r] = "gone"
  /\ r \in routed => trigger \/ at[Daemon] # "idle" \/ ~ok
  /\ Saving /\ r \in view[Daemon] => trigger

(* The end of a rewriting by a run or a tool, or by the daemon. *)
LEMMA EndsReturned ==
  ASSUME TypeInv, NEW w \in Writer, NEW r \in Run, at[w] = "load" \/ Rewriting(w),
         Ends(w, IF job[w].op = "upsert" THEN "failed" ELSE "done")
           \/ Ends(w, IF job[w].op = "upsert" THEN "announce" ELSE "done"),
         Returned(r)'
  PROVE  Returned(r)
<1>1. CASE r = w
  BY <1>1, Actors, ListFacts DEF Ends, Goto, Returned, Rewriting, TypeInv, TypeOK, JobInv
<1>2. CASE r # w
  <2>1. at'[r] = at[r] /\ job'[r] = job[r]
    BY <1>2, Actors DEF Ends, Goto, TypeInv, TypeOK
  <2>2. QED
    BY <2>1 DEF Returned, Rewriting
<1>3. QED
  BY <1>1, <1>2

LEMMA RewriteReturned ==
  ASSUME TypeInv, NEW w \in Writer, Rewrite(w), NEW r \in Run, Returned(r)'
  PROVE  Returned(r)
<1>1. CASE Load(w)
  <2>1. CASE Failed(w)
    BY <1>1, <2>1, EndsReturned DEF Load, Failed
  <2>2. CASE /\ Goto(w, IF job[w].op = "active" THEN "check" ELSE "open")
             /\ UNCHANGED job
    BY <1>1, <2>2, Actors DEF Load, Goto, Returned, Rewriting, TypeInv, TypeOK
  <2>3. QED
    BY <1>1, <2>1, <2>2 DEF Load
<1>2. CASE Check(w)
  <2>1. CASE Succeeded(w, view[w])
    BY <1>2, <2>1, EndsReturned DEF Check, Succeeded, Rewriting
  <2>2. CASE Goto(w, "open") /\ UNCHANGED job
    BY <1>2, <2>2, Actors DEF Check, Goto, Returned, Rewriting, TypeInv, TypeOK
  <2>3. QED
    BY <1>2, <2>1, <2>2 DEF Check
<1>3. CASE Open(w)
  BY <1>3, Actors DEF Open, Goto, Returned, Rewriting, TypeInv, TypeOK
<1>4. CASE Write(w)
  BY <1>4, Actors DEF Write, Goto, Returned, Rewriting, TypeInv, TypeOK
<1>5. CASE Rename(w)
  BY <1>5, EndsReturned DEF Rename, Failed, Succeeded, Rewriting
<1>6. QED
  BY <1>1, <1>2, <1>3, <1>4, <1>5 DEF Rewrite

(* A rewriting by another command does not bring back what the daemon has
   dropped. *)
LEMMA OtherServed ==
  ASSUME TypeInv, NEW w \in Writer \ {Daemon}, Rewrite(w), NEW r \in Run, Served(r)
  PROVE  Served(r)'
<1>1. at'[Daemon] = at[Daemon] /\ view'[Daemon] = view[Daemon]
  BY Actors DEF Rewrite, Load, Check, Open, Write, Rename, Failed, Succeeded, Ends, Goto,
                TypeInv, TypeOK
<1>2. routed' = routed /\ ok' = ok /\ (trigger => trigger')
  BY DEF Rewrite, Load, Check, Open, Write, Rename, Failed, Succeeded, Ends, daemon,
         TypeInv, TypeOK
<1>3. child' = child \/ (child[w] = "alive" /\ child' = [child EXCEPT ![w] = "killed"])
  BY DEF Rewrite, Load, Check, Open, Write, Rename, Failed, Succeeded
<1>4. child'[r] = "gone"
  BY <1>3 DEF Served, TypeInv, TypeOK
<1>5. QED
  BY <1>1, <1>2, <1>4 DEF Served, Saving

LEMMA DaemonServed ==
  ASSUME TypeInv, Rewrite(Daemon), NEW r \in Run, Served(r)
  PROVE  Served(r)'
<1> USE Actors
<1>0. job[Daemon].op = "active" /\ child' = child
  BY ListFacts
  DEF Rewrite, Load, Check, Open, Write, Rename, Failed, Succeeded, TypeInv, JobInv
<1>1. child'[r] = "gone" /\ r \notin Live(view[Daemon])
  BY <1>0 DEF Served, Live, Running
<1>2. CASE Failed(Daemon)
  <2>1. ~ok' /\ at'[Daemon] = "idle"
    BY <1>2 DEF Failed, Ends, Goto, TypeInv, TypeOK
  <2>2. QED
    BY <1>1, <2>1 DEF Served, Saving
<1>3. CASE Load(Daemon) /\ ~Failed(Daemon)
  <2>1. at'[Daemon] = "check"
    BY <1>0, <1>3 DEF Load, Goto, TypeInv, TypeOK
  <2>2. QED
    BY <1>1, <2>1 DEF Served, Saving
<1>4. CASE Check(Daemon) /\ Succeeded(Daemon, view[Daemon]) /\ Live(view[Daemon]) = view[Daemon]
  <2>1. at'[Daemon] = "idle" /\ r \notin routed'
    BY <1>1, <1>4 DEF Succeeded, Ends, Goto, TypeInv, TypeOK
  <2>2. QED
    BY <1>1, <2>1 DEF Served, Saving
<1>5. CASE Check(Daemon) /\ view' = [view EXCEPT ![Daemon] = Live(view[Daemon])]
                         /\ Goto(Daemon, "open")
  <2>1. at'[Daemon] = "open" /\ r \notin view'[Daemon]
    BY <1>1, <1>5 DEF Goto, TypeInv, TypeOK
  <2>2. QED
    BY <1>1, <2>1 DEF Served, Saving
<1>6. CASE Open(Daemon) \/ Write(Daemon)
  <2>1. /\ at[Daemon] \in {"open", "write"} /\ at'[Daemon] \in {"write", "rename"}
        /\ UNCHANGED <<view, trigger>>
    BY <1>6 DEF Open, Write, Goto, daemon, TypeInv, TypeOK
  <2>2. QED
    BY <1>1, <2>1 DEF Served, Saving
<1>7. CASE Rename(Daemon) /\ Succeeded(Daemon, view[Daemon])
  <2>1. /\ at[Daemon] = "rename" /\ at'[Daemon] = "idle"
        /\ routed' = view[Daemon] /\ (trigger => trigger')
    BY <1>7 DEF Rename, Succeeded, Ends, Goto, TypeInv, TypeOK
  <2>2. QED
    BY <1>1, <2>1 DEF Served, Saving
<1>8. QED
  BY <1>2, <1>3, <1>4, <1>5, <1>6, <1>7 DEF Rewrite, Check, Rename

LEMMA RunReturned ==
  ASSUME TypeInv, ReturnInv, NEW q \in Run,
         Start(q) \/ Announce(q) \/ Return(q) \/ ChildEnds(q) \/ Crash(q)
  PROVE  ReturnInv'
<1> SUFFICES ASSUME NEW r \in Run, Returned(r)' PROVE Served(r)'
  BY DEF ReturnInv, Served
<1>0. /\ at'[Daemon] = at[Daemon] /\ view'[Daemon] = view[Daemon]
      /\ routed' = routed /\ ok' = ok /\ (trigger => trigger')
  BY Actors DEF Start, Announce, Return, ChildEnds, Crash, Goto, daemon, TypeInv, TypeOK
<1>1. CASE Returned(r)
  <2>1. child'[r] = "gone"
    BY <1>1, ListFacts DEF Start, Announce, Return, ChildEnds, Crash, Returned, Rewriting, Goto,
                ReturnInv, TypeInv, TypeOK
  <2>2. QED
    BY <1>0, <1>1, <2>1 DEF ReturnInv, Served, Saving
<1>2. CASE ~Returned(r)
  <2>1. Return(r)
    BY <1>2, Actors, ListFacts
    DEF Start, Announce, Return, ChildEnds, Crash, Returned, Rewriting, Goto, TypeInv, TypeOK
  <2>2. QED
    BY <1>0, <2>1 DEF Return, Served, Saving
<1>3. QED
  BY <1>1, <1>2

LEMMA OutsideReturned ==
  ASSUME TypeInv, ReturnInv,
         \/ Tick \/ BeginPass \/ UNCHANGED vars
         \/ \E t \in Tool : Report(t) \/ Kill(t) \/ SignalChild(t)
  PROVE  ReturnInv'
<1> SUFFICES ASSUME NEW r \in Run, Returned(r)' PROVE Served(r)'
  BY DEF ReturnInv, Served
<1>1. at'[r] = at[r] /\ job'[r] = job[r]
  BY Actors DEF Tick, BeginPass, Report, Kill, SignalChild, Goto, vars, TypeInv, TypeOK
<1>2. Returned(r)
  BY <1>1 DEF Returned, Rewriting
<1>3. child'[r] = "gone"
  BY <1>2 DEF Tick, BeginPass, Report, Kill, SignalChild, vars, ReturnInv, TypeInv, TypeOK
<1>4. view' = view /\ routed' = routed /\ ok' = ok
  BY DEF Tick, BeginPass, Report, Kill, SignalChild, daemon, vars
<1>5. CASE BeginPass
  BY <1>3, <1>5, Actors DEF BeginPass, Goto, Served, Saving, TypeInv, TypeOK
<1>6. CASE ~BeginPass
  <2>1. at'[Daemon] = at[Daemon] /\ (trigger => trigger')
    BY <1>6, Actors DEF Tick, Report, Kill, SignalChild, Goto, daemon, vars, TypeInv, TypeOK
  <2>2. QED
    BY <1>2, <1>3, <1>4, <2>1 DEF ReturnInv, Served, Saving
<1>7. QED
  BY <1>5, <1>6

(* After a run has returned, the pass that its notice asks for stops serving its
   hosts, whether or not it still finds the lease in the file. *)
THEOREM ReturnHeeded == Spec => []ReturnedUnrouted
<1>1. Init => ReturnInv
  BY Actors DEF Init, ReturnInv, Returned, Rewriting
<1>2. TypeInv /\ ReturnInv /\ [Next]_vars => ReturnInv'
  <2> SUFFICES ASSUME TypeInv, ReturnInv, [Next]_vars PROVE ReturnInv'
    OBVIOUS
  <2>1. ASSUME NEW w \in Writer, Rewrite(w)
        PROVE  ReturnInv'
    <3>1. SUFFICES ASSUME NEW r \in Run, Returned(r)' PROVE Served(r)'
      BY DEF ReturnInv, Served
    <3>2. Served(r)
      <4>1. Returned(r)
        BY <2>1, <3>1, RewriteReturned
      <4>2. QED
        BY <4>1 DEF ReturnInv, Served
    <3>3. CASE w = Daemon
      BY <2>1, <3>2, <3>3, DaemonServed
    <3>4. CASE w # Daemon
      <4>1. w \in Writer \ {Daemon}
        BY <3>4
      <4>2. QED
        BY <2>1, <3>2, <4>1, OtherServed
    <3>5. QED
      BY <3>3, <3>4
  <2>2. QED
    BY <2>1, RunReturned, OutsideReturned DEF Next
<1>3. ReturnInv => ReturnedUnrouted
  BY DEF ReturnInv, ReturnedUnrouted, Returned
<1>4. QED
  BY <1>1, <1>2, <1>3, TypeInvariance, PTL DEF Spec

-----------------------------------------------------------------------------
(* Leases that are owed.                                                   *)

(* Rewritings that are not raced do not overlap, and a race leaves no one owed. *)
RaceInv ==
  /\ ~raced => \A w, q \in Writer : Rewriting(w) /\ Rewriting(q) => w = q
  /\ raced => owed = {}

(* Nobody knows of a lease before its run has started. *)
StartedInv ==
  \A r \in Run : at[r] = "idle" =>
    /\ file # Torn => r \notin file
    /\ tmp \notin {Torn, None} => r \notin tmp
    /\ \A w \in Writer : r \notin view[w] /\ job[w].id # r

(* Children start with their runs; whose lease is removed has lost its child,
   once kill has sent its signal. *)
ChildInv ==
  /\ \A r \in Run : at[r] = "idle" => child[r] = "none" /\ r \notin owed
  /\ \A w \in Writer : job[w].op = "remove" =>
       child[job[w].id] # "alive" \/ at[w] = "signal"

Owed(r) == r \in owed /\ child[r] = "alive"

(* What w has loaded or is about to save keeps the leases that are owed, but for
   those whose names it claims for another. *)
Keeps(w) ==
  /\ job[w].op = "upsert" => job[w].id \in view[w]
  /\ \A r \in Run :
       Owed(r) => r \in view[w] \/ (job[w].op = "upsert" /\ Overlap(r, job[w].id))

CopyInv ==
  ~raced => \A w \in Writer :
    /\ at[w] = "check" => view[w] = file
    /\ at[w] \in {"open", "write", "rename"} => Keeps(w)
    /\ at[w] = "write" => fd[w] = "tmp" /\ tmp = {}
    /\ at[w] = "rename" => tmp = view[w]

KeptInv == RaceInv /\ StartedInv /\ ChildInv /\ CopyInv /\ LeaseKept

IInv == TypeInv /\ KeptInv

RunStep == \E r \in Run : Start(r) \/ Announce(r) \/ Return(r) \/ ChildEnds(r) \/ Crash(r)
OutsideStep == Tick \/ BeginPass \/ \E t \in Tool : Report(t) \/ Kill(t) \/ SignalChild(t)

(* A rewriting ends well, or goes on. *)
LEMMA RewriteSteps ==
  ASSUME TypeInv, NEW w \in Writer, Rewrite(w)
  PROVE  /\ at[w] = "load" \/ Rewriting(w)
         /\ \A q \in Writer \ {w} : at'[q] = at[q] /\ view'[q] = view[q] /\ job'[q] = job[q]
         /\ hosts' = hosts
         /\ \/ ~Rewriting(w)' /\ raced' = (raced /\ ~Alone(w))
            \/ Rewriting(w)' /\ raced' = (raced \/ (at[w] = "load" /\ ~Alone(w)))
<1>1. CASE Load(w)
  BY <1>1 DEF Load, Failed, Ends, Goto, Rewriting, TypeInv, TypeOK
<1>2. CASE Check(w)
  BY <1>2 DEF Check, Succeeded, Ends, Goto, Rewriting, history, TypeInv, TypeOK
<1>3. CASE Open(w) \/ Write(w)
  BY <1>3 DEF Open, Write, Goto, Rewriting, history, TypeInv, TypeOK
<1>4. CASE Rename(w)
  BY <1>4 DEF Rename, Failed, Succeeded, Ends, Goto, Rewriting, TypeInv, TypeOK
<1>5. QED
  BY <1>1, <1>2, <1>3, <1>4 DEF Rewrite

(* Beside the rewritings, only a crash ends one, and none begins. *)
LEMMA OtherSteps ==
  ASSUME TypeInv, RunStep \/ OutsideStep \/ UNCHANGED vars
  PROVE  /\ UNCHANGED <<hosts, file, tmp, owed>>
         /\ \A w \in Writer : Rewriting(w)' =>
              at'[w] = at[w] /\ job'[w] = job[w] /\ view'[w] = view[w] /\ fd'[w] = fd[w]
         /\ raced' = raced \/ (~raced' /\ \A w \in Writer : ~Rewriting(w)')
<1>1. CASE UNCHANGED vars
  BY <1>1 DEF vars
<1>2. CASE OutsideStep
  BY <1>2, Actors DEF OutsideStep, Tick, BeginPass, Report, Kill, SignalChild, Goto, Rewriting,
                      disk, history, TypeInv, TypeOK
<1>3. ASSUME NEW r \in Run, Start(r) \/ Announce(r) \/ Return(r) \/ ChildEnds(r)
      PROVE  /\ UNCHANGED <<hosts, file, tmp, owed, raced>>
             /\ \A w \in Writer : Rewriting(w)' =>
                  at'[w] = at[w] /\ job'[w] = job[w] /\ view'[w] = view[w] /\ fd'[w] = fd[w]
  BY <1>3, Actors DEF Start, Announce, Return, ChildEnds, Goto, Rewriting,
                      disk, history, TypeInv, TypeOK
<1>4. ASSUME NEW r \in Run, Crash(r)
      PROVE  /\ UNCHANGED <<hosts, file, tmp, owed>>
             /\ \A w \in Writer : Rewriting(w)' =>
                  at'[w] = at[w] /\ job'[w] = job[w] /\ view'[w] = view[w] /\ fd'[w] = fd[w]
             /\ raced' = raced \/ (~raced' /\ \A w \in Writer : ~Rewriting(w)')
  BY <1>4, Actors DEF Crash, Goto, Rewriting, Alone, TypeInv, TypeOK
<1>5. QED
  BY <1>1, <1>2, <1>3, <1>4 DEF RunStep

(* Owed leases are dropped in a race, and added only outside one. *)
LEMMA OwedSteps ==
  ASSUME TypeInv, NEW w \in Writer, Rewrite(w)
  PROVE  \/ owed' \subseteq owed
         \/ ~raced /\ ~raced' /\ owed' \subseteq owed \cup {w} /\ w \in Run /\ at'[w] = "announce"
<1>1. CASE Load(w)
  BY <1>1 DEF Load, Failed
<1>2. CASE Open(w) \/ Write(w)
  BY <1>2 DEF Open, Write, history
<1>3. CASE Check(w) \/ Rename(w)
  <2>1. job[w].op = "upsert" => w \in Run
    BY ListFacts, Actors DEF TypeInv, JobInv, Writer
  <2>2. CASE Succeeded(w, view[w])
    BY <2>1, <2>2 DEF Succeeded, Ends, Goto, TypeInv, TypeOK
  <2>3. CASE owed' = owed
    BY <2>3
  <2>4. QED
    BY <1>3, <2>2, <2>3 DEF Check, Rename, Failed, history
<1>4. QED
  BY <1>1, <1>2, <1>3 DEF Rewrite

LEMMA LoadRace ==
  ASSUME TypeInv, NEW w \in Writer, Load(w), ~Alone(w), raced', Rewriting(w)'
  PROVE  owed' = {}
  BY DEF Load, Failed, Ends, Goto, Rewriting, TypeInv, TypeOK

LEMMA RaceStep ==
  ASSUME TypeInv, RaceInv, [Next]_vars
  PROVE  RaceInv'
<1>1. ASSUME NEW w \in Writer, Rewrite(w)
      PROVE  RaceInv'
  <2>1. /\ at[w] = "load" \/ Rewriting(w)
        /\ \A q \in Writer \ {w} : at'[q] = at[q]
    BY <1>1, RewriteSteps
  <2>2. \A q \in Writer \ {w} : Rewriting(q)' <=> Rewriting(q)
    BY <2>1 DEF Rewriting
  <2>3. CASE ~Rewriting(w)' /\ raced' = (raced /\ ~Alone(w))
    <3>1. ~raced' => \A p, q \in Writer : Rewriting(p)' /\ Rewriting(q)' => p = q
      BY <2>2, <2>3 DEF RaceInv, Alone
    <3>2. raced' => owed' = {}
      BY <1>1, <2>3, OwedSteps DEF RaceInv
    <3>3. QED
      BY <3>1, <3>2 DEF RaceInv
  <2>4. CASE Rewriting(w)' /\ raced' = (raced \/ (at[w] = "load" /\ ~Alone(w)))
    <3>1. ~raced' => \A p, q \in Writer : Rewriting(p)' /\ Rewriting(q)' => p = q
      BY <2>1, <2>2, <2>4 DEF RaceInv, Alone
    <3>2. CASE raced
      BY <1>1, <2>4, <3>1, <3>2, OwedSteps DEF RaceInv
    <3>3. CASE ~raced
      <4>1. raced' => owed' = {}
        <5>1. SUFFICES ASSUME raced' PROVE owed' = {}
          OBVIOUS
        <5>2. at[w] = "load" /\ ~Alone(w)
          BY <2>4, <3>3, <5>1
        <5>3. Load(w)
          BY <1>1, <5>2 DEF Rewrite, Check, Open, Write, Rename
        <5>4. QED
          BY <2>4, <5>1, <5>2, <5>3, LoadRace
      <4>2. QED
        BY <3>1, <4>1 DEF RaceInv
    <3>4. QED
      BY <3>2, <3>3
  <2>5. QED
    BY <1>1, <2>3, <2>4, RewriteSteps
<1>2. CASE RunStep \/ OutsideStep \/ UNCHANGED vars
  <2>1. \A w \in Writer : Rewriting(w)' => Rewriting(w)
    BY <1>2, OtherSteps DEF Rewriting
  <2>2. QED
    BY <1>2, <2>1, OtherSteps DEF RaceInv
<1>3. QED
  BY <1>1, <1>2 DEF Next, RunStep, OutsideStep

(* Nobody's child comes back, and a child begins only with its run. *)
LEMMA ChildSteps ==
  ASSUME TypeInv, NEW w \in Writer, Rewrite(w)
  PROVE  /\ \A r \in Run : child'[r] = child[r] \/ (child[r] = "alive" /\ child'[r] = "killed")
         /\ job'[w] = job[w] \/ job'[w] = List
         /\ w \in Run => at'[w] # "idle"
<1>0. job[w].op = "upsert" => w \in Run
  BY ListFacts, Actors DEF TypeInv, JobInv, Writer
<1>1. CASE Failed(w)
  <2>1. \A r \in Run : child'[r] = child[r] \/ (child[r] = "alive" /\ child'[r] = "killed")
    BY <1>0, <1>1 DEF Failed, TypeInv, TypeOK
  <2>2. job'[w] = List /\ (w \in Run => at'[w] # "idle")
    BY <1>1 DEF Failed, Ends, Goto, TypeInv, TypeOK
  <2>3. QED
    BY <2>1, <2>2
<1>2. CASE Succeeded(w, view[w])
  <2>1. child' = child /\ job'[w] = List
    BY <1>2 DEF Succeeded, Ends, TypeInv, TypeOK
  <2>2. w \in Run => at'[w] # "idle"
    BY <1>2 DEF Succeeded, Ends, Goto, TypeInv, TypeOK
  <2>3. QED
    BY <2>1, <2>2
<1>3. CASE UNCHANGED <<child, job>> /\ \E step \in Steps \ {"idle"} : Goto(w, step)
  BY <1>3 DEF Goto, TypeInv, TypeOK
<1>4. QED
  BY <1>1, <1>2, <1>3 DEF Rewrite, Load, Check, Open, Write, Rename, Steps

LEMMA StartedStep ==
  ASSUME TypeInv, StartedInv, [Next]_vars
  PROVE  StartedInv'
<1> SUFFICES ASSUME NEW r \in Run, at'[r] = "idle"
             PROVE  /\ file' # Torn => r \notin file'
                    /\ tmp' \notin {Torn, None} => r \notin tmp'
                    /\ \A w \in Writer : r \notin view'[w] /\ job'[w].id # r
  BY DEF StartedInv
<1> USE Actors
<1>0. at[r] = "idle" => /\ file # Torn => r \notin file
                        /\ tmp \notin {Torn, None} => r \notin tmp
                        /\ \A w \in Writer : r \notin view[w] /\ job[w].id # r
  BY DEF StartedInv
<1>1. ASSUME NEW w \in Writer, Rewrite(w)
      PROVE  /\ file' # Torn => r \notin file'
             /\ tmp' \notin {Torn, None} => r \notin tmp'
             /\ \A q \in Writer : r \notin view'[q] /\ job'[q].id # r
  <2>0. at[r] = "idle" /\ r # w
    BY <1>1, RewriteSteps, ChildSteps
  <2>1. job'[w] = job[w] \/ job'[w] = List
    BY <1>1, ChildSteps
  <2>2. \A q \in Writer : job'[q].id # r
    BY <1>0, <1>1, <2>0, <2>1, RewriteSteps, ActorAssumption DEF List
  <2>3. CASE Load(w)
    <3>1. UNCHANGED <<file, tmp>>
      BY <2>3 DEF Load, disk
    <3>2. view'[w] = {} \/ (file # Torn /\ view'[w] = Edited(w))
      BY <2>3 DEF Load, Failed, Ends, TypeInv, TypeOK
    <3>3. file # Torn => r \notin Edited(w)
      BY <1>0, <2>0, JobFacts DEF Edited, TypeInv, TypeOK
    <3>4. QED
      BY <1>0, <1>1, <2>0, <2>2, <3>1, <3>2, <3>3, RewriteSteps
  <2>4. CASE Check(w)
    <3>1. UNCHANGED <<file, tmp>> /\ view'[w] \subseteq view[w]
      BY <2>4 DEF Check, Succeeded, Ends, Live, disk, TypeInv, TypeOK
    <3>2. QED
      BY <1>0, <1>1, <2>0, <2>2, <3>1, RewriteSteps
  <2>5. CASE Open(w)
    BY <1>0, <2>0, <2>2, <2>5 DEF Open
  <2>6. CASE Write(w)
    BY <1>0, <2>0, <2>2, <2>6 DEF Write, Over
  <2>7. CASE Rename(w)
    <3>1. (UNCHANGED <<file, tmp>> \/ (file' = tmp /\ tmp' = None /\ tmp # None))
          /\ view'[w] = {}
      BY <2>7 DEF Rename, Failed, Succeeded, Ends, disk, TypeInv, TypeOK
    <3>2. QED
      BY <1>0, <1>1, <2>0, <2>2, <3>1, RewriteSteps
  <2>8. QED
    BY <1>1, <2>3, <2>4, <2>5, <2>6, <2>7 DEF Rewrite
<1>2. CASE RunStep \/ OutsideStep \/ UNCHANGED vars
  <2>1. at[r] = "idle" /\ UNCHANGED <<file, tmp>>
    BY <1>2 DEF RunStep, OutsideStep, Start, Announce, Return, ChildEnds, Crash, Tick,
                BeginPass, Report, Kill, SignalChild, Goto, disk, vars, TypeInv, TypeOK
  <2>2. \A q \in Writer : view'[q] = view[q] \/ view'[q] = {}
    BY <1>2 DEF RunStep, OutsideStep, Start, Announce, Return, ChildEnds, Crash, Tick,
                BeginPass, Report, Kill, SignalChild, vars, TypeInv, TypeOK
  <2>3. \A q \in Writer : job'[q].id # r
    <3>1. ASSUME NEW s \in Run, Start(s) \/ Return(s)
          PROVE  \A q \in Writer : job'[q].id # r
      BY <1>0, <2>1, <3>1 DEF Start, Return, Goto, TypeInv, TypeOK
    <3>2. ASSUME NEW s \in Run, Announce(s) \/ ChildEnds(s) \/ Crash(s)
          PROVE  \A q \in Writer : job'[q].id # r
      BY <1>0, <2>1, <3>2, ActorAssumption DEF Announce, ChildEnds, Crash, List, TypeInv, TypeOK
    <3>3. ASSUME NEW t \in Tool, Kill(t)
          PROVE  \A q \in Writer : job'[q].id # r
      BY <1>0, <2>1, <3>3 DEF Kill, TypeInv, TypeOK
    <3>4. ASSUME Tick \/ BeginPass \/ (\E t \in Tool : Report(t) \/ SignalChild(t))
                 \/ UNCHANGED vars
          PROVE  \A q \in Writer : job'[q].id # r
      BY <1>0, <2>1, <3>4 DEF Tick, BeginPass, Report, SignalChild, vars
    <3>5. QED
      BY <1>2, <3>1, <3>2, <3>3, <3>4 DEF RunStep, OutsideStep
  <2>4. QED
    BY <1>0, <2>1, <2>2, <2>3
<1>3. QED
  BY <1>1, <1>2 DEF Next, RunStep, OutsideStep

LEMMA ChildStep ==
  ASSUME TypeInv, StartedInv, ChildInv, [Next]_vars
  PROVE  ChildInv'
<1> USE Actors, ListFacts
<1>0. \A w \in Writer : job[w].op = "remove" => job[w].id \in Run
  BY JobFacts DEF TypeInv, TypeOK
<1>1. ASSUME NEW w \in Writer, Rewrite(w)
      PROVE  ChildInv'
  <2>1. \A q \in Writer : job'[q].op = "remove" => job'[q] = job[q]
    BY <1>1, RewriteSteps, ChildSteps
  <2>2. \A q \in Writer : job'[q].op = "remove" =>
          child'[job'[q].id] # "alive" \/ at'[q] = "signal"
    BY <1>0, <1>1, <2>1, ChildSteps, RewriteSteps DEF ChildInv, Rewriting
  <2>3. \A r \in Run : at'[r] = "idle" => at[r] = "idle" /\ r # w
    BY <1>1, RewriteSteps, ChildSteps
  <2>4. \A r \in Run : at'[r] = "idle" => child'[r] = "none" /\ r \notin owed'
    BY <1>1, <2>3, ChildSteps, OwedSteps DEF ChildInv
  <2>5. QED
    BY <2>2, <2>4 DEF ChildInv
<1>2. ASSUME NEW r \in Run, Start(r) \/ Announce(r) \/ ChildEnds(r) \/ Crash(r)
      PROVE  ChildInv'
  <2>1. \A q \in Run : at'[q] = "idle" => at[q] = "idle" /\ child'[q] = "none" /\ owed' = owed
    BY <1>2 DEF Start, Announce, ChildEnds, Crash, Goto, Running, history, ChildInv,
                TypeInv, TypeOK
  <2>2. \A q \in Writer : job'[q].op = "remove" => job'[q] = job[q]
    BY <1>2 DEF Start, Announce, ChildEnds, Crash, TypeInv, TypeOK
  <2>3. \A q \in Run : child'[q] = "alive" => child[q] = "alive" \/ at[q] = "idle"
    BY <1>2 DEF Start, Announce, ChildEnds, Crash, TypeInv, TypeOK
  <2>4. \A q \in Writer : job'[q].op = "remove" /\ at[q] = "signal" => at'[q] = "signal"
    BY <1>2 DEF Start, Announce, ChildEnds, Crash, Goto, TypeInv, TypeOK
  <2>5. QED
    BY <1>0, <2>1, <2>2, <2>3, <2>4 DEF ChildInv, StartedInv
<1>3. ASSUME NEW r \in Run, Return(r)
      PROVE  ChildInv'
  BY <1>0, <1>3 DEF Return, Goto, history, ChildInv, TypeInv, TypeOK
<1>4. ASSUME NEW t \in Tool, Kill(t)
      PROVE  ChildInv'
  BY <1>0, <1>4 DEF Kill, Goto, history, ChildInv, TypeInv, TypeOK
<1>5. ASSUME NEW t \in Tool, SignalChild(t)
      PROVE  ChildInv'
  <2>1. UNCHANGED <<job, owed>> /\ \A q \in Writer \ {t} : at'[q] = at[q]
    BY <1>5 DEF SignalChild, Goto, history, TypeInv, TypeOK
  <2>2. \A q \in Run : child'[q] # "alive" \/ (child'[q] = child[q] /\ q # job[t].id)
    BY <1>5 DEF SignalChild, TypeInv, TypeOK
  <2>3. \A q \in Run : at'[q] = at[q] /\ (at[q] = "idle" => q # job[t].id)
    BY <2>1, <1>5 DEF StartedInv
  <2>4. \A q \in Run : q # job[t].id => child'[q] = child[q]
    BY <1>5 DEF SignalChild, TypeInv, TypeOK
  <2>5. QED
    BY <1>0, <2>1, <2>2, <2>3, <2>4 DEF ChildInv
<1>6. CASE Tick \/ BeginPass \/ (\E t \in Tool : Report(t)) \/ UNCHANGED vars
  BY <1>6 DEF Tick, BeginPass, Report, Goto, history, vars, ChildInv, TypeInv, TypeOK
<1>7. QED
  BY <1>1, <1>2, <1>3, <1>4, <1>5, <1>6 DEF Next

-----------------------------------------------------------------------------
(* A rewriting that no other one overlaps.                                 *)

(* Loaded from a file that has the leases that are owed, the edited copy keeps
   them. *)
LEMMA EditedKeeps ==
  ASSUME TypeInv, ChildInv, LeaseKept, NEW w \in Writer, file # Torn,
         job[w].op # "active", at[w] # "signal"
  PROVE  /\ job[w].op = "upsert" => job[w].id \in Edited(w)
         /\ \A r \in Run : Owed(r) =>
              r \in Edited(w) \/ (job[w].op = "upsert" /\ Overlap(r, job[w].id))
<1>0. job[w].op \in {"upsert", "remove"}
  BY JobFacts DEF TypeInv, TypeOK
<1>1. CASE job[w].op = "upsert"
  <2>1. Edited(w) = {r \in file : ~Overlap(r, job[w].id)} \cup {job[w].id}
    BY <1>1 DEF Edited
  <2>2. QED
    BY <1>1, <2>1 DEF LeaseKept, Owed
<1>2. CASE job[w].op = "remove"
  <2>1. Edited(w) = file \ {job[w].id}
    BY <1>2 DEF Edited
  <2>2. \A r \in Run : Owed(r) => r # job[w].id
    BY <1>2 DEF ChildInv, Owed
  <2>3. QED
    BY <1>2, <2>1, <2>2 DEF LeaseKept, Owed
<1>3. QED
  BY <1>0, <1>1, <1>2

(* The copy that has been saved serves as the file. *)
LEMMA SavedKept ==
  ASSUME TypeInv, NEW w \in Writer, Rewriting(w), Keeps(w), ~raced,
         Succeeded(w, view[w]), file' = view[w], hosts' = hosts
  PROVE  LeaseKept'
<1>0. view[w] # Torn
  BY FileAssumption DEF TypeInv, TypeOK
<1>1. CASE job[w].op = "upsert"
  <2>1. w \in Run
    BY <1>1, ListFacts, Actors DEF TypeInv, JobInv, Writer
  <2>2. job[w].id = w /\ w \in view[w]
    <3>1. at[w] = "load" \/ Rewriting(w) => job[w].id = w
      BY <2>1 DEF TypeInv, JobInv
    <3>2. QED
      BY <1>1, <3>1 DEF Keeps
  <2>3. owed' = {r \in owed : ~Overlap(r, w)} \cup {w} /\ child' = child
    BY <1>1 DEF Succeeded
  <2>4. \A r \in owed : ~Overlap(r, w) /\ child[r] = "alive" => r \in view[w]
    BY <1>1, <2>2 DEF Keeps, Owed, TypeInv, TypeOK
  <2>5. \A r \in owed' : child[r] = "alive" => r \in view[w]
    BY <2>2, <2>3, <2>4
  <2>6. QED
    BY <1>0, <2>3, <2>5 DEF LeaseKept
<1>2. CASE job[w].op # "upsert"
  <2>1. owed' = owed /\ child' = child
    BY <1>2 DEF Succeeded
  <2>2. QED
    BY <1>0, <1>2, <2>1 DEF Keeps, Owed, LeaseKept, TypeInv, TypeOK
<1>3. QED
  BY <1>1, <1>2

(* What CopyInv says of one writer. *)
CopyOf(w) ==
  /\ at[w] = "check" => view[w] = file
  /\ at[w] \in {"open", "write", "rename"} => Keeps(w)
  /\ at[w] = "write" => fd[w] = "tmp" /\ tmp = {}
  /\ at[w] = "rename" => tmp = view[w]

LEMMA IdleCopy == ASSUME NEW w \in Writer, ~Rewriting(w) PROVE CopyOf(w)
  BY DEF Rewriting, CopyOf

LEMMA LoadKeeps ==
  ASSUME IInv, NEW w \in Writer, Load(w), ~raced'
  PROVE  CopyOf(w)' /\ LeaseKept'
<1> USE DEF IInv, KeptInv
<1>0. UNCHANGED <<file, hosts>>
  BY DEF Load, disk
<1>1. CASE Failed(w) /\ file = Torn
  <2>1. ~Rewriting(w)' /\ owed' = owed
    BY <1>1 DEF Failed, Ends, Goto, Rewriting, TypeInv, TypeOK
  <2>2. \A r \in Run : child'[r] = "alive" => child[r] = "alive"
    BY <1>1 DEF Failed, TypeInv, TypeOK
  <2>3. CopyOf(w)'
    BY <2>1 DEF Rewriting, CopyOf
  <2>4. LeaseKept'
    BY <1>0, <2>1, <2>2 DEF LeaseKept, TypeInv, TypeOK
  <2>5. QED
    BY <2>3, <2>4
<1>2. CASE /\ file # Torn
           /\ view' = [view EXCEPT ![w] = Edited(w)]
           /\ Goto(w, IF job[w].op = "active" THEN "check" ELSE "open")
           /\ raced' = (raced \/ ~Alone(w))
           /\ owed' = IF Alone(w) THEN owed ELSE {}
           /\ UNCHANGED <<child, job, daemon>>
  <2>1. view'[w] = Edited(w) /\ owed' = owed
    BY <1>2 DEF TypeInv, TypeOK
  <2>2. LeaseKept'
    BY <1>0, <1>2, <2>1 DEF LeaseKept
  <2>3. CASE job[w].op = "active"
    <3>1. at'[w] = "check" /\ Edited(w) = file
      BY <1>2, <2>3 DEF Goto, Edited, TypeInv, TypeOK
    <3>2. QED
      BY <1>0, <2>1, <2>2, <3>1 DEF CopyOf
  <2>4. CASE job[w].op # "active"
    <3>1. at'[w] = "open"
      BY <1>2, <2>4 DEF Goto, TypeInv, TypeOK
    <3>2. at[w] # "signal"
      BY DEF Load
    <3>3. Keeps(w)'
      BY <1>0, <1>2, <2>1, <2>4, <3>2, EditedKeeps DEF Keeps, Owed, Overlap
    <3>4. QED
      BY <2>2, <3>1, <3>3 DEF CopyOf
  <2>5. QED
    BY <2>3, <2>4
<1>3. QED
  BY <1>1, <1>2 DEF Load

LEMMA CheckKeeps ==
  ASSUME IInv, NEW w \in Writer, Check(w), ~raced, ~raced'
  PROVE  CopyOf(w)' /\ LeaseKept'
<1> USE DEF IInv, KeptInv
<1>0. UNCHANGED <<file, hosts>> /\ at[w] = "check" /\ view[w] = file
  BY DEF Check, disk, CopyInv
<1>1. job[w].op # "upsert"
  BY <1>0, ListFacts, Actors DEF Writer, TypeInv, JobInv, Rewriting
<1>2. CASE Succeeded(w, view[w])
  <2>1. ~Rewriting(w)' /\ owed' = owed /\ child' = child
    BY <1>1, <1>2 DEF Succeeded, Ends, Goto, Rewriting, TypeInv, TypeOK
  <2>2. CopyOf(w)'
    BY <2>1 DEF Rewriting, CopyOf
  <2>3. QED
    BY <1>0, <2>1, <2>2 DEF LeaseKept
<1>3. CASE /\ view' = [view EXCEPT ![w] = Live(view[w])]
           /\ Goto(w, "open")
           /\ UNCHANGED <<child, job, daemon, history>>
  <2>1. view'[w] = Live(file) /\ at'[w] = "open" /\ owed' = owed
    BY <1>0, <1>3 DEF Goto, history, TypeInv, TypeOK
  <2>2. LeaseKept'
    BY <1>0, <1>3, <2>1 DEF LeaseKept
  <2>3. Keeps(w)'
    BY <1>1, <1>3, <2>1 DEF Keeps, Owed, Live, Running, LeaseKept
  <2>4. QED
    BY <2>1, <2>2, <2>3 DEF CopyOf
<1>4. QED
  BY <1>2, <1>3 DEF Check

LEMMA WriteKeeps ==
  ASSUME IInv, NEW w \in Writer, Open(w) \/ Write(w), ~raced
  PROVE  CopyOf(w)' /\ LeaseKept'
<1> USE DEF IInv, KeptInv
<1>0. UNCHANGED <<hosts, child, job, view, history>>
  BY DEF Open, Write
<1>1. Keeps(w)'
  <2>1. Keeps(w)
    BY DEF Open, Write, CopyInv
  <2>2. QED
    BY <1>0, <2>1 DEF Keeps, Owed, Overlap, history
<1>2. CASE Open(w)
  <2>1. at'[w] = "write" /\ fd'[w] = "tmp" /\ tmp' = {} /\ UNCHANGED <<file, owed>>
    BY <1>2 DEF Open, Goto, history, TypeInv, TypeOK
  <2>2. QED
    BY <1>0, <1>1, <2>1 DEF CopyOf, LeaseKept
<1>3. CASE Write(w)
  <2>1. fd[w] = "tmp" /\ tmp = {}
    BY <1>3 DEF Write, CopyInv
  <2>2. tmp' = view[w] /\ file' = file /\ at'[w] = "rename" /\ owed' = owed
    BY <1>3, <2>1 DEF Write, Over, Goto, history, TypeInv, TypeOK
  <2>3. QED
    BY <1>0, <1>1, <2>2 DEF CopyOf, LeaseKept
<1>4. QED
  BY <1>2, <1>3

LEMMA RenameKeeps ==
  ASSUME IInv, NEW w \in Writer, Rename(w), ~raced
  PROVE  CopyOf(w)' /\ LeaseKept'
<1> USE DEF IInv, KeptInv
<1>0. hosts' = hosts /\ Keeps(w) /\ tmp = view[w]
  BY DEF Rename, CopyInv
<1>1. tmp # None
  BY <1>0, FileAssumption DEF TypeInv, TypeOK
<1>2. Succeeded(w, view[w]) /\ file' = tmp
  BY <1>1 DEF Rename
<1>3. ~Rewriting(w)'
  BY <1>2 DEF Succeeded, Ends, Goto, Rewriting, TypeInv, TypeOK
<1>4. CopyOf(w)'
  BY <1>3 DEF Rewriting, CopyOf
<1>5. LeaseKept'
  <2>1. Rewriting(w)
    BY DEF Rename, Rewriting
  <2>2. QED
    BY <1>0, <1>2, <2>1, SavedKept
<1>6. QED
  BY <1>4, <1>5

(* A load that fails leaves to a rewriting under way what it has. *)
LEMMA LoadFails ==
  ASSUME IInv, NEW w \in Writer, Load(w), Failed(w), ~raced, NEW q \in Writer \ {w}
  PROVE  CopyOf(q)'
<1> USE DEF IInv, KeptInv
<1>1. UNCHANGED <<hosts, file, tmp, fd, owed>>
  BY DEF Load, Failed, disk
<1>2. at'[q] = at[q] /\ view'[q] = view[q] /\ job'[q] = job[q]
  BY RewriteSteps DEF Rewrite
<1>3. \A r \in Run : Owed(r)' => Owed(r)
  BY <1>1, ChildSteps DEF Rewrite, Owed
<1>4. CopyOf(q)
  BY DEF CopyInv, CopyOf
<1>5. QED
  BY <1>1, <1>2, <1>3, <1>4 DEF CopyOf, Keeps, Overlap

LEMMA RewriteKeeps ==
  ASSUME IInv, NEW w \in Writer, Rewrite(w), RaceInv'
  PROVE  CopyInv' /\ LeaseKept'
<1> USE DEF IInv, KeptInv
<1>1. CASE raced'
  BY <1>1 DEF RaceInv, CopyInv, LeaseKept
<1>2. CASE ~raced'
  <2>1. ASSUME NEW q \in Writer \ {w}, Rewriting(q)
        PROVE  Load(w) /\ Failed(w) /\ ~raced
    <3>1. ~Alone(w)
      BY <2>1 DEF Alone
    <3>2. ~raced
      BY <1>1, <1>2, <3>1, RewriteSteps
    <3>3. ~Rewriting(w)
      BY <2>1, <3>2 DEF RaceInv
    <3>4. Load(w)
      BY <3>3 DEF Rewrite, Check, Open, Write, Rename, Rewriting
    <3>5. QED
      BY <1>2, <3>1, <3>2, <3>4 DEF Load
  <2>2. ASSUME NEW q \in Writer \ {w}
        PROVE  CopyOf(q)'
    <3>1. CASE Rewriting(q)
      BY <2>1, <3>1, LoadFails
    <3>2. CASE ~Rewriting(q)
      <4>1. at'[q] = at[q]
        BY RewriteSteps
      <4>2. QED
        BY <3>2, <4>1 DEF Rewriting, CopyOf
    <3>3. QED
      BY <3>1, <3>2
  <2>3. CopyOf(w)' /\ LeaseKept'
    <3>1. CASE Load(w)
      BY <1>2, <3>1, LoadKeeps
    <3>2. CASE ~Load(w) /\ ~raced
      BY <1>2, <3>2, CheckKeeps, WriteKeeps, RenameKeeps DEF Rewrite
    <3>3. CASE ~Load(w) /\ raced
      <4>1. ~Rewriting(w)'
        BY <1>2, <3>3, RewriteSteps
      <4>2. owed' = {}
        BY <3>3, OwedSteps DEF RaceInv
      <4>3. QED
        BY <4>1, <4>2 DEF Rewriting, CopyOf, LeaseKept
    <3>4. QED
      BY <3>1, <3>2, <3>3
  <2>4. QED
    BY <2>2, <2>3 DEF CopyInv, CopyOf
<1>3. QED
  BY <1>1, <1>2

LEMMA OtherKeeps ==
  ASSUME IInv, RunStep \/ OutsideStep \/ UNCHANGED vars
  PROVE  CopyInv' /\ LeaseKept'
<1> USE DEF IInv, KeptInv
<1>0. UNCHANGED <<hosts, file, tmp, owed>>
  BY OtherSteps
<1>1. \A r \in Run : Owed(r)' => Owed(r)
  <2>1. \A r \in Run : child'[r] = "alive" => child[r] = "alive" \/ at[r] = "idle"
    BY DEF RunStep, OutsideStep, Start, Announce, Return, ChildEnds, Crash, Tick, BeginPass,
           Report, Kill, SignalChild, vars, TypeInv, TypeOK
  <2>2. QED
    BY <1>0, <2>1 DEF Owed, ChildInv
<1>2. LeaseKept'
  BY <1>0, <1>1 DEF Owed, LeaseKept, TypeInv, TypeOK
<1>3. CopyInv'
  <2>1. SUFFICES ASSUME ~raced', NEW w \in Writer PROVE CopyOf(w)'
    BY DEF CopyInv, CopyOf
  <2>2. CASE ~Rewriting(w)'
    BY <2>2 DEF Rewriting, CopyOf
  <2>3. CASE Rewriting(w)'
    <3>1. /\ at'[w] = at[w] /\ job'[w] = job[w] /\ view'[w] = view[w] /\ fd'[w] = fd[w]
          /\ ~raced
      BY <2>1, <2>3, OtherSteps
    <3>2. CopyOf(w)
      BY <3>1 DEF CopyInv, CopyOf
    <3>3. QED
      BY <1>0, <1>1, <3>1, <3>2 DEF CopyOf, Keeps, Overlap
  <2>4. QED
    BY <2>2, <2>3
<1>4. QED
  BY <1>2, <1>3

LEMMA KeptInvariance == Spec => []IInv
<1>1. Init => IInv
  <2>1. Init => RaceInv /\ StartedInv /\ ChildInv /\ CopyInv /\ LeaseKept
    BY Actors, ListFacts, ActorAssumption DEF Init, List, RaceInv, StartedInv, ChildInv,
                                              CopyInv, LeaseKept, Rewriting
  <2>2. QED
    BY <2>1, InitType DEF IInv, KeptInv
<1>2. IInv /\ [Next]_vars => IInv'
  <2> SUFFICES ASSUME IInv, [Next]_vars PROVE IInv'
    OBVIOUS
  <2>1. TypeInv'
    BY LoadType, CheckType, OpenType, WriteType, RenameType, RunType, OtherType,
       StutterType DEF Next, Rewrite, IInv
  <2>2. RaceInv' /\ StartedInv' /\ ChildInv'
    BY RaceStep, StartedStep, ChildStep DEF IInv, KeptInv
  <2>3. CopyInv' /\ LeaseKept'
    BY <2>2, RewriteKeeps, OtherKeeps DEF Next, RunStep, OutsideStep
  <2>4. QED
    BY <2>1, <2>2, <2>3 DEF IInv, KeptInv
<1>3. QED
  BY <1>1, <1>2, PTL DEF Spec

(* The lease of a run whose child lives stays in the file from a rewriting that no
   other one overlaps until two overlap or another run claims its names, whatever
   other commands, passes and crashes there are. *)
THEOREM OwedLeaseKept == Spec => []LeaseKept
<1>1. IInv => LeaseKept
  BY DEF IInv, KeptInv
<1>2. QED
  BY <1>1, KeptInvariance, PTL

(* A pass that no other rewriting overlaps leaves in the file the leases it serves
   and no others. *)
THEOREM PassLeavesRouted == Spec => PassAgrees
<1>1. IInv /\ [Next]_vars =>
        (at[Daemon] \in {"check", "rename"} /\ at'[Daemon] = "idle" /\ ok' /\ ~raced
           => file' = routed')
  <2> SUFFICES ASSUME IInv, [Next]_vars,
                      at[Daemon] \in {"check", "rename"}, at'[Daemon] = "idle", ok', ~raced
               PROVE  file' = routed'
    OBVIOUS
  <2> USE Actors DEF IInv, KeptInv
  <2>1. Check(Daemon) \/ Rename(Daemon)
    <3>1. \A w \in Writer : Rewrite(w) => w = Daemon
      BY RewriteSteps
    <3>2. ~(RunStep \/ OutsideStep \/ UNCHANGED vars)
      <4>1. ~RunStep
        BY DEF RunStep, Start, Announce, Return, ChildEnds, Crash, Goto, TypeInv, TypeOK
      <4>2. ~(Tick \/ BeginPass \/ UNCHANGED vars)
        BY DEF Tick, BeginPass, Goto, vars, TypeInv, TypeOK
      <4>3. ~(\E t \in Tool : Report(t) \/ Kill(t) \/ SignalChild(t))
        BY DEF Report, Kill, SignalChild, Goto, TypeInv, TypeOK
      <4> QED
        BY <4>1, <4>2, <4>3 DEF OutsideStep
    <3>3. Rewrite(Daemon)
      BY <3>1, <3>2 DEF Next, RunStep, OutsideStep
    <3>4. QED
      BY <3>3 DEF Rewrite, Load, Open, Write
  <2>2. ~Failed(Daemon)
    BY DEF Failed
  <2>3. CASE Check(Daemon)
    <3>1. Succeeded(Daemon, view[Daemon]) /\ file' = file /\ view[Daemon] = file
      BY <2>3 DEF Check, disk, Goto, CopyInv, TypeInv, TypeOK
    <3>2. QED
      BY <3>1 DEF Succeeded
  <2>4. CASE Rename(Daemon)
    <3>1. Succeeded(Daemon, view[Daemon]) /\ file' = tmp /\ tmp = view[Daemon]
      BY <2>2, <2>4 DEF Rename, CopyInv
    <3>2. QED
      BY <3>1 DEF Succeeded
  <2>5. QED
    BY <2>1, <2>3, <2>4
<1>2. QED
  BY <1>1, KeptInvariance, PTL DEF Spec, PassAgrees

=============================================================================
