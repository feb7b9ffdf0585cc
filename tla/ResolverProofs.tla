--------------------------- MODULE ResolverProofs ---------------------------
(***************************************************************************)
(* Safety of the resolver files for any number of domains, addresses and   *)
(* changes.  LastingInv follows a lasting domain through the places its    *)
(* name passes: the world, the sync file, the helper's reading, the file.  *)
(***************************************************************************)
EXTENDS ResolverSync, TLAPS

(* A kept domain is still needed and in the sync file; a lasting one is also
   in what the helper is about to apply, and has its resolver file. *)
LastingInv ==
  /\ lasting \subseteq kept
  /\ kept \subseteq sync.domains \cap Needed(world)
  /\ seen # None => lasting \subseteq seen.domains
  /\ LastingResolved

-----------------------------------------------------------------------------
LEMMA EnsureType ==
  ASSUME file \in [Domain -> Listen \cup {None, Foreign}], NEW D, NEW l \in Listen, NEW root
  PROVE  /\ Ensure(D, l, root) \in [Domain -> Listen \cup {None, Foreign}]
         /\ Reconciled(D, l, root) \in [Domain -> Listen \cup {None, Foreign}]
  BY DEF Ensure, Reconciled

(* Ensuring some domains never takes away the resolver file of another one. *)
LEMMA EnsureKeeps ==
  ASSUME NEW D, NEW l \in Listen, NEW root, NEW d \in Domain, Ours(d)
  PROVE  /\ Ensure(D, l, root)[d] \in Listen
         /\ d \in D => Reconciled(D, l, root)[d] \in Listen
  BY DEF Ensure, Reconciled, Ours

LEMMA NeededType ==
  ASSUME NEW w \in World
  PROVE  /\ Needed(w) \subseteq Domain
         /\ \A d \in Domain : ManagedDomains(w, d) \subseteq Domain
         /\ \A d \in Domain : Needed(w) \subseteq ManagedDomains(w, d)
  BY DEF World, Needed, ManagedDomains

(* The sync file keeps its type, and holds the new domains or what it held. *)
LEMMA SyncType ==
  ASSUME TypeOK, NEW new \in SyncState, SyncResolverState(new)
  PROVE  /\ sync' \in SyncState /\ sig' \in SyncState \cup {None}
         /\ changes' \in 0 .. MaxChanges
         /\ sync' = sync \/ sync' = new
  BY BoundAssumption DEF TypeOK, SyncResolverState, Written, NotWritten

LEMMA InitType == Init => TypeOK
<1> SUFFICES ASSUME Init PROVE TypeOK
  OBVIOUS
<1>1. world \in World
  BY DEF Init, World
<1>2. Needed(world) \subseteq Domain
  BY <1>1, NeededType
<1>3. world.base \in Domain /\ world.listen \in Listen
  BY <1>1 DEF World
<1>4. sync \in SyncState
  BY <1>2, <1>3 DEF Init, SyncState
<1>5. QED
  BY <1>1, <1>2, <1>3, <1>4, BoundAssumption DEF Init, TypeOK, MaxStrikes

(* What happens outside: configs, workloads, docker and resolver files. *)
LEMMA WorldType ==
  ASSUME TypeOK, WorldStep
  PROVE  TypeOK'
<1> USE BoundAssumption
<1>1. /\ world \in World
      /\ file \in [Domain -> Listen \cup {None, Foreign}]
      /\ world.listen \in Listen
  BY DEF TypeOK, World
<1>2. ASSUME NEW kind, NEW w \in World, WorldChanges(kind, w) PROVE TypeOK'
  BY <1>2 DEF TypeOK, WorldChanges, Change, daemonVars
<1>3. CASE BaseChanges
  <2>1. PICK d \in Domain : WorldChanges("base", [world EXCEPT !.base = d])
    BY <1>3 DEF BaseChanges
  <2>2. [world EXCEPT !.base = d] \in World
    BY <1>1 DEF World
  <2>3. QED
    BY <1>2, <2>1, <2>2
<1>4. CASE UsedChanges
  <2>1. PICK D \in SUBSET Domain : WorldChanges("used", [world EXCEPT !.used = D])
    BY <1>4 DEF UsedChanges
  <2>2. [world EXCEPT !.used = D] \in World
    BY <1>1 DEF World
  <2>3. QED
    BY <1>2, <2>1, <2>2
<1>5. CASE ListenChanges
  <2>1. PICK l \in Listen : WorldChanges("listen", [world EXCEPT !.listen = l])
    BY <1>5 DEF ListenChanges
  <2>2. [world EXCEPT !.listen = l] \in World
    BY <1>1 DEF World
  <2>3. QED
    BY <1>2, <2>1, <2>2
<1>6. CASE DockerChanges
  <2>1. [world EXCEPT !.docker = ~@] \in World
    BY <1>1 DEF World
  <2>2. QED
    BY <1>2, <1>6, <2>1 DEF DockerChanges
<1>7. CASE ConfigChanges
  <2>1. [world EXCEPT !.readable = ~@] \in World
    BY <1>1 DEF World
  <2>2. QED
    BY <1>2, <1>7, <2>1 DEF ConfigChanges
<1>8. ASSUME NEW d \in Domain, FileDrifts(d) PROVE TypeOK'
  <2>1. PICK c \in Listen \cup {None, Foreign} : file' = [file EXCEPT ![d] = c]
    BY <1>8 DEF FileDrifts
  <2>2. file' \in [Domain -> Listen \cup {None, Foreign}]
    BY <1>1, <2>1
  <2>3. QED
    BY <1>8, <2>2 DEF TypeOK, FileDrifts, Change, daemonVars
<1>9. ASSUME NEW d \in Domain, NEW root \in BOOLEAN, BootPersist(d, root) PROVE TypeOK'
  <2>1. /\ sync' \in SyncState
        /\ boot' \in [domain : Domain, listen : Listen, root : BOOLEAN]
    BY <1>1, <1>9 DEF BootPersist, SyncState
  <2>2. QED
    BY <1>9, <2>1 DEF TypeOK, BootPersist, Change, daemonVars
<1>10. QED
  BY <1>3, <1>4, <1>5, <1>6, <1>7, <1>8, <1>9 DEF WorldStep

LEMMA PassType ==
  ASSUME TypeOK, Pass \/ Unblock \/ \E cause \in {"timer", "other"} : Begin(cause)
  PROVE  TypeOK'
<1> USE DEF TypeOK
<1>1. ASSUME NEW cause \in {"timer", "other"}, Begin(cause) PROVE TypeOK'
  BY <1>1 DEF Begin, World
<1>2. CASE Heal
  <2>1. file' \in [Domain -> Listen \cup {None, Foreign}]
    BY <1>2, EnsureType DEF Heal
  <2>2. strikes' \in 0 .. MaxStrikes
    BY <1>2 DEF Heal, MaxStrikes
  <2>3. QED
    BY <1>2, <2>1, <2>2 DEF Heal
<1>3. CASE BuildFails
  BY <1>3 DEF BuildFails
<1>4. CASE Build
  <2> DEFINE D == ManagedDomains(world, cfg.base)
             new == [domains |-> D, listen |-> cfg.listen]
  <2>1. D \subseteq Domain
    BY NeededType
  <2>2. new \in SyncState
    BY <2>1 DEF SyncState
  <2>3. SyncResolverState(new)
    BY <1>4 DEF Build
  <2>4. /\ sync' \in SyncState /\ sig' \in SyncState \cup {None}
        /\ changes' \in 0 .. MaxChanges
    BY <2>2, <2>3, SyncType
  <2>5. cfg' \in [base : Domain, domains : SUBSET Domain, listen : Listen]
    BY <1>4, <2>1 DEF Build
  <2>6. kept' \subseteq Domain
    BY <1>4, <2>4 DEF Build, SyncState
  <2>7. QED
    BY <1>4, <2>4, <2>5, <2>6 DEF Build
<1>5. CASE Unblock
  BY <1>5 DEF Unblock, MaxStrikes
<1>6. QED
  BY <1>1, <1>2, <1>3, <1>4, <1>5 DEF Pass

LEMMA RestartType ==
  ASSUME TypeOK, Restart
  PROVE  TypeOK'
<1> DEFINE new == [domains |-> Needed(world), listen |-> world.listen]
<1>1. new \in SyncState /\ world.base \in Domain /\ world.listen \in Listen
  BY NeededType DEF TypeOK, SyncState, World
<1>2. sync' \in SyncState /\ sig' \in SyncState \cup {None}
  BY <1>1 DEF Restart, TypeOK
<1>3. cfg' \in [base : Domain, domains : SUBSET Domain, listen : Listen]
  BY <1>1 DEF Restart, SyncState
<1>4. kept' \subseteq Domain
  BY <1>2 DEF Restart, TypeOK, SyncState
<1>5. QED
  BY <1>1, <1>2, <1>3, <1>4, BoundAssumption DEF Restart, TypeOK, MaxStrikes

LEMMA WriterType ==
  ASSUME TypeOK, HelperReads \/ HelperApplies \/ BootResolve
  PROVE  TypeOK'
<1> USE DEF TypeOK, daemonVars
<1>1. CASE HelperReads
  BY <1>1 DEF HelperReads
<1>2. CASE HelperApplies
  <2>1. seen \in SyncState
    BY <1>2 DEF HelperApplies
  <2>2. file' \in [Domain -> Listen \cup {None, Foreign}]
    BY <1>2, <2>1, EnsureType DEF HelperApplies, SyncState
  <2>3. lasting' \subseteq Domain
    BY <1>2, <2>1 DEF HelperApplies, SyncState
  <2>4. QED
    BY <1>2, <2>2, <2>3 DEF HelperApplies
<1>3. CASE BootResolve
  <2>1. boot \in [domain : Domain, listen : Listen, root : BOOLEAN]
    BY <1>3 DEF BootResolve
  <2>2. file' \in [Domain -> Listen \cup {None, Foreign}]
    BY <1>3, <2>1, EnsureType DEF BootResolve
  <2>3. QED
    BY <1>3, <2>2 DEF BootResolve
<1>4. QED
  BY <1>1, <1>2, <1>3

(* Every variable of the resolver model keeps its type. *)
THEOREM TypeCorrect == Spec => []TypeOK
<1>1. TypeOK /\ [Next]_vars => TypeOK'
  <2> SUFFICES ASSUME TypeOK, [Next]_vars PROVE TypeOK'
    OBVIOUS
  <2>1. CASE UNCHANGED vars
    BY <2>1 DEF TypeOK, vars
  <2>2. QED
    BY <2>1, WorldType, PassType, RestartType, WriterType DEF Next
<1>2. QED
  BY <1>1, InitType, PTL DEF Spec

-----------------------------------------------------------------------------
(* Lasting domains.                                                        *)

LEMMA InitLasting == Init => LastingInv
  BY DEF Init, LastingInv, LastingResolved

(* A pass that succeeds publishes every domain that is needed. *)
LEMMA BuildLasting ==
  ASSUME TypeOK, LastingInv, Build
  PROVE  LastingInv'
<1> DEFINE D == ManagedDomains(world, cfg.base)
           new == [domains |-> D, listen |-> cfg.listen]
<1>1. D \subseteq Domain /\ Needed(world) \subseteq D
  BY NeededType DEF TypeOK
<1>2. new \in SyncState
  BY <1>1 DEF SyncState, TypeOK
<1>3. SyncResolverState(new)
  BY DEF Build
<1>4. sync' = sync \/ sync' = new
  BY <1>2, <1>3, SyncType
<1>5. kept \subseteq sync'.domains
  BY <1>1, <1>4 DEF LastingInv
<1>6. kept' = kept \cup (sync'.domains \cap Needed(world))
      /\ UNCHANGED <<world, file, seen, boot, lasting>>
  BY DEF Build
<1>7. QED
  BY <1>5, <1>6 DEF LastingInv, LastingResolved, Ours

LEMMA RestartLasting ==
  ASSUME LastingInv, Restart
  PROVE  LastingInv'
<1>1. kept \subseteq sync'.domains
  BY DEF Restart, LastingInv
<1>2. kept' = kept \cup (sync'.domains \cap Needed(world))
      /\ UNCHANGED <<world, file, seen, boot, lasting>>
  BY DEF Restart
<1>3. QED
  BY <1>1, <1>2 DEF LastingInv, LastingResolved, Ours

(* The helper removes only what its reading of the sync file does not name. *)
LEMMA HelperLasting ==
  ASSUME TypeOK, LastingInv, HelperApplies
  PROVE  LastingInv'
<1>1. seen \in SyncState /\ lasting \subseteq seen.domains
  BY DEF TypeOK, LastingInv, HelperApplies
<1>2. \A d \in lasting : file'[d] \in Listen
  BY <1>1, EnsureKeeps DEF TypeOK, LastingInv, LastingResolved, HelperApplies, SyncState
<1>3. lasting' \subseteq kept /\ \A d \in lasting' : file'[d] \in Listen
  BY <1>2 DEF LastingInv, HelperApplies
<1>4. QED
  BY <1>3 DEF LastingInv, LastingResolved, Ours, HelperApplies

(* Bootstrap in a workspace of domain d replaces the sync file and removes
   the other files: the domains it keeps are kept in every place. *)
LEMMA BootLasting ==
  ASSUME TypeOK, LastingInv,
         BootResolve \/ \E d \in Domain, root \in BOOLEAN : BootPersist(d, root)
  PROVE  LastingInv'
<1>1. ASSUME NEW d \in Domain, NEW root \in BOOLEAN, BootPersist(d, root)
      PROVE  LastingInv'
  <2>1. sync'.domains = {d} /\ kept' = kept \cap {d} /\ lasting' = lasting \cap {d}
        /\ UNCHANGED <<world, file, seen>>
    BY <1>1 DEF BootPersist
  <2>2. QED
    BY <2>1 DEF LastingInv, LastingResolved, Ours
<1>2. CASE BootResolve
  <2>1. /\ boot.domain \in Domain /\ boot.listen \in Listen
        /\ file' = Reconciled({boot.domain}, boot.listen, boot.root)
        /\ lasting' = lasting \cap {boot.domain}
        /\ UNCHANGED <<world, sync, seen, kept>>
    BY <1>2 DEF BootResolve, TypeOK
  <2>2. \A d \in lasting' : file'[d] \in Listen
    BY <2>1, EnsureKeeps DEF LastingInv, LastingResolved
  <2>3. QED
    BY <2>1, <2>2 DEF LastingInv, LastingResolved, Ours
<1>3. QED
  BY <1>1, <1>2

LEMMA StepLasting ==
  ASSUME TypeOK, LastingInv, [Next]_vars
  PROVE  LastingInv'
<1>1. ASSUME NEW kind, NEW w, WorldChanges(kind, w) PROVE LastingInv'
  BY <1>1 DEF WorldChanges, LastingInv, LastingResolved, Ours
<1>2. ASSUME NEW d \in Domain, FileDrifts(d) PROVE LastingInv'
  BY <1>2 DEF FileDrifts, LastingInv, LastingResolved, Ours, TypeOK
<1>3. ASSUME NEW cause, Begin(cause) PROVE LastingInv'
  BY <1>3 DEF Begin, LastingInv, LastingResolved, Ours
<1>4. CASE Heal
  <2>1. \A d \in lasting : file'[d] \in Listen
    BY <1>4, EnsureKeeps DEF Heal, TypeOK, LastingInv, LastingResolved, Ours
  <2>2. QED
    BY <1>4, <2>1 DEF Heal, LastingInv, LastingResolved, Ours
<1>5. CASE BuildFails \/ Unblock
  BY <1>5 DEF BuildFails, Unblock, LastingInv, LastingResolved, Ours
<1>6. CASE HelperReads
  BY <1>6 DEF HelperReads, LastingInv, LastingResolved, Ours
<1>7. CASE UNCHANGED vars
  BY <1>7 DEF vars, LastingInv, LastingResolved, Ours
<1>8. QED
  BY <1>1, <1>2, <1>3, <1>4, <1>5, <1>6, <1>7,
     BuildLasting, RestartLasting, HelperLasting, BootLasting
  DEF Next, WorldStep, Pass, BaseChanges, UsedChanges, ListenChanges, DockerChanges, ConfigChanges

(* dnsvard never removes an installed resolver file of a domain that has
   workloads, unless bootstrap runs in another workspace: neither the pass that
   fails after config reload has shrunk Domains, nor a lost write, nor the
   helper's late reading of the sync file. *)
THEOREM LastingKept == Spec => []LastingResolved
<1>1. TypeOK /\ LastingInv /\ [Next]_vars => LastingInv'
  BY StepLasting
<1>2. LastingInv => LastingResolved
  BY DEF LastingInv
<1>3. QED
  BY <1>1, <1>2, InitLasting, TypeCorrect, PTL DEF Spec

=============================================================================
