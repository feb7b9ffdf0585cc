---------------------------- MODULE ResolverSync ----------------------------
(***************************************************************************)
(* How the operating system's resolver files come to send queries for the  *)
(* managed domains to the daemon: the daemon's reconcile pass, which keeps *)
(* the sync file and on Linux heals drift itself; the macOS root helper,   *)
(* which applies the sync file every 3 s; and the fast path of             *)
(* `dnsvard bootstrap`.                                                    *)
(* Source: cmd/dnsvard/cmd_daemon.go, resolver_state.go, loopback_sync.go, *)
(* cmd_bootstrap.go, internal/macos/resolver.go,                           *)
(* internal/linux/resolver_systemd.go.                                     *)
(***************************************************************************)
EXTENDS Naturals

CONSTANTS Domain,      \* DNS suffixes, numbered in the order their names sort
          Listen,      \* values of dns_listen
          Foreign,     \* a resolver file dnsvard did not write
          None,        \* nothing
          Platforms,   \* where the daemon runs, a subset of AllPlatforms
          Changes,     \* the kinds of change that happen
          MaxChanges   \* how many of them

AllChanges == {"base", "used", "listen", "docker", "config", "file",
               "write", "restart", "bootstrap"}

(* macOS with the root helper; Linux with a daemon that may write resolver
   files, or that runs as a normal user. *)
AllPlatforms == {"macos", "root", "user"}

ASSUME DomainAssumption == Domain \subseteq Nat
ASSUME ListenAssumption == None \notin Listen /\ Foreign \notin Listen \cup {None}
ASSUME SwitchAssumption == Platforms \subseteq AllPlatforms /\ Changes \subseteq AllChanges
ASSUME BoundAssumption == MaxChanges \in Nat

VARIABLES world,    \* the platform, the configs, workloads and docker, outside the daemon
          file,     \* file[d]: what the resolver file of d says
          sync,     \* resolver-sync-state.json
          bound,    \* the address the DNS server listens on
          cfg,      \* effectiveCfg: its domain, Domains and DNSListen
          sig,      \* lastResolverSyncSignature
          pc,       \* the next step of the reconcile goroutine
          strikes,  \* failed heal attempts
          seen,     \* the sync file as the helper read it, None while it waits
          boot,     \* the bootstrap under way, or None
          kept,     \* history: domains in the sync file and needed ever since
          lasting,  \* history: such domains the helper has installed
          changes   \* changes made so far

vars == <<world, file, sync, bound, cfg, sig, pc, strikes, seen, boot, kept,
          lasting, changes>>

MaxStrikes == 3   \* failures before a heal action is suppressed for 5 minutes

SyncState == [domains : SUBSET Domain, listen : Listen]
World == [platform : Platforms, base : Domain, used : SUBSET Domain, listen : Listen,
          docker : BOOLEAN, readable : BOOLEAN]

TypeOK ==
  /\ world \in World
  /\ file \in [Domain -> Listen \cup {None, Foreign}]
  /\ sync \in SyncState /\ bound \in Listen
  /\ cfg \in [base : Domain, domains : SUBSET Domain, listen : Listen]
  /\ sig \in SyncState \cup {None}
  /\ pc \in {"idle", "heal", "build"}
  /\ strikes \in 0 .. MaxStrikes
  /\ seen \in SyncState \cup {None}
  /\ boot \in [domain : Domain, listen : Listen, root : BOOLEAN] \cup {None}
  /\ kept \subseteq Domain /\ lasting \subseteq Domain
  /\ changes \in 0 .. MaxChanges

-----------------------------------------------------------------------------
Helper == world.platform = "macos"
Privileged == world.platform = "root"

(* Domains that have workloads: of other workspaces, and of the daemon's own. *)
Needed(w) == w.used \cup (IF w.readable THEN {w.base} ELSE {})

(* ManagedDomains of a build: the daemon's workspace is always among them, at
   base when its config cannot be read. *)
ManagedDomains(w, base) == w.used \cup {IF w.readable THEN w.base ELSE base}

Ours(d) == file[d] \in Listen

(* EnsureResolver on each domain of D in turn: a foreign file, or one that has
   to be written without permission, ends the loop. *)
Refused(D, l, root) == {d \in D : file[d] = Foreign \/ (file[d] # l /\ ~root)}
Ensured(D, l, root) == {d \in D : \A r \in Refused(D, l, root) : d < r}
Ensure(D, l, root) ==
  [d \in Domain |-> IF d \in Ensured(D, l, root) THEN l ELSE file[d]]

(* reconcileDesiredResolvers: once all are ensured, the managed files of other
   domains are removed. *)
Reconciled(D, l, root) ==
  IF Refused(D, l, root) # {} THEN Ensure(D, l, root)
  ELSE [d \in Domain |-> IF d \in D THEN l
                         ELSE IF Ours(d) /\ root THEN None ELSE file[d]]

(* syncResolverState: the file is written only when the signature changes, and
   a failed write is tried again by the next pass. *)
Written(new) == sync' = new /\ sig' = new /\ UNCHANGED changes
NotWritten(s) ==
  /\ "write" \in Changes /\ changes < MaxChanges
  /\ changes' = changes + 1
  /\ sig' = s
  /\ UNCHANGED sync

(* Mutation: the signature is remembered although the write failed. *)
SyncForgetful(new) ==
  IF new = sig THEN UNCHANGED <<sync, sig, changes>> ELSE Written(new) \/ NotWritten(new)

SyncResolverState(new) ==
  IF new = sig THEN UNCHANGED <<sync, sig, changes>> ELSE Written(new) \/ NotWritten(sig)

-----------------------------------------------------------------------------
(* The daemon has just started on a machine that was bootstrapped.           *)
Init ==
  /\ world \in [platform : Platforms, base : Domain, used : SUBSET Domain, listen : Listen,
                docker : {TRUE}, readable : {TRUE}]
  /\ bound = world.listen
  /\ cfg = [base |-> world.base, domains |-> Needed(world), listen |-> world.listen]
  /\ sync = [domains |-> Needed(world), listen |-> world.listen]
  /\ sig = sync
  /\ file = [d \in Domain |-> IF d = world.base THEN world.listen ELSE None]
  /\ pc = "idle"
  /\ strikes = 0
  /\ seen = None
  /\ boot = None
  /\ kept = Needed(world)
  /\ lasting = {}
  /\ changes = 0

daemonVars == <<bound, cfg, sig, pc, strikes>>

Change(kind) ==
  /\ kind \in Changes
  /\ changes < MaxChanges
  /\ changes' = changes + 1

(* The world becomes w. *)
WorldChanges(kind, w) ==
  /\ Change(kind)
  /\ world' = w
  /\ kept' = kept \cap Needed(w)
  /\ lasting' = lasting \cap Needed(w)
  /\ UNCHANGED <<daemonVars, file, sync, seen, boot>>

BaseChanges == \E d \in Domain \ {world.base} : WorldChanges("base", [world EXCEPT !.base = d])
UsedChanges == \E D \in (SUBSET Domain) \ {world.used} :
                  WorldChanges("used", [world EXCEPT !.used = D])
ListenChanges == \E l \in Listen \ {world.listen} :
                    WorldChanges("listen", [world EXCEPT !.listen = l])
DockerChanges == WorldChanges("docker", [world EXCEPT !.docker = ~@])
ConfigChanges == WorldChanges("config", [world EXCEPT !.readable = ~@])

(* The user or the system edits, adds or removes a resolver file. *)
FileDrifts(d) ==
  /\ Change("file")
  /\ \E c \in (Listen \cup {None, Foreign}) \ {file[d]} :
       file' = [file EXCEPT ![d] = c]
  /\ lasting' = lasting \ {d}
  /\ UNCHANGED <<daemonVars, world, sync, seen, boot, kept>>

-----------------------------------------------------------------------------
(* Mutation: a config that does not load takes effect as an empty one. *)
BeginEmpty(cause) ==
  /\ pc = "idle"
  /\ cfg' = [base |-> world.base, domains |-> {world.base},
             listen |-> IF world.readable THEN world.listen ELSE None]
  /\ pc' = IF cause = "timer" THEN "heal" ELSE "build"
  /\ UNCHANGED <<world, file, sync, bound, sig, strikes, seen, boot, kept, lasting, changes>>

(* The reconcile pass.  config.Load sets Domains to the config's own domain;
   they are the managed ones again once the build succeeds. *)
Begin(cause) ==
  /\ pc = "idle"
  /\ cfg' = IF world.readable
            THEN [base |-> world.base, domains |-> {world.base}, listen |-> world.listen]
            ELSE cfg
  /\ pc' = IF cause = "timer" THEN "heal" ELSE "build"
  /\ UNCHANGED <<world, file, sync, bound, sig, strikes, seen, boot, kept, lasting, changes>>

(* Mutation: drift is looked for and never repaired. *)
HealNothing ==
  /\ pc = "heal"
  /\ pc' = "build"
  /\ UNCHANGED <<world, file, sync, bound, cfg, sig, strikes, seen, boot, kept, lasting, changes>>

(* autoHealResolverDrift, not on macOS and not while it is suppressed. *)
Heal ==
  /\ pc = "heal"
  /\ pc' = "build"
  /\ IF Helper \/ strikes = MaxStrikes THEN UNCHANGED <<file, strikes>>
     ELSE /\ file' = Ensure(cfg.domains, cfg.listen, Privileged)
          /\ strikes' = IF Refused(cfg.domains, cfg.listen, Privileged) # {} THEN strikes + 1
                        ELSE IF file' # file THEN 0 ELSE strikes
  /\ UNCHANGED <<world, sync, bound, cfg, sig, seen, boot, kept, lasting, changes>>

(* BlockedUntil has passed. *)
Unblock ==
  /\ strikes = MaxStrikes
  /\ strikes' = 0
  /\ UNCHANGED <<world, file, sync, bound, cfg, sig, pc, seen, boot, kept, lasting, changes>>

BuildFails ==
  /\ pc = "build"
  /\ ~world.docker
  /\ pc' = "idle"
  /\ UNCHANGED <<world, file, sync, bound, cfg, sig, strikes, seen, boot, kept, lasting, changes>>

(* Mutation: the sync file is updated although discovery failed. *)
BuildOrShrink ==
  /\ pc = "build"
  /\ LET D == IF world.docker THEN ManagedDomains(world, cfg.base) ELSE cfg.domains
     IN  /\ cfg' = [cfg EXCEPT !.domains = D]
         /\ SyncResolverState([domains |-> D, listen |-> cfg.listen])
  /\ pc' = "idle"
  /\ kept' = kept \cup (sync'.domains \cap Needed(world))
  /\ UNCHANGED <<world, file, bound, strikes, seen, boot, lasting>>

Build ==
  /\ pc = "build"
  /\ world.docker
  /\ LET D == ManagedDomains(world, cfg.base)
     IN  /\ cfg' = [cfg EXCEPT !.domains = D]
         /\ SyncResolverState([domains |-> D, listen |-> cfg.listen])
  /\ pc' = "idle"
  /\ kept' = kept \cup (sync'.domains \cap Needed(world))
  /\ UNCHANGED <<world, file, bound, strikes, seen, boot, lasting>>

(* A new daemon process: it needs its config and a first build to start. *)
Restart ==
  /\ "restart" \in Changes /\ changes < MaxChanges
  /\ world.docker /\ world.readable
  /\ LET new == [domains |-> Needed(world), listen |-> world.listen]
     IN  /\ cfg' = [base |-> world.base, domains |-> new.domains, listen |-> new.listen]
         /\ \/ sync' = new /\ sig' = new
            \/ "write" \in Changes /\ sync' = sync /\ sig' = None
  /\ bound' = world.listen
  /\ pc' = "idle"
  /\ strikes' = 0
  /\ changes' = changes + 1
  /\ kept' = kept \cup (sync'.domains \cap Needed(world))
  /\ UNCHANGED <<world, file, seen, boot, lasting>>

-----------------------------------------------------------------------------
(* runLoopbackSync: the root helper reads the sync file and applies it.      *)

HelperReads ==
  /\ Helper /\ seen = None
  /\ seen' = sync
  /\ UNCHANGED <<daemonVars, world, file, sync, boot, kept, lasting, changes>>

HelperApplies ==
  /\ seen # None
  /\ file' = Reconciled(seen.domains, seen.listen, TRUE)
  /\ seen' = None
  /\ lasting' = lasting \cup {d \in seen.domains \cap kept : file'[d] \in Listen}
  /\ UNCHANGED <<daemonVars, world, sync, boot, kept, changes>>

(* The fast path of bootstrap in a workspace whose config says d: it replaces
   the sync file, reconciles the resolvers and sends SIGHUP, which at most
   starts a pass. *)
BootPersist(d, root) ==
  /\ boot = None
  /\ Change("bootstrap")
  /\ sync' = [domains |-> {d}, listen |-> world.listen]
  /\ boot' = [domain |-> d, listen |-> world.listen, root |-> root]
  /\ kept' = kept \cap {d} /\ lasting' = lasting \cap {d}
  /\ UNCHANGED <<daemonVars, world, file, seen>>

BootResolve ==
  /\ boot # None
  /\ file' = Reconciled({boot.domain}, boot.listen, boot.root)
  /\ boot' = None
  /\ lasting' = lasting \cap {boot.domain}
  /\ UNCHANGED <<daemonVars, world, sync, seen, kept, changes>>

-----------------------------------------------------------------------------

WorldStep ==
  \/ BaseChanges \/ UsedChanges \/ ListenChanges \/ DockerChanges \/ ConfigChanges
  \/ \E d \in Domain : FileDrifts(d)
  \/ \E d \in Domain, root \in BOOLEAN : BootPersist(d, root)

Pass == Heal \/ BuildFails \/ Build

Next ==
  \/ WorldStep
  \/ \E cause \in {"timer", "other"} : Begin(cause)
  \/ Pass \/ Unblock \/ Restart
  \/ HelperReads \/ HelperApplies
  \/ BootResolve

Spec == Init /\ [][Next]_vars

(* The ticker's tick waits in its channel while other triggers are served, and
   select takes a ready channel at random: timer passes never cease.  The
   helper and bootstrap run on; a suppressed action is allowed again. *)
FairSpec ==
  /\ Spec
  /\ SF_vars(Begin("timer")) /\ WF_vars(Pass) /\ WF_vars(Unblock)
  /\ WF_vars(HelperReads) /\ WF_vars(HelperApplies) /\ WF_vars(BootResolve)

-----------------------------------------------------------------------------
(* Properties                                                              *)

(* A domain that has workloads keeps its resolver file, once the helper has
   installed it: no failed pass, config error, restart or lost write, no stale
   reading of the sync file and no bootstrap in its own workspace makes dnsvard
   remove it.  (Bootstrap in another workspace does remove it.) *)
LastingResolved == \A d \in lasting : Ours(d)

(* Nothing outside stays broken, and no foreign file is in the way. *)
Calm == /\ world.docker /\ world.readable
        /\ \A d \in Domain : file[d] # Foreign

(* The daemon was restarted after the last change of dns_listen. *)
Rebound == bound = world.listen

(* With the root helper, where bootstrap is not run again, the resolver files
   end up exactly those of the domains that have workloads, pointing at the
   daemon. *)
Converges ==
  Helper /\ [](boot = None) /\ <>[](Calm /\ Rebound)
    => <>[](\A d \in Domain : IF d \in Needed(world) THEN file[d] = bound ELSE ~Ours(d))

(* On Linux, a daemon that may write resolver files (as root; one run by a user
   may not, and heals nothing) heals that of its own domain in the end, whatever
   bootstraps run. *)
BaseHealed ==
  ~Helper /\ <>[](Calm /\ Rebound) => <>[](file[world.base] = bound)

=============================================================================
