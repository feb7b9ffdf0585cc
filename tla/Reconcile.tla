------------------------------ MODULE Reconcile ------------------------------
(***************************************************************************)
(* The reconcile loop of a running daemon: the sources that trigger it,    *)
(* one pass over config reload, route discovery, the DNS table, the HTTP   *)
(* router and the TCP proxy, and the state file that `daemon status`       *)
(* reads.  Source: cmd/dnsvard/cmd_daemon.go, routes_build.go,             *)
(* internal/docker/provider.go, internal/tcpproxy/proxy.go.                *)
(*                                                                         *)
(* A host stands for a hostname of some workspace other than the daemon's  *)
(* own, whose records never change.  Every workload speaks HTTP; a         *)
(* container also has one TCP port, at the address of its host.  Beside    *)
(* them a service may run to which its host_pattern gives no name.         *)
(***************************************************************************)
EXTENDS Naturals, FiniteSets

CONSTANTS Host,        \* hostnames of containers and of `dnsvard run` leases
          Upstream,    \* container addresses
          Local,       \* the address of a leased process, localhost:port
          None,        \* no target
          Modes,       \* the docker_discovery_mode values configs use
          Capacity,    \* Capacity[s]: length of the trigger channel of s
          Changes,     \* the kinds of change the outside world makes
          MaxChanges   \* how many changes it makes

Target == Upstream \cup {Local}
Watched == {"docker", "config", "sighup"}            \* sources of notices
Source == Watched \cup {"timer", "proxy"}
AllChanges ==
  {"container", "lease", "nameless", "config", "docker", "watch", "port", "health"}

ASSUME TargetAssumption == None \notin Target /\ Local \notin Upstream
ASSUME ModesAssumption == Modes \subseteq {"required", "optional"} /\ Modes # {}
ASSUME CapacityAssumption == Capacity \in [Source -> Nat \ {0}]
ASSUME ChangesAssumption == Changes \subseteq AllChanges
ASSUME BoundAssumption == MaxChanges \in Nat

VARIABLES world,     \* containers, leases, files and ports outside the daemon
          watching,  \* the `docker events` stream is open
          news,      \* notices a watcher has yet to pass on
          chan,      \* chan[s]: triggers waiting in the channel of s
          pc,        \* the next step of the reconcile goroutine
          cfg,       \* effectiveCfg.DockerDiscoveryMode
          built,     \* the routes the last successful build returned
          refused,   \* history: the router took none of the last routes it got
          streak,    \* failureStreak, up to the value that makes it back off
          dns,       \* hosts in the DNS table
          http,      \* http[h]: target of h in the HTTP router
          tcp,       \* tcp[h]: upstream the TCP listener of h forwards to
          cache,     \* httpRouteHealthCache
          lasting,   \* history: hosts published and available ever since
          state,     \* the state file: last result, age in ticker intervals
          changes    \* changes made so far

vars == <<world, watching, news, chan, pc, cfg, built, refused, streak, dns, http,
          tcp, cache, lasting, state, changes>>
tables == <<dns, http, tcp>>
pass == <<cfg, built, refused, streak>>

BackoffStreak == 3   \* failures in a row before the goroutine sleeps
StaleAge == 3        \* the first multiple of 15 s above 2 * 15 s + 5 s

Routes == [http : [Host -> Target \cup {None}], tcp : [Host -> Upstream \cup {None}],
           nameless : BOOLEAN]
World == [containers : [Host -> Upstream \cup {None}], leases : SUBSET Host,
          nameless : BOOLEAN, file : Modes \cup {"bad"}, docker : BOOLEAN,
          busy : SUBSET Host, up : SUBSET Target]

TypeOK ==
  /\ world \in World /\ watching \in BOOLEAN /\ news \subseteq Watched
  /\ chan \in [Source -> Nat] /\ \A s \in Source : chan[s] <= Capacity[s]
  /\ pc \in {"idle", "reload", "build", "dns", "http", "tcp", "record", "sleep"}
  /\ cfg \in Modes /\ built \in Routes /\ refused \in BOOLEAN
  /\ streak \in 0 .. BackoffStreak
  /\ dns \subseteq Host
  /\ http \in [Host -> Target \cup {None}] /\ tcp \in [Host -> Upstream \cup {None}]
  /\ cache \in [Target -> {"unknown", "healthy", "unhealthy"}]
  /\ lasting \subseteq Host
  /\ state \in [result : {"success", "failure"}, age : 0 .. StaleAge]
  /\ changes \in 0 .. MaxChanges

-----------------------------------------------------------------------------
(* What buildRoutes returns                                                *)

(* Docker routes follow the leases, so they win in the router's map. *)
Workload(w, h) ==
  IF w.containers[h] # None THEN w.containers[h]
  ELSE IF h \in w.leases THEN Local ELSE None

(* Leases are read only after a successful discovery. *)
Discovered(w) == [http |-> [h \in Host |-> Workload(w, h)], tcp |-> w.containers,
                  nameless |-> w.nameless]
NoRoutes == [http |-> [h \in Host |-> None], tcp |-> [h \in Host |-> None],
             nameless |-> FALSE]

Hosts(r) == {h \in Host : r.http[h] # None}

-----------------------------------------------------------------------------
(* Startup: the first build must succeed, the router must take its routes before
   the watchers start, and TCP listeners that cannot be opened only warn. *)
Init ==
  /\ world \in [containers : [Host -> Upstream \cup {None}], leases : SUBSET Host,
                nameless : {FALSE}, file : Modes, docker : {TRUE}, busy : {{}}, up : {Target}]
  /\ watching = TRUE
  /\ news = {}
  /\ chan = [s \in Source |-> 0]
  /\ pc = "idle"
  /\ cfg = world.file
  /\ built = Discovered(world) /\ refused = FALSE
  /\ streak = 0
  /\ dns = Hosts(built) /\ http = built.http /\ tcp = built.tcp
  /\ cache = [t \in Target |-> "unknown"]
  /\ lasting = dns
  /\ state = [result |-> "success", age |-> 0]
  /\ changes = 0

-----------------------------------------------------------------------------
(* The outside world, and the watchers that notice it                      *)

(* The world becomes w. *)
Change(kind, w) ==
  /\ kind \in Changes
  /\ changes < MaxChanges
  /\ changes' = changes + 1
  /\ world' = w
  /\ lasting' = {h \in lasting : Workload(w, h) # None}
  /\ UNCHANGED <<pc, pass, tables, cache, state>>

(* Mutation: the channels have no bound. *)
TriggerUnbounded(s) == [chan EXCEPT ![s] = @ + 1]

(* Sending to a full channel drops the trigger. *)
Trigger(s) == [chan EXCEPT ![s] = IF @ < Capacity[s] THEN @ + 1 ELSE @]

(* A container starts, stops or gets another address; the event is lost when
   nobody reads `docker events`. *)
ContainerChanges(h) ==
  /\ \E u \in (Upstream \cup {None}) \ {world.containers[h]} :
       Change("container", [world EXCEPT !.containers[h] = u])
  /\ news' = IF watching THEN news \cup {"docker"} ELSE news
  /\ UNCHANGED <<watching, chan>>

(* `dnsvard run` adds its lease, or its process ends and Active drops it;
   SIGHUP follows, and is lost when one already waits. *)
LeaseChanges(h) ==
  /\ Change("lease", [world EXCEPT !.leases = IF h \in @ THEN @ \ {h} ELSE @ \cup {h}])
  /\ news' = news \cup {"sighup"}
  /\ UNCHANGED <<watching, chan>>

(* A service starts that has no host name, or the last such one stops. *)
NamelessChanges ==
  /\ Change("nameless", [world EXCEPT !.nameless = ~@])
  /\ news' = IF watching THEN news \cup {"docker"} ELSE news
  /\ UNCHANGED <<watching, chan>>

ConfigChanges ==
  /\ \E m \in (Modes \cup {"bad"}) \ {world.file} :
       Change("config", [world EXCEPT !.file = m])
  /\ news' = news \cup {"config"}
  /\ UNCHANGED <<watching, chan>>

DockerChanges ==
  /\ Change("docker", [world EXCEPT !.docker = ~@])
  /\ UNCHANGED <<watching, news, chan>>

(* Another process takes or leaves the TCP port of h. *)
PortChanges(h) ==
  /\ tcp[h] = None
  /\ Change("port", [world EXCEPT !.busy = IF h \in @ THEN @ \ {h} ELSE @ \cup {h}])
  /\ UNCHANGED <<watching, news, chan>>

HealthChanges(t) ==
  /\ Change("health", [world EXCEPT !.up = IF t \in @ THEN @ \ {t} ELSE @ \cup {t}])
  /\ UNCHANGED <<watching, news, chan>>

(* The event stream ends: Watch sends a trigger and starts it again later. *)
WatchEnds ==
  /\ watching
  /\ Change("watch", world)
  /\ watching' = FALSE
  /\ chan' = Trigger("docker")
  /\ UNCHANGED news

WatchStarts ==
  /\ ~watching
  /\ watching' = TRUE
  /\ UNCHANGED <<world, news, chan, pc, pass, tables, cache, lasting, state, changes>>

(* Mutation: a watcher drops what it reads while a pass is running. *)
NoticeWhenIdle(s) ==
  /\ s \in news
  /\ news' = news \ {s}
  /\ chan' = IF pc = "idle" THEN Trigger(s) ELSE chan
  /\ UNCHANGED <<world, watching, pc, pass, tables, cache, lasting, state, changes>>

Notice(s) ==
  /\ s \in news
  /\ news' = news \ {s}
  /\ chan' = Trigger(s)
  /\ UNCHANGED <<world, watching, pc, pass, tables, cache, lasting, state, changes>>

(* The ticker holds one tick for a slow receiver; the state file ages. *)
Tick ==
  /\ chan' = Trigger("timer")
  /\ state' = [state EXCEPT !.age = IF @ < StaleAge THEN @ + 1 ELSE @]
  /\ UNCHANGED <<world, watching, news, pc, pass, tables, cache, lasting, changes>>

(* A request was proxied to an unreachable target. *)
ProxyError(h) ==
  /\ http[h] \notin world.up \cup {None}
  /\ chan["proxy"] < Capacity["proxy"]
  /\ chan' = Trigger("proxy")
  /\ UNCHANGED <<world, watching, news, pc, pass, tables, cache, lasting, state, changes>>

(* A cached probe result is older than its lifetime, 45 s or 3 s. *)
ProbeExpires(t) ==
  /\ cache[t] # "unknown"
  /\ cache' = [cache EXCEPT ![t] = "unknown"]
  /\ UNCHANGED <<world, watching, news, chan, pc, pass, tables, lasting, state, changes>>

-----------------------------------------------------------------------------
(* The reconcile goroutine                                                 *)

outside == <<world, watching, news, changes>>

Take(s) ==
  /\ pc = "idle"
  /\ chan[s] > 0
  /\ chan' = [chan EXCEPT ![s] = @ - 1]
  /\ pc' = "reload"
  /\ UNCHANGED <<outside, pass, tables, cache, lasting, state>>

(* A config that does not load leaves the previous one in effect. *)
Reload ==
  /\ pc = "reload"
  /\ cfg' = IF world.file = "bad" THEN cfg ELSE world.file
  /\ pc' = "build"
  /\ UNCHANGED <<outside, chan, built, refused, streak, tables, cache, lasting, state>>

BuildFails ==
  /\ pc = "build"
  /\ ~world.docker /\ cfg = "required"
  /\ state' = [result |-> "failure", age |-> 0]
  /\ streak' = IF streak < BackoffStreak THEN streak + 1 ELSE streak
  /\ pc' = IF streak' = BackoffStreak THEN "sleep" ELSE "idle"
  /\ UNCHANGED <<outside, chan, cfg, built, refused, tables, cache, lasting>>

(* Mutation: a failed discovery returns no routes and no error. *)
BuildAnyway ==
  /\ pc = "build"
  /\ built' = IF world.docker THEN Discovered(world) ELSE NoRoutes
  /\ streak' = 0
  /\ pc' = "dns"
  /\ UNCHANGED <<outside, chan, cfg, refused, tables, cache, lasting, state>>

Build ==
  /\ pc = "build"
  /\ world.docker \/ cfg = "optional"
  /\ built' = IF world.docker THEN Discovered(world) ELSE NoRoutes
  /\ streak' = 0
  /\ pc' = "dns"
  /\ UNCHANGED <<outside, chan, cfg, refused, tables, cache, lasting, state>>

Wake ==
  /\ pc = "sleep"
  /\ pc' = "idle"
  /\ UNCHANGED <<outside, chan, pass, tables, cache, lasting, state>>

ApplyDNS ==
  /\ pc = "dns"
  /\ dns' = Hosts(built)
  /\ pc' = "http"
  /\ UNCHANGED <<outside, chan, pass, http, tcp, cache, lasting, state>>

(* isHTTPRouteHealthyCached *)
Healthy(t) == IF cache[t] = "unknown" THEN t \in world.up ELSE cache[t] = "healthy"

(* preserveLastHealthyHTTPRoutes: the hosts whose new target is not healthy
   and had another one; and those of them that keep it. *)
Doubtful == {h \in Hosts(built) : /\ ~Healthy(built.http[h])
                                  /\ http[h] \notin {None, built.http[h]}}
Kept == {h \in Doubtful : Healthy(http[h])}
Probed ==
  IF \A h \in Host : http[h] = None THEN {}
  ELSE {built.http[h] : h \in Hosts(built)} \cup {http[h] : h \in Doubtful}

AfterProbes == [t \in Target |-> IF t \notin Probed THEN cache[t]
                                 ELSE IF Healthy(t) THEN "healthy" ELSE "unhealthy"]

(* The router takes all of the routes. *)
Publish(target) ==
  /\ pc = "http" /\ ~built.nameless
  /\ http' = target
  /\ refused' = FALSE
  /\ lasting' = {h \in dns : Workload(world, h) # None}
  /\ pc' = "tcp"
  /\ UNCHANGED <<outside, chan, cfg, built, streak, dns, tcp, state>>

(* Mutations: the routes of hosts that went away stay in the router; targets
   are switched without probing them. *)

ApplyMergedHTTP ==
  /\ Publish([h \in Host |-> IF h \in Hosts(built) \ Kept THEN built.http[h] ELSE http[h]])
  /\ cache' = AfterProbes
ApplyUncheckedHTTP == Publish(built.http) /\ UNCHANGED cache

ApplyHTTP ==
  /\ Publish([h \in Host |-> IF h \in Kept THEN http[h] ELSE built.http[h]])
  /\ cache' = AfterProbes

(* One route without a host name makes SetRoutes refuse them all, and ends the
   pass: the DNS table has changed, the router and the TCP proxy have not. *)
RefuseHTTP ==
  /\ pc = "http" /\ built.nameless
  /\ refused' = TRUE
  /\ cache' = AfterProbes
  /\ pc' = "idle"
  /\ UNCHANGED <<outside, chan, cfg, built, streak, tables, lasting, state>>

(* tcpProxy.SetRoutes closes what is no longer wanted, then opens what is, in
   the order of a map. *)
ToOpenNew == {h \in Host : built.tcp[h] # None /\ tcp[h] = None}  \* mutation
ToOpen == {h \in Host : built.tcp[h] \notin {None, tcp[h]}}
Opened(S) ==
  [h \in Host |-> IF built.tcp[h] = None THEN None
                  ELSE IF h \in S THEN built.tcp[h] ELSE tcp[h]]

ApplyTCP ==
  /\ pc = "tcp"
  /\ ToOpen \cap world.busy = {}
  /\ tcp' = Opened(ToOpen)
  /\ pc' = "record"
  /\ UNCHANGED <<outside, chan, pass, dns, http, cache, lasting, state>>

(* Mutation: the pass goes on and records success. *)
TCPFailsQuietly ==
  /\ pc = "tcp"
  /\ ToOpen \cap world.busy # {}
  /\ \E S \in SUBSET (ToOpen \ world.busy) : tcp' = Opened(S)
  /\ pc' = "record"
  /\ UNCHANGED <<outside, chan, pass, dns, http, cache, lasting, state>>

(* The first port that is taken ends the update and the whole reconcile. *)
TCPFails ==
  /\ pc = "tcp"
  /\ ToOpen \cap world.busy # {}
  /\ \E S \in SUBSET (ToOpen \ world.busy) : tcp' = Opened(S)
  /\ pc' = "idle"
  /\ UNCHANGED <<outside, chan, pass, dns, http, cache, lasting, state>>

Record ==
  /\ pc = "record"
  /\ state' = [result |-> "success", age |-> 0]
  /\ pc' = "idle"
  /\ UNCHANGED <<outside, chan, pass, tables, cache, lasting>>

-----------------------------------------------------------------------------

ReconcileStep ==
  \/ \E s \in Source : Take(s)
  \/ Reload \/ BuildFails \/ Build \/ Wake
  \/ ApplyDNS \/ ApplyHTTP \/ RefuseHTTP \/ ApplyTCP \/ TCPFails \/ Record

WorldStep ==
  \/ \E h \in Host : ContainerChanges(h) \/ LeaseChanges(h) \/ PortChanges(h)
  \/ \E t \in Target : HealthChanges(t)
  \/ NamelessChanges \/ ConfigChanges \/ DockerChanges \/ WatchEnds

Next ==
  \/ ReconcileStep
  \/ WorldStep
  \/ WatchStarts
  \/ \E s \in Watched : Notice(s)
  \/ Tick
  \/ \E h \in Host : ProxyError(h)
  \/ \E t \in Target : ProbeExpires(t)

Spec == Init /\ [][Next]_vars

(* Goroutines are scheduled, watchers pass on what they read and the clock
   runs.  Nothing obliges the world to change or requests to fail; that the
   ticker ticks is an assumption of the properties that need it. *)
FairSpec ==
  /\ Spec
  /\ WF_vars(ReconcileStep) /\ WF_vars(WatchStarts)
  /\ \A s \in Watched : WF_vars(Notice(s))
  /\ \A t \in Target : WF_vars(ProbeExpires(t))

-----------------------------------------------------------------------------
(* Properties                                                              *)

(* A workload that stays available stays reachable: once a pass has published
   its host, no later pass, failure or change of anything else takes it out of
   the DNS table or the HTTP router.  Stated for docker_discovery_mode
   "required"; the order in which hosts change while a pass runs is arbitrary. *)
LastingServed == \A h \in lasting : h \in dns /\ http[h] # None

(* The same for hosts with a lease, in every mode: "optional" is documented to
   keep runtime routes when Docker discovery fails. *)
LeasesServed == \A h \in lasting \cap world.leases : h \in dns

(* Unless the router has refused the last routes it got, the DNS table and the
   HTTP router hold the same hosts, except between the two updates of one pass:
   whatever else fails, and again as soon as the router has taken routes. *)
RoutedResolves == pc # "http" /\ ~refused => dns = {h \in Host : http[h] # None}

(* A host is not moved off a target that answers to one that was not found
   answering, unless it moves because it has no other. *)
NeverWorse ==
  [][\A h \in Host :
       LET from == http[h]
           to   == http'[h]
       IN  /\ from \notin {None, to} /\ to # None
           /\ from \in world.up /\ cache[from] # "unhealthy"
           => to \in world.up \/ cache[to] = "healthy"]_vars

Fine == /\ world.docker /\ world.busy = {} /\ world.up = Target /\ watching
        /\ ~world.nameless

Current ==
  /\ dns = Hosts(Discovered(world))
  /\ http = Discovered(world).http
  /\ tcp = world.containers
  /\ world.file # "bad" => cfg = world.file
  /\ state.result = "success"

(* When nothing outside stays broken, the three tables end up as the world is
   and the state file says so: no change, trigger or failure is forgotten. *)
Converges == WF_vars(Tick) /\ <>[]Fine => <>[]Current

(* While nothing outside breaks, the notices of the watchers alone bring every
   change to the tables, whenever in a pass it comes: none is dropped with a
   full channel, and the 15 s ticker is not needed. *)
NoticesSuffice == []Fine => <>[]Current

(* What keeps a pass from succeeding. *)
Broken ==
  \/ ~world.docker /\ cfg = "required" /\ world.file # "optional"
  \/ world.docker /\ world.nameless
  \/ world.docker /\ \E h \in world.busy : world.containers[h] # None

(* A daemon that cannot complete a pass is seen to be degraded: the state file
   says "failure" or grows stale, also where a pass ends without writing it. *)
StuckIsReported ==
  WF_vars(Tick) /\ <>[]Broken => <>[](state.result = "failure" \/ state.age = StaleAge)

=============================================================================
