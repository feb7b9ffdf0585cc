------------------------------- MODULE Serving --------------------------------
(***************************************************************************)
(* The data plane of the daemon under its passes: containers that move     *)
(* between addresses, discovery by `docker ps` and `docker inspect`, the   *)
(* tables a pass replaces one by one, and what runs beside it: HTTP        *)
(* requests with the router's breaker, the quarantine of unreachable       *)
(* targets, DNS queries.  Source: cmd/dnsvard/cmd_daemon.go,               *)
(* internal/httprouter, internal/dnsserver, internal/docker; what a build  *)
(* computes is RouteBuild.  docker_discovery_mode is "required".           *)
(***************************************************************************)
EXTENDS RouteBuild, FiniteSets

CONSTANTS Ip,            \* container addresses
          Networks,      \* Networks[v]: the addresses service v may start with
          Configs,       \* Configs[s]: [domain, pattern] workspace s may configure
          First,         \* the configs at startup
          FirstStatus,   \* how addresses answer at startup
          Req,           \* clients at one time
          Asked,         \* host names clients ask for
          BreakAt,       \* failures that open the breaker of a host (5)
          QuarantineAt,  \* unreachable errors that quarantine a target (3)
          Changes,       \* the kinds of change the outside world makes
          MaxChanges     \* how many changes it makes

AllTargets == Ip \cup {Local}
Reachable == {"up", "sick"}               \* sick: accepts, and answers 5xx
Status == Reachable \cup {"refusing", "unreachable"}
AllChanges == {"container", "health", "config", "run"}

ASSUME LocalAssumption == Local \notin Ip
ASSUME NetworksAssumption ==
  \A v \in DOMAIN Services : Networks[v] \subseteq Seq(Ip) \ {<<>>}
ASSUME ConfigsAssumption ==
  /\ DOMAIN First = Scopes
  /\ \A s \in Scopes : First[s] \in Configs[s] /\ \A c \in Configs[s] : RoutingType(c)
ASSUME FirstAssumption == FirstStatus \in [Ip -> Status]
ASSUME AskedAssumption == <<>> \notin Asked
ASSUME LimitsAssumption == BreakAt \in Nat \ {0} /\ QuarantineAt \in Nat \ {0}
ASSUME ChangesAssumption == Changes \subseteq AllChanges /\ MaxChanges \in Nat

VARIABLES nets,      \* nets[v]: addresses of service v, none when it is gone
          status,    \* how an address that has a container answers
          conf,      \* conf[s]: config of workspace s, or Bad
          leases,    \* leases of `dnsvard run` processes
          pc,        \* the next step of the pass
          cfg,       \* effectiveCfg: domain and pattern
          listed,    \* services `docker ps` has named
          avoid,     \* targets quarantined when the pass began
          built,     \* what the build returned
          zones, dns, http,   \* the tables; the TCP proxy's are in Reconcile
          cache,     \* httpRouteHealthCache
          tracker,   \* per host and target: errors in its window, quarantine
          breaker,   \* per host: failures; it is cut off at BreakAt
          req,       \* per client: a DNS query or an HTTP request
          changes    \* changes made so far

world == <<nets, status, conf, leases, changes>>
pass == <<pc, cfg, listed, avoid, built>>
tables == <<zones, dns, http>>
vars == <<world, pass, tables, cache, tracker, breaker, req>>

-----------------------------------------------------------------------------
(* The world                                                               *)

Gone == <<>>
RunningServices == {v \in DOMAIN Services : nets[v] # Gone}
Owned == UNION {Range(nets[v]) : v \in DOMAIN Services}

(* An address without a container has no route; the leased process listens
   while its lease is there. *)
StatusOf(t) ==
  IF t = Local THEN (IF leases = <<>> THEN "refusing" ELSE "up")
  ELSE IF t \in Owned THEN status[t] ELSE "unreachable"

Seen(S) ==
  LET here(v) == IF v \in S THEN <<[v |-> Services[v], nets |-> nets[v]]>> ELSE <<>>
  IN  FlatMap(here, [v \in DOMAIN Services |-> v])

(* What a build reads once discovery has named the services S. *)
View(S) ==
  [cfg |-> cfg, conf |-> conf, running |-> Seen(S), avoid |-> avoid, leases |-> leases,
   reachable |-> {ip \in Ip : StatusOf(ip) \in Reachable}]

Orders(S) == SetToSeqs({Own} \cup {Services[v].scope : v \in S})

(* The names that `dnsvard run` and `dnsvard run <service>` claim. *)
LeaseOf(s, name) ==
  LET own == WorkspaceHost(conf[s], s)
      service == ServiceHost(conf[s], name, s)
  IN  [scope |-> s, domain |-> conf[s].domain,
       hosts |-> IF service = <<>> THEN <<own>> ELSE <<own, service>>]

NamesIn(s) == UNION {Range(Services[v].names) : v \in {u \in DOMAIN Services : Services[u].scope = s}}

Clean == [errors |-> 0, quarantined |-> FALSE]
Nothing == [dns |-> <<>>, routes |-> <<>>, tcp |-> <<>>, zones |-> {}]
NoReq == [step |-> "idle", host |-> <<>>, target |-> Local, steady |-> FALSE]

(* Startup builds and publishes once and refuses to run when that fails. *)
Init ==
  /\ nets \in [DOMAIN Services -> UNION {Networks[v] : v \in DOMAIN Services} \cup {Gone}]
  /\ \A v \in DOMAIN Services : nets[v] \in Networks[v] \cup {Gone}
  /\ \A u, v \in DOMAIN Services : u # v => Range(nets[u]) \cap Range(nets[v]) = {}
  /\ status = FirstStatus
  /\ conf = First
  /\ leases = <<>>
  /\ pc = "idle" /\ cfg = conf[Own] /\ listed = {} /\ avoid = {} /\ built = Nothing
  /\ \E order, later \in Orders(RunningServices) :
       LET first == Build(View(RunningServices), order, later)
       IN  /\ ~Refused(first.routes)
           /\ zones = first.zones /\ dns = first.dns /\ http = LastWins(first.routes)
  /\ cache = [t \in AllTargets |-> "unknown"]
  /\ tracker = [k \in Asked \X AllTargets |-> Clean]
  /\ breaker = [h \in Asked |-> 0]
  /\ req = [r \in Req |-> NoReq]
  /\ changes = 0

Change(kind) ==
  /\ kind \in Changes
  /\ changes < MaxChanges
  /\ changes' = changes + 1
  /\ UNCHANGED <<pass, tables, cache, tracker, breaker, req>>

(* A container starts, stops or comes back on free addresses. *)
ContainerChanges(v) ==
  /\ Change("container")
  /\ \E n \in (Networks[v] \cup {Gone}) \ {nets[v]} :
       /\ Range(n) \cap UNION {Range(nets[u]) : u \in DOMAIN Services \ {v}} = {}
       /\ nets' = [nets EXCEPT ![v] = n]
  /\ UNCHANGED <<status, conf, leases>>

HealthChanges(ip) ==
  /\ Change("health")
  /\ ip \in Owned
  /\ \E s \in Status \ {status[ip]} : status' = [status EXCEPT ![ip] = s]
  /\ UNCHANGED <<nets, conf, leases>>

ConfigChanges(s) ==
  /\ Change("config")
  /\ \E c \in (Configs[s] \cup {Bad}) \ {conf[s]} : conf' = [conf EXCEPT ![s] = c]
  /\ UNCHANGED <<nets, status, leases>>

(* `dnsvard run` in workspace s gets its lease, or ends and returns it. *)
RunChanges(s) ==
  /\ Change("run")
  /\ \/ /\ leases = <<>> /\ conf[s] # Bad
        /\ \E name \in {""} \cup NamesIn(s) : leases' = <<LeaseOf(s, name)>>
     \/ leases # <<>> /\ leases' = <<>>
  /\ UNCHANGED <<nets, status, conf>>

-----------------------------------------------------------------------------
(* A pass                                                                  *)

(* SnapshotActive forgets every target that is not quarantined. *)
SnapshotActive == {k \in DOMAIN tracker : tracker[k].quarantined}

(* A pass may begin at any time: the ticker, events and errors ask for one. *)
Begin ==
  /\ pc = "idle"
  /\ cfg' = IF conf[Own] = Bad THEN cfg ELSE conf[Own]
  /\ avoid' = {k[2] : k \in SnapshotActive}
  /\ tracker' = [k \in DOMAIN tracker |-> IF k \in SnapshotActive THEN tracker[k] ELSE Clean]
  /\ listed' = RunningServices
  /\ pc' = "inspect"
  /\ UNCHANGED <<world, built, tables, cache, breaker, req>>

(* docker inspect fails for a container that was removed since docker ps; one
   that only stopped has no address and is skipped. *)
Removed ==
  /\ pc = "inspect"
  /\ listed \ RunningServices # {}
  /\ pc' = "idle" /\ listed' = {} /\ avoid' = {}
  /\ UNCHANGED <<world, cfg, built, tables, cache, tracker, breaker, req>>

Inspect ==
  /\ pc = "inspect"
  /\ LET S == listed \cap RunningServices
     IN  \E order \in Orders(S), later \in Orders(S) :
           built' = Build(View(S), order, later)
  /\ pc' = "zones" /\ listed' = {} /\ avoid' = {}
  /\ UNCHANGED <<world, cfg, tables, cache, tracker, breaker, req>>

(* Mutation: the zones are those of the reloaded config. *)
SetReloadedZones ==
  /\ pc = "zones"
  /\ zones' = {cfg.domain}
  /\ req' = [r \in Req |-> [req[r] EXCEPT !.steady = @ /\ req[r].host \in DOMAIN built.dns]]
  /\ pc' = "dns"
  /\ UNCHANGED <<world, cfg, listed, avoid, built, dns, http, cache, tracker, breaker>>

SetZones ==
  /\ pc = "zones"
  /\ zones' = built.zones
  /\ req' = [r \in Req |-> [req[r] EXCEPT !.steady = @ /\ req[r].host \in DOMAIN built.dns]]
  /\ pc' = "dns"
  /\ UNCHANGED <<world, cfg, listed, avoid, built, dns, http, cache, tracker, breaker>>

SetRecords ==
  /\ pc = "dns"
  /\ dns' = built.dns
  /\ pc' = "http"
  /\ UNCHANGED <<world, cfg, listed, avoid, built, zones, http, cache, tracker, breaker, req>>

Healthy(t) == IF cache[t] = "unknown" THEN StatusOf(t) = "up" ELSE cache[t] = "healthy"

(* preserveLastHealthyHTTPRoutes *)
Doubtful(next) ==
  {h \in DOMAIN next : ~Healthy(next[h]) /\ h \in DOMAIN http /\ http[h] # next[h]}
Preserved(next) ==
  [h \in DOMAIN next |-> IF h \in Doubtful(next) /\ Healthy(http[h]) THEN http[h] ELSE next[h]]
Probed(routes) ==
  IF DOMAIN http = {} \/ routes = <<>> THEN {}
  ELSE {routes[i].target : i \in DOMAIN routes}
         \cup {http[h] : h \in Doubtful(LastWins(routes))}

Probe(routes) ==
  cache' = [t \in AllTargets |-> IF t \notin Probed(routes) THEN cache[t]
                                 ELSE IF Healthy(t) THEN "healthy" ELSE "unhealthy"]

(* SetRoutes takes all routes or none, and closes every breaker. *)
SetRoutes ==
  /\ pc = "http"
  /\ ~Refused(built.routes)
  /\ http' = Preserved(LastWins(built.routes))
  /\ Probe(built.routes)
  /\ breaker' = [h \in Asked |-> 0]
  /\ pc' = "idle" /\ built' = Nothing
  /\ UNCHANGED <<world, cfg, listed, avoid, zones, dns, tracker, req>>

RoutesRefused ==
  /\ pc = "http"
  /\ Refused(built.routes)
  /\ Probe(built.routes)
  /\ pc' = "idle" /\ built' = Nothing
  /\ UNCHANGED <<world, cfg, listed, avoid, tables, tracker, breaker, req>>

PassStep == Begin \/ Removed \/ Inspect \/ SetZones \/ SetRecords
              \/ SetRoutes \/ RoutesRefused

ProbeExpires(t) ==
  /\ cache[t] # "unknown"
  /\ cache' = [cache EXCEPT ![t] = "unknown"]
  /\ UNCHANGED <<world, pass, tables, tracker, breaker, req>>

-----------------------------------------------------------------------------
(* Clients.  A client asks for a name or sends a request; one that has an      *)
(* address from before need not ask again.                                     *)

Free(r) == req[r].step \in {"idle", "refused", "loopback"}

(* steady: the name has a record and keeps it in what is being published. *)
Ask(r, h) ==
  /\ Free(r)
  /\ req' = [req EXCEPT ![r] =
       [step |-> "zone", host |-> h, target |-> Local,
        steady |-> h \in DOMAIN dns /\ (pc = "dns" => h \in DOMAIN built.dns)]]
  /\ UNCHANGED <<world, pass, tables, cache, tracker, breaker>>

(* handleDNS reads the zones and then the records under separate locks. *)
Allows(r) ==
  /\ req[r].step = "zone"
  /\ LET allowed == \E z \in zones : IsSuffix(z, req[r].host)
     IN  req' = [req EXCEPT ![r].step = IF allowed THEN "lookup" ELSE "refused"]
  /\ UNCHANGED <<world, pass, tables, cache, tracker, breaker>>

(* A name without a record is answered with 127.0.0.1. *)
Lookup(r) ==
  /\ req[r].step = "lookup"
  /\ req' = [req EXCEPT ![r] = IF @.host \in DOMAIN dns THEN NoReq
                               ELSE [@ EXCEPT !.step = "loopback"]]
  /\ UNCHANGED <<world, pass, tables, cache, tracker, breaker>>

(* handle refuses the requests of a host that is cut off, for 10 s; the first one
   after that closes the breaker again. *)
Admit(r, h) ==
  /\ Free(r)
  /\ breaker' = [breaker EXCEPT ![h] = IF @ = BreakAt THEN 0 ELSE @]
  /\ req' = [req EXCEPT ![r] = [NoReq EXCEPT !.step = "admitted", !.host = h]]
  /\ UNCHANGED <<world, pass, tables, cache, tracker>>

(* The route is looked up after the breaker's lock is free. *)
Forward(r) ==
  /\ req[r].step = "admitted"
  /\ LET h == req[r].host
     IN  req' = [req EXCEPT ![r] =
                   IF h \in DOMAIN http THEN [@ EXCEPT !.step = "sent", !.target = http[h]]
                   ELSE NoReq]
  /\ UNCHANGED <<world, pass, tables, cache, tracker, breaker>>

(* Any response counts as a success, of whatever status code. *)
Succeed(r) ==
  /\ req[r].step = "sent"
  /\ StatusOf(req[r].target) \in Reachable
  /\ breaker' = [breaker EXCEPT ![req[r].host] = 0]
  /\ req' = [req EXCEPT ![r] = NoReq]
  /\ UNCHANGED <<world, pass, tables, cache, tracker>>

(* The upstream fails, or the client goes away, which counts as much; only an
   upstream that has no route is reported, after the breaker's lock is free. *)
Fail(r) ==
  /\ req[r].step = "sent"
  /\ breaker' = [breaker EXCEPT ![req[r].host] = IF @ < BreakAt THEN @ + 1 ELSE @]
  /\ \/ req' = [req EXCEPT ![r] = NoReq]
     \/ /\ StatusOf(req[r].target) = "unreachable"
        /\ req' = [req EXCEPT ![r].step = "failed"]
  /\ UNCHANGED <<world, pass, tables, cache, tracker>>

(* Mutation: the count goes on after a quarantine has begun. *)
RecordedOn(k) ==
  [errors |-> k.errors + 1, quarantined |-> k.quarantined \/ k.errors + 1 >= QuarantineAt]

Recorded(k) ==
  IF k.errors + 1 < QuarantineAt THEN [k EXCEPT !.errors = @ + 1]
  ELSE [errors |-> 0, quarantined |-> TRUE]

Report(r) ==
  /\ req[r].step = "failed"
  /\ tracker' = [tracker EXCEPT ![<<req[r].host, req[r].target>>] = Recorded(@)]
  /\ req' = [req EXCEPT ![r] = NoReq]
  /\ UNCHANGED <<world, pass, tables, cache, breaker>>

(* Mutation: a quarantine has no end. *)
QuarantineLasts(k) ==
  /\ tracker[k].quarantined
  /\ tracker[k].errors > 0
  /\ tracker' = [tracker EXCEPT ![k].errors = 0]
  /\ UNCHANGED <<world, pass, tables, cache, breaker, req>>

(* The 20 s window and the 45 s quarantine of a target pass. *)
WindowEnds(k) ==
  /\ tracker[k].errors > 0
  /\ tracker' = [tracker EXCEPT ![k].errors = 0]
  /\ UNCHANGED <<world, pass, tables, cache, breaker, req>>

QuarantineEnds(k) ==
  /\ tracker[k].quarantined
  /\ tracker' = [tracker EXCEPT ![k].quarantined = FALSE]
  /\ UNCHANGED <<world, pass, tables, cache, breaker, req>>

-----------------------------------------------------------------------------

Next ==
  \/ \E v \in DOMAIN Services : ContainerChanges(v)
  \/ \E ip \in Ip : HealthChanges(ip)
  \/ \E s \in Scopes : ConfigChanges(s) \/ RunChanges(s)
  \/ PassStep
  \/ \E t \in AllTargets : ProbeExpires(t)
  \/ \E r \in Req, h \in Asked : Ask(r, h) \/ Admit(r, h)
  \/ \E r \in Req : Allows(r) \/ Lookup(r) \/ Forward(r) \/ Succeed(r)
                      \/ Fail(r) \/ Report(r)
  \/ \E k \in Asked \X AllTargets : WindowEnds(k) \/ QuarantineEnds(k)

Spec == Init /\ [][Next]_vars

(* The ticker asks for passes and every pass ends; caches and quarantines run
   out with the clock; clients and changes owe nothing. *)
FairSpec ==
  /\ Spec
  /\ WF_vars(Begin) /\ []<>(pc = "idle")
  /\ \A t \in AllTargets : WF_vars(ProbeExpires(t))
  /\ \A k \in Asked \X AllTargets : WF_vars(QuarantineEnds(k))

-----------------------------------------------------------------------------
(* Properties                                                              *)

(* Every variable keeps its type: tables lead from host names to workspaces and
   from host names, or workspaces and ports, to addresses; counters stay within
   their limits. *)
TypeOK ==
  /\ \A v \in DOMAIN Services : nets[v] \in Networks[v] \cup {Gone}
  /\ status \in [Ip -> Status]
  /\ \A s \in Scopes : conf[s] \in Configs[s] \cup {Bad}
  /\ cfg \in Configs[Own]
  /\ pc \in {"idle", "inspect", "zones", "dns", "http"}
  /\ listed \subseteq DOMAIN Services
  /\ avoid \subseteq AllTargets
  /\ Range(dns) \subseteq Scopes
  /\ Range(http) \subseteq AllTargets
  /\ cache \in [AllTargets -> {"unknown", "healthy", "unhealthy"}]
  /\ tracker \in [Asked \X AllTargets ->
                    [errors : 0 .. QuarantineAt - 1, quarantined : BOOLEAN]]
  /\ breaker \in [Asked -> 0 .. BreakAt]
  /\ \A r \in Req : /\ req[r].step \in {"idle", "zone", "lookup", "refused", "loopback",
                                       "admitted", "sent", "failed"}
                    /\ req[r].target \in AllTargets /\ req[r].steady \in BOOLEAN
  /\ changes \in 0 .. MaxChanges

(* Whatever the order in which maps are iterated, the strongest source gives a
   name its record, and among equals the first one: what Merge reaches by
   folding, and could miss, since it lets an equal address keep the priority of
   its first source. *)
MergePrecedence ==
  pc = "inspect" =>
    \A order \in Orders(listed \cap RunningServices) :
      LET entries   == Records(View(listed \cap RunningServices), order)
          rank(i)   == Priority(entries[i].source)
          rivals(h) == {i \in DOMAIN entries : entries[i].host = h}
          strongest(h) == {i \in rivals(h) : \A j \in rivals(h) : rank(j) <= rank(i)}
      IN  \A h \in HostsOf(entries) : Merge(entries)[h] = entries[Min(strongest(h))].ip

(* The records and the routes of a build are made from different lists by
   different rules, and yet a name that one workspace claims resolves to the
   workspace whose container answers HTTP for it, and a workspace's TCP listeners
   lead to its own containers.  Names of leases are left out: they resolve to the
   daemon's own workspace. *)
WorkspacesKept ==
  pc = "inspect" =>
    \A order, later \in Orders(listed \cap RunningServices) :
      LET S       == listed \cap RunningServices
          made    == Build(View(S), order, later)
          routes  == LastWins(made.routes)
          Serves(s, ip) == \E v \in S : Services[v].scope = s /\ ip \in Range(nets[v])
          Rivals(h) == {e.ip : e \in {x \in Range(Records(View(S), order)) : x.host = h}}
          Leased  == UNION {Range(l.hosts) : l \in Range(leases)}
      IN  /\ \A h \in DOMAIN routes \ Leased :
               Cardinality(Rivals(h)) = 1 => Serves(made.dns[h], routes[h])
          /\ \A k \in DOMAIN made.tcp : Serves(k[1], made.tcp[k])

(* A name that has a record before a query, and in every table published during
   it, is answered with an address: never refused, although zones and records
   are read under separate locks and replaced in two steps. *)
SteadyAnswered ==
  \A r \in Req : req[r].step \in {"refused", "loopback"} => ~req[r].steady

(* Service v is the one its workspace's host stands for, and it answers at one
   of its addresses and accepts connections at no other. *)
Answers(v) ==
  /\ nets[v] # Gone /\ ServesHTTP(Services[v])
  /\ \A u \in RunningServices \ {v} :
       Services[u].scope = Services[v].scope =>
         ~Services[u].default /\ (ServesHTTP(Services[u]) => Services[v].default)
  /\ \E ip \in Range(nets[v]) :
       /\ StatusOf(ip) = "up"
       /\ \A other \in Range(nets[v]) \ {ip} : StatusOf(other) \notin Reachable

Leads(v) ==
  LET s == Services[v].scope
      h == WorkspaceHost(Routing(cfg, conf, s), s)
  IN  /\ h \in DOMAIN http
      /\ http[h] \in Range(nets[v]) /\ StatusOf(http[h]) = "up"

(* No service that answers HTTP has a pattern without names for services; the router
   refuses all routes otherwise. *)
Named ==
  \A v \in RunningServices :
    ServesHTTP(Services[v]) =>
      Contains(Routing(cfg, conf, Services[v].scope).pattern, "service")

(* A workspace's service that answers is reached by the workspace's host for
   good: quarantine, cached probes, kept routes and refused ones give way in the
   end. *)
Reached == \A v \in DOMAIN Services : <>[](Answers(v) /\ Named) => <>[]Leads(v)

=============================================================================
