------------------------------ MODULE RouteBuild ------------------------------
(***************************************************************************)
(* What one route build computes: host names, the target of a service, the *)
(* records, HTTP routes and TCP routes of every workspace, and how rivals  *)
(* for one name are merged.  No state.  Source: cmd/dnsvard/routes_build.go*)
(* with internal/identity, internal/routes and internal/docker.            *)
(*                                                                         *)
(* A host name is the sequence of its labels; the empty one is the name "" *)
(* the code gives to a service whose pattern names no services.  A scope   *)
(* is a workspace, and stands for its loopback address as well.  The       *)
(* target http://ip:port is the address alone, since a container has one   *)
(* HTTP port.                                                              *)
(***************************************************************************)
EXTENDS Naturals, SequencesExt

CONSTANTS Services,   \* containers by age: what their labels and images say
          Own,        \* the scope the daemon was started in
          Local,      \* the target of a leased process, localhost:port
          HTTPPort    \* http_port, which TCP listeners leave alone

Scopes == {Own} \cup {Services[v].scope : v \in DOMAIN Services}
Token == {"service", "workspace", "project"}    \* every pattern ends in tld

Scope == [project : STRING, workspace : STRING]
Service == [scope : Scope, names : Seq(STRING),
            port : BOOLEAN,         \* has the label dnsvard.http_port
            default : BOOLEAN,      \* has the label dnsvard.default_http
            tcp : SUBSET Nat]       \* ports of the image and the container

ASSUME ServicesAssumption ==
  /\ Own \in Scope /\ Services \in Seq(Service)
  /\ \A v \in DOMAIN Services : IsFiniteSet(Services[v].tcp)

FlatMap(Op(_), seq) == FlattenSeq([i \in DOMAIN seq |-> Op(seq[i])])

-----------------------------------------------------------------------------
(* Names.  A routing of a scope is its domain and its host pattern.        *)

RoutingType(r) ==
  /\ r \in [domain : Seq(STRING) \ {<<>>}, pattern : Seq(Token)]
  /\ Contains(r.pattern, "workspace")

Bad == [domain |-> <<>>, pattern |-> <<>>]      \* a config that cannot be loaded

(* The config of a scope that cannot be loaded gives way to the daemon's. *)
Routing(cfg, conf, s) == IF conf[s] = Bad THEN cfg ELSE conf[s]

Label(token, service, s) ==
  CASE token = "service" -> service
    [] token = "workspace" -> s.workspace
    [] token = "project" -> s.project

Render(tokens, service, s, domain) ==
  [i \in DOMAIN tokens |-> Label(tokens[i], service, s)] \o domain

WithoutService(pattern) ==
  LET kept(token) == IF token = "service" THEN <<>> ELSE <<token>>
  IN  FlatMap(kept, pattern)
WorkspaceHost(r, s) == Render(WithoutService(r.pattern), "", s, r.domain)
ProjectHost(r, s) == <<s.project>> \o r.domain
ServiceHost(r, name, s) ==
  IF name # "" /\ Contains(r.pattern, "service") THEN Render(r.pattern, name, s, r.domain) ELSE <<>>

(* The workspace a project host stands for; order is the order in which the
   project's workspaces come out of a map. *)
DefaultWorkspace(order, project) ==
  LET all == {n \in DOMAIN order : order[n].project = project}
      named(name) == {n \in all : order[n].workspace = name}
  IN  order[Min(IF named("master") # {} THEN named("master")
                ELSE IF named("main") # {} THEN named("main") ELSE all)]

-----------------------------------------------------------------------------
(* Targets.  nets are a container's addresses, its preferred network first. *)

HTTPEnabled(v) == v.port \/ v.default
HasHTTPPort(v) == v.port \/ (v.default /\ Cardinality(v.tcp) = 1)
ServesHTTP(v) == HTTPEnabled(v) /\ HasHTTPPort(v)

(* Discovery takes the first address that accepts connections, else the
   preferred one; a container with one address is not probed. *)
ContainerIP(nets, reachable) ==
  LET good == {n \in DOMAIN nets : nets[n] \in reachable}
  IN  nets[IF good = {} THEN 1 ELSE Min(good)]

(* pickServiceRouteTarget: the address discovery chose and then the others in
   their order, quarantined ones only if there is no other. *)
PickTarget(chosen, nets, avoid) ==
  LET good == {n \in DOMAIN nets : nets[n] \notin avoid}
  IN  IF chosen \in avoid /\ good # {} THEN nets[Min(good)] ELSE chosen

-----------------------------------------------------------------------------
(* Rivals for one name                                                     *)

Priority(source) == CASE source = "runtime" -> 200 [] source = "docker" -> 100

HostsOf(list) == {list[i].host : i \in DOMAIN list}

(* Mutation: the last one wins whatever its source. *)
StrongerLatest(e, w) == IF e.ip # w.ip THEN e ELSE w

(* routes.Merge keeps what it has unless a rival for another address comes
   from a source of higher priority. *)
Stronger(e, w) ==
  IF e.ip # w.ip /\ Priority(e.source) > Priority(w.source) THEN e ELSE w

Merge(entries) ==
  LET chosen[n \in 0 .. Len(entries)] ==
        IF n = 0 THEN <<>>
        ELSE LET e   == entries[n]
                 old == chosen[n - 1]
             IN  [h \in DOMAIN old \cup {e.host} |->
                    IF h # e.host THEN old[h]
                    ELSE IF h \in DOMAIN old THEN Stronger(e, old[h]) ELSE e]
  IN  [h \in HostsOf(entries) |-> chosen[Len(entries)][h].ip]

(* The tables of the router and the proxy are maps: the last route wins. *)
LastWins(list) ==
  [h \in HostsOf(list) |-> list[Max({i \in DOMAIN list : list[i].host = h})].target]

-----------------------------------------------------------------------------
(* A build.  w is what it reads: cfg and conf, the running containers as a *)
(* sequence of [v |-> service, nets |-> addresses] in docker's order, the  *)
(* addresses that accept connections, the quarantined targets, the leases. *)
(* order is an order of the scopes and later another one, as Go iterates   *)
(* maps at random.                                                         *)

BuildScopes(w) == {Own} \cup {c.v.scope : c \in Range(w.running)}

Target(w, c) == PickTarget(ContainerIP(c.nets, w.reachable), c.nets, w.avoid)

(* Mutation: the defaults of all workspaces are taken for one. *)
DefaultTargetAnywhere(w, s) ==
  LET first == {n \in DOMAIN w.running : w.running[n].v.default /\ HasHTTPPort(w.running[n].v)}
  IN  IF first = {} THEN <<>> ELSE <<Target(w, w.running[Min(first)])>>

(* The target of a workspace's own host, as a sequence of at most one: the
   first default service with a port, or the only HTTP service. *)
DefaultTarget(w, s) ==
  LET v(n)     == w.running[n].v
      here     == {n \in DOMAIN w.running : v(n).scope = s}
      defaults == {n \in here : v(n).default}
      serving  == {n \in here : ServesHTTP(v(n))}
      first    == IF defaults # {} THEN {n \in defaults : HasHTTPPort(v(n))}
                  ELSE IF Cardinality(serving) = 1 THEN serving ELSE {}
  IN  IF first = {} THEN <<>> ELSE <<Target(w, w.running[Min(first)])>>

(* The scopes that projects stand for, one for each project. *)
Defaults(order) ==
  SetToSeq({s \in Range(order) : s = DefaultWorkspace(order, s.project)})

Records(w, order) ==
  LET host(s)    == [host |-> WorkspaceHost(Routing(w.cfg, w.conf, s), s),
                     ip |-> s, source |-> "runtime"]
      project(s) == [host |-> ProjectHost(Routing(w.cfg, w.conf, s), s),
                     ip |-> s, source |-> "runtime"]
      leased(l)  == [i \in DOMAIN l.hosts |->
                       [host |-> l.hosts[i], ip |-> Own, source |-> "runtime"]]
      named(c)   == [i \in DOMAIN c.v.names |->
                       [host |-> ServiceHost(Routing(w.cfg, w.conf, c.v.scope),
                                             c.v.names[i], c.v.scope),
                        ip |-> c.v.scope, source |-> "docker"]]
      default    == Defaults(order)
  IN  [i \in DOMAIN order |-> host(order[i])] \o FlatMap(leased, w.leases)
        \o FlatMap(named, w.running) \o [i \in DOMAIN default |-> project(default[i])]

HTTPRoutes(w, order, later) ==
  LET r(s)      == Routing(w.cfg, w.conf, s)
      to(h, t)  == [i \in DOMAIN t |-> [host |-> h, target |-> t[i]]]
      leased(l) == [i \in DOMAIN l.hosts |-> [host |-> l.hosts[i], target |-> Local]]
      named(c)  == IF ~ServesHTTP(c.v) THEN <<>>
                   ELSE [i \in DOMAIN c.v.names |->
                           [host |-> ServiceHost(r(c.v.scope), c.v.names[i], c.v.scope),
                            target |-> Target(w, c)]]
      own(s)    == to(WorkspaceHost(r(s), s), DefaultTarget(w, s))
      stands(s) == to(ProjectHost(r(s), s), DefaultTarget(w, s))
  IN  FlatMap(leased, w.leases) \o FlatMap(named, w.running)
        \o FlatMap(own, later) \o FlatMap(stands, Defaults(order))

(* TCP listeners by scope and port, at the address discovery chose. *)
TCPRoutes(w) ==
  LET ports(c) == SetToSeq(c.v.tcp \ {HTTPPort})
      named(c) == [i \in DOMAIN ports(c) |->
                     [host |-> <<c.v.scope, ports(c)[i]>>,
                      target |-> ContainerIP(c.nets, w.reachable)]]
  IN  FlatMap(named, w.running)

Domains(w) ==
  {Routing(w.cfg, w.conf, s).domain : s \in BuildScopes(w)}
    \cup {l.domain : l \in Range(w.leases)}

(* routes is what the router is given: it refuses all of it when one route
   has no host name. *)
Build(w, order, later) ==
  [dns |-> Merge(Records(w, order)), routes |-> HTTPRoutes(w, order, later),
   tcp |-> LastWins(TCPRoutes(w)), zones |-> Domains(w)]

Refused(routes) == <<>> \in HostsOf(routes)

=============================================================================
