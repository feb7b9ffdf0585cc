--------------------------- MODULE ReconcileProofs ---------------------------
(***************************************************************************)
(* Safety of the reconcile loop for any number of hosts, containers and    *)
(* changes.  IInv relates the tables, pass in the middle of a pass to the routes *)
(* being applied; Kept adds nothing to the hosts of those routes.          *)
(***************************************************************************)
EXTENDS Reconcile, TLAPS

RoutedHosts == {h \in Host : http[h] # None}

(* Between the two updates DNS is ahead: it already holds the new hosts.  So it
   is after a pass whose routes the router has refused. *)
TablesInv ==
  /\ RoutedResolves
  /\ pc = "http" => dns = Hosts(built)

(* A lasting host is available and routed, and no pass under way has missed it. *)
LastingInv ==
  /\ lasting \subseteq dns
  /\ \A h \in lasting : Workload(world, h) # None /\ http[h] # None
  /\ pc \in {"dns", "http"} => lasting \subseteq Hosts(built)

IInv == TypeOK /\ TablesInv

-----------------------------------------------------------------------------
(* What buildRoutes returns has the type of routes. *)
LEMMA RoutesType ==
  ASSUME world \in World
  PROVE  Discovered(world) \in Routes /\ NoRoutes \in Routes
<1>1. world.containers \in [Host -> Upstream \cup {None}]
  BY DEF World
<1>2. \A h \in Host : Workload(world, h) \in Target \cup {None}
  BY <1>1 DEF Workload, Target
<1>3. QED
  BY <1>1, <1>2 DEF Discovered, NoRoutes, Routes, World

(* A kept target never adds a host, and no host of the new routes is left
   without a target. *)
LEMMA KeptHosts ==
  ASSUME TypeOK,
         NEW new, new = [h \in Host |-> IF h \in Kept THEN http[h] ELSE built.http[h]]
  PROVE  /\ new \in [Host -> Target \cup {None}]
         /\ {h \in Host : new[h] # None} = Hosts(built)
<1>1. built.http \in [Host -> Target \cup {None}]
  BY DEF TypeOK, Routes
<1>2. \A h \in Kept : h \in Hosts(built) /\ http[h] # None
  BY DEF Kept, Doubtful
<1>3. QED
  BY <1>1, <1>2 DEF TypeOK, Hosts

LEMMA ProbesType ==
  ASSUME TypeOK
  PROVE  AfterProbes \in [Target -> {"unknown", "healthy", "unhealthy"}]
  BY DEF TypeOK, AfterProbes

(* Trigger keeps the channels within their capacities. *)
LEMMA TriggerType ==
  ASSUME TypeOK, NEW s \in Source
  PROVE  /\ Trigger(s) \in [Source -> Nat]
         /\ \A t \in Source : Trigger(s)[t] <= Capacity[t]
  BY CapacityAssumption DEF TypeOK, Trigger

LEMMA InitIInv == Init => IInv
<1> SUFFICES ASSUME Init PROVE IInv
  OBVIOUS
<1>1. world \in World
  BY ModesAssumption DEF Init, World
<1>2. built \in Routes
  BY <1>1, RoutesType DEF Init
<1>3. TypeOK
  <2>1. /\ cfg \in Modes /\ built.http \in [Host -> Target \cup {None}]
        /\ built.tcp \in [Host -> Upstream \cup {None}]
    BY <1>2 DEF Init, Routes
  <2>2. chan \in [Source -> Nat] /\ \A s \in Source : chan[s] <= Capacity[s]
    BY CapacityAssumption DEF Init
  <2>3. /\ dns \subseteq Host /\ lasting \subseteq Host
        /\ http \in [Host -> Target \cup {None}] /\ tcp \in [Host -> Upstream \cup {None}]
    BY <2>1 DEF Init, Hosts
  <2>4. /\ cache \in [Target -> {"unknown", "healthy", "unhealthy"}]
        /\ state \in [result : {"success", "failure"}, age : 0 .. StaleAge]
        /\ changes \in 0 .. MaxChanges /\ streak \in 0 .. BackoffStreak
    BY BoundAssumption DEF Init, StaleAge, BackoffStreak
  <2>5. /\ watching \in BOOLEAN /\ news \subseteq Watched /\ refused \in BOOLEAN
        /\ pc \in {"idle", "reload", "build", "dns", "http", "tcp", "record", "sleep"}
    BY DEF Init
  <2>6. QED
    BY <1>1, <1>2, <2>1, <2>2, <2>3, <2>4, <2>5 DEF TypeOK
<1>4. TablesInv
  BY DEF Init, TablesInv, RoutedResolves, Hosts
<1>5. QED
  BY <1>3, <1>4 DEF IInv

-----------------------------------------------------------------------------
(* A change of the world leaves the daemon alone. *)
LEMMA ChangeIInv ==
  ASSUME IInv, NEW kind, NEW w \in World, Change(kind, w),
         watching' \in BOOLEAN, news' \subseteq Watched,
         chan' \in [Source -> Nat], \A s \in Source : chan'[s] <= Capacity[s]
  PROVE  IInv'
<1>1. TypeOK'
  BY BoundAssumption DEF IInv, TypeOK, Change, tables, pass
<1>2. TablesInv'
  BY DEF IInv, TablesInv, RoutedResolves, Hosts, Change, tables, pass
<1>3. QED
  BY <1>1, <1>2 DEF IInv

LEMMA WorldIInv ==
  ASSUME IInv, WorldStep
  PROVE  IInv'
<1> USE DEF Watched, Source
<1>1. /\ world \in World /\ watching \in BOOLEAN /\ news \subseteq Watched
      /\ chan \in [Source -> Nat] /\ \A s \in Source : chan[s] <= Capacity[s]
  BY DEF IInv, TypeOK
<1>2. ASSUME NEW h \in Host, ContainerChanges(h) PROVE IInv'
  <2>1. PICK u \in Upstream \cup {None} :
          Change("container", [world EXCEPT !.containers[h] = u])
    BY <1>2 DEF ContainerChanges
  <2>2. [world EXCEPT !.containers[h] = u] \in World
    BY <1>1 DEF World
  <2>3. news' \subseteq Watched /\ watching' = watching /\ chan' = chan
    BY <1>1, <1>2 DEF ContainerChanges
  <2>4. QED
    BY <1>1, <2>1, <2>2, <2>3, ChangeIInv
<1>3. ASSUME NEW h \in Host, LeaseChanges(h) PROVE IInv'
  <2> DEFINE w == [world EXCEPT !.leases = IF h \in @ THEN @ \ {h} ELSE @ \cup {h}]
  <2>1. w \in World
    BY <1>1 DEF World
  <2>2. Change("lease", w) /\ news' \subseteq Watched /\ watching' = watching /\ chan' = chan
    BY <1>1, <1>3 DEF LeaseChanges
  <2>3. QED
    BY <1>1, <2>1, <2>2, ChangeIInv
<1>4. ASSUME NEW h \in Host, PortChanges(h) PROVE IInv'
  <2> DEFINE w == [world EXCEPT !.busy = IF h \in @ THEN @ \ {h} ELSE @ \cup {h}]
  <2>1. w \in World
    BY <1>1 DEF World
  <2>2. Change("port", w) /\ UNCHANGED <<watching, news, chan>>
    BY <1>4 DEF PortChanges
  <2>3. QED
    BY <1>1, <2>1, <2>2, ChangeIInv
<1>5. ASSUME NEW t \in Target, HealthChanges(t) PROVE IInv'
  <2> DEFINE w == [world EXCEPT !.up = IF t \in @ THEN @ \ {t} ELSE @ \cup {t}]
  <2>1. w \in World
    BY <1>1 DEF World
  <2>2. Change("health", w) /\ UNCHANGED <<watching, news, chan>>
    BY <1>5 DEF HealthChanges
  <2>3. QED
    BY <1>1, <2>1, <2>2, ChangeIInv
<1>6. ASSUME ConfigChanges PROVE IInv'
  <2>1. PICK m \in Modes \cup {"bad"} : Change("config", [world EXCEPT !.file = m])
    BY <1>6 DEF ConfigChanges
  <2>2. [world EXCEPT !.file = m] \in World
    BY <1>1 DEF World
  <2>3. news' \subseteq Watched /\ watching' = watching /\ chan' = chan
    BY <1>1, <1>6 DEF ConfigChanges
  <2>4. QED
    BY <1>1, <2>1, <2>2, <2>3, ChangeIInv
<1>7. ASSUME DockerChanges PROVE IInv'
  <2>1. [world EXCEPT !.docker = ~@] \in World
    BY <1>1 DEF World
  <2>2. /\ Change("docker", [world EXCEPT !.docker = ~@])
        /\ UNCHANGED <<watching, news, chan>>
    BY <1>7 DEF DockerChanges
  <2>3. QED
    BY <1>1, <2>1, <2>2, ChangeIInv
<1>8. ASSUME WatchEnds PROVE IInv'
  <2>1. /\ Trigger("docker") \in [Source -> Nat]
        /\ \A t \in Source : Trigger("docker")[t] <= Capacity[t]
    BY TriggerType DEF IInv
  <2>2. Change("watch", world) /\ watching' = FALSE /\ chan' = Trigger("docker") /\ news' = news
    BY <1>8 DEF WatchEnds
  <2>3. QED
    BY <1>1, <2>1, <2>2, ChangeIInv
<1>9. CASE NamelessChanges
  <2>1. [world EXCEPT !.nameless = ~@] \in World
    BY <1>1 DEF World
  <2>2. /\ Change("nameless", [world EXCEPT !.nameless = ~@])
        /\ news' \subseteq Watched /\ watching' = watching /\ chan' = chan
    BY <1>1, <1>9 DEF NamelessChanges
  <2>3. QED
    BY <1>1, <2>1, <2>2, ChangeIInv
<1>10. QED
  BY <1>2, <1>3, <1>4, <1>5, <1>6, <1>7, <1>8, <1>9 DEF WorldStep

(* Steps of the watchers, the clocks and requests: the tables, pass do not change. *)
QuietStep ==
  \/ WatchStarts \/ Tick
  \/ \E s \in Watched : Notice(s)
  \/ \E h \in Host : ProxyError(h)
  \/ \E t \in Target : ProbeExpires(t)

LEMMA TriggerIInv ==
  ASSUME IInv, QuietStep
  PROVE  IInv'
<1>1. /\ UNCHANGED <<pc, built, dns, http, world, cfg, refused, streak, tcp, lasting, changes>>
  BY DEF QuietStep, WatchStarts, Tick, Notice, ProxyError, ProbeExpires, tables, pass
<1>2. TablesInv'
  BY <1>1 DEF IInv, TablesInv, RoutedResolves, Hosts
<1>3. watching' \in BOOLEAN /\ news' \subseteq Watched
  BY DEF IInv, TypeOK, QuietStep, WatchStarts, Tick, Notice, ProxyError, ProbeExpires
<1>4. chan' = chan \/ \E s \in Source : chan' = Trigger(s)
  BY DEF QuietStep, WatchStarts, Tick, Notice, ProxyError, ProbeExpires, Source, Watched
<1>5. chan' \in [Source -> Nat] /\ \A s \in Source : chan'[s] <= Capacity[s]
  BY <1>4, TriggerType DEF IInv, TypeOK
<1>6. cache' \in [Target -> {"unknown", "healthy", "unhealthy"}]
  BY DEF IInv, TypeOK, QuietStep, WatchStarts, Tick, Notice, ProxyError, ProbeExpires
<1>7. state' \in [result : {"success", "failure"}, age : 0 .. StaleAge]
  BY DEF IInv, TypeOK, QuietStep, WatchStarts, Tick, Notice, ProxyError, ProbeExpires, StaleAge
<1>8. TypeOK'
  BY <1>1, <1>3, <1>5, <1>6, <1>7 DEF IInv, TypeOK
<1>9. QED
  BY <1>2, <1>8 DEF IInv

-----------------------------------------------------------------------------
(* Steps of a pass that change neither the tables, pass nor the routes. *)
PlainStep ==
  \/ \E s \in Source : Take(s)
  \/ Reload \/ BuildFails \/ Wake \/ ApplyTCP \/ TCPFails \/ Record

LEMMA PlainType ==
  ASSUME IInv, PlainStep
  PROVE  /\ UNCHANGED <<world, built, refused, dns, http, lasting>>
         /\ pc \notin {"dns", "http"} /\ pc' \notin {"dns", "http"}
         /\ TypeOK'
<1>1. /\ UNCHANGED <<world, watching, news, changes, built, refused, dns, http, cache, lasting>>
      /\ pc \notin {"dns", "http"}
      /\ pc' \in {"idle", "reload", "build", "record", "sleep"}
  BY DEF PlainStep, Take, Reload, BuildFails, Wake, ApplyTCP, TCPFails, Record, outside, tables, pass
<1>2. chan' \in [Source -> Nat] /\ \A s \in Source : chan'[s] <= Capacity[s]
  BY CapacityAssumption
  DEF IInv, TypeOK, PlainStep, Take, Reload, BuildFails, Wake, ApplyTCP, TCPFails, Record, outside
<1>3. cfg' \in Modes
  BY DEF pass, IInv, TypeOK, World, PlainStep, Take, Reload, BuildFails, Wake, ApplyTCP, TCPFails, Record
<1>4. streak' \in 0 .. BackoffStreak
  BY DEF IInv, TypeOK, PlainStep, Take, Reload, BuildFails, Wake, ApplyTCP, TCPFails, Record,
         BackoffStreak, pass
<1>5. state' \in [result : {"success", "failure"}, age : 0 .. StaleAge]
  BY DEF IInv, TypeOK, PlainStep, Take, Reload, BuildFails, Wake, ApplyTCP, TCPFails, Record,
         StaleAge
<1>6. tcp' \in [Host -> Upstream \cup {None}]
  <2>1. built.tcp \in [Host -> Upstream \cup {None}] /\ tcp \in [Host -> Upstream \cup {None}]
    BY DEF IInv, TypeOK, Routes
  <2>2. \A S : Opened(S) \in [Host -> Upstream \cup {None}]
    BY <2>1 DEF Opened
  <2>3. tcp' = tcp \/ \E S : tcp' = Opened(S)
    BY DEF PlainStep, Take, Reload, BuildFails, Wake, ApplyTCP, TCPFails, Record, tables, pass
  <2>4. QED
    BY <2>1, <2>2, <2>3
<1>7. QED
  BY <1>1, <1>2, <1>3, <1>4, <1>5, <1>6 DEF IInv, TypeOK

LEMMA ReconcileIInv ==
  ASSUME IInv, ReconcileStep
  PROVE  IInv'
<1>1. ASSUME PlainStep PROVE IInv'
  <2>1. /\ UNCHANGED <<world, built, refused, dns, http, lasting>>
        /\ pc \notin {"dns", "http"} /\ pc' \notin {"dns", "http"}
        /\ TypeOK'
    BY <1>1, PlainType
  <2>2. TablesInv'
    BY <2>1 DEF IInv, TablesInv, RoutedResolves
  <2>3. QED
    BY <2>1, <2>2 DEF IInv
<1>2. CASE Build
  <2>1. built' \in Routes
    BY <1>2, RoutesType DEF IInv, TypeOK, Build
  <2>2. TypeOK'
    BY <1>2, <2>1 DEF IInv, TypeOK, Build, outside, tables, pass, BackoffStreak
  <2>3. TablesInv'
    BY <1>2 DEF IInv, TablesInv, RoutedResolves, Build, tables, pass
  <2>4. QED
    BY <2>2, <2>3 DEF IInv
<1>3. CASE ApplyDNS
  <2>1. TypeOK'
    BY <1>3 DEF IInv, TypeOK, ApplyDNS, outside, pass, Hosts
  <2>2. TablesInv'
    BY <1>3 DEF TablesInv, RoutedResolves, ApplyDNS, pass, Hosts
  <2>3. QED
    BY <2>1, <2>2 DEF IInv
<1>4. CASE ApplyHTTP
  <2>1. http' = [h \in Host |-> IF h \in Kept THEN http[h] ELSE built.http[h]]
    BY <1>4 DEF ApplyHTTP, Publish
  <2>2. /\ http' \in [Host -> Target \cup {None}]
        /\ {h \in Host : http'[h] # None} = Hosts(built)
    BY <2>1, KeptHosts DEF IInv
  <2>3. cache' \in [Target -> {"unknown", "healthy", "unhealthy"}]
    BY <1>4, ProbesType DEF ApplyHTTP, IInv
  <2>4. TypeOK'
    BY <1>4, <2>2, <2>3 DEF IInv, TypeOK, ApplyHTTP, Publish, outside
  <2>5. TablesInv'
    BY <1>4, <2>2 DEF IInv, TablesInv, RoutedResolves, ApplyHTTP, Publish
  <2>6. QED
    BY <2>4, <2>5 DEF IInv
<1>5. CASE RefuseHTTP
  <2>1. TypeOK'
    BY <1>5, ProbesType DEF IInv, TypeOK, RefuseHTTP, outside, tables
  <2>2. TablesInv'
    BY <1>5 DEF TablesInv, RoutedResolves, RefuseHTTP
  <2>3. QED
    BY <2>1, <2>2 DEF IInv
<1>6. QED
  BY <1>1, <1>2, <1>3, <1>4, <1>5 DEF ReconcileStep, PlainStep

LEMMA StepIInv == IInv /\ [Next]_vars => IInv'
<1> SUFFICES ASSUME IInv, [Next]_vars PROVE IInv'
  OBVIOUS
<1>1. CASE ReconcileStep
  BY <1>1, ReconcileIInv
<1>2. CASE WorldStep
  BY <1>2, WorldIInv
<1>3. CASE QuietStep
  BY <1>3, TriggerIInv
<1>4. CASE UNCHANGED vars
  BY <1>4 DEF IInv, TypeOK, TablesInv, RoutedResolves, Hosts, vars, tables, pass
<1>5. QED
  BY <1>1, <1>2, <1>3, <1>4 DEF Next, QuietStep

(* The inductive invariant of the reconcile loop. *)
THEOREM Invariance == Spec => []IInv
<1>1. QED
  BY InitIInv, StepIInv, PTL DEF Spec

(* Every variable of the reconcile loop keeps its type. *)
THEOREM TypeCorrect == Spec => []TypeOK
<1>1. IInv => TypeOK
  BY DEF IInv
<1>2. QED
  BY <1>1, Invariance, PTL

(* Outside the two updates of a pass, and as long as the router takes what a pass
   gives it, DNS and the router hold the same hosts: a name that resolves is
   routed, in spite of kept targets and of passes that end early. *)
THEOREM RoutedIffResolved == Spec => []RoutedResolves
<1>1. IInv => RoutedResolves
  BY DEF IInv, TablesInv
<1>2. QED
  BY <1>1, Invariance, PTL

-----------------------------------------------------------------------------
(* Lasting hosts, when every config asks for docker discovery.             *)

LEMMA InitLasting == Init => LastingInv
  BY DEF Init, LastingInv, Hosts, Discovered

LEMMA StepLasting ==
  ASSUME Modes = {"required"}, IInv, LastingInv, [Next]_vars
  PROVE  LastingInv'
<1>1. ASSUME PlainStep PROVE LastingInv'
  <2>1. /\ UNCHANGED <<world, built, refused, dns, http, lasting>>
        /\ pc \notin {"dns", "http"} /\ pc' \notin {"dns", "http"}
    BY <1>1, PlainType
  <2>2. QED
    BY <2>1 DEF LastingInv
<1>2. CASE Build
  <2>1. cfg = "required" /\ lasting \subseteq Host
    BY DEF IInv, TypeOK
  <2>2. built' = Discovered(world)
    BY <1>2, <2>1 DEF Build
  <2>3. lasting \subseteq Hosts(built')
    BY <2>1, <2>2 DEF LastingInv, Hosts, Discovered
  <2>4. QED
    BY <1>2, <2>3 DEF LastingInv, Build, outside, tables, pass
<1>3. CASE ApplyDNS
  BY <1>3 DEF LastingInv, ApplyDNS, outside, pass, Hosts
<1>4. CASE ApplyHTTP
  <2>1. /\ dns' = dns /\ world' = world /\ pc' = "tcp"
        /\ lasting' = {h \in dns : Workload(world, h) # None}
        /\ http' = [h \in Host |-> IF h \in Kept THEN http[h] ELSE built.http[h]]
    BY <1>4 DEF ApplyHTTP, Publish, outside
  <2>2. dns = {h \in Host : http'[h] # None}
    BY <1>4, <2>1, KeptHosts DEF ApplyHTTP, Publish, IInv, TablesInv
  <2>3. QED
    BY <2>1, <2>2 DEF LastingInv
<1>5. ASSUME WorldStep PROVE LastingInv'
  <2>1. PICK kind, w : Change(kind, w)
    BY <1>5 DEF WorldStep, ContainerChanges, LeaseChanges, PortChanges, HealthChanges,
                NamelessChanges, ConfigChanges, DockerChanges, WatchEnds
  <2>2. QED
    BY <2>1 DEF Change, LastingInv, tables, pass
<1>6. CASE QuietStep
  BY <1>6 DEF QuietStep, WatchStarts, Tick, Notice, ProxyError, ProbeExpires, LastingInv, tables, pass
<1>7. CASE UNCHANGED vars
  BY <1>7 DEF LastingInv, vars, tables, pass
<1>8. CASE RefuseHTTP
  BY <1>8 DEF LastingInv, RefuseHTTP, outside, tables
<1>9. QED
  BY <1>1, <1>2, <1>3, <1>4, <1>5, <1>6, <1>7, <1>8
  DEF Next, ReconcileStep, PlainStep, QuietStep

(* With docker_discovery_mode "required" a host that stays available is never
   withdrawn, whatever fails and however passes and changes interleave. *)
THEOREM LastingReached == Modes = {"required"} => (Spec => []LastingServed)
<1> SUFFICES ASSUME Modes = {"required"} PROVE Spec => []LastingServed
  OBVIOUS
<1>1. IInv /\ LastingInv /\ [Next]_vars => LastingInv'
  BY StepLasting
<1>2. IInv /\ LastingInv => LastingServed
  BY DEF LastingInv, LastingServed
<1>3. QED
  BY <1>1, <1>2, InitLasting, Invariance, PTL DEF Spec

-----------------------------------------------------------------------------
(* Targets that answer.                                                    *)

(* The router's targets change only where a pass applies the new routes. *)
LEMMA HTTPSteps == [Next]_vars => http' = http \/ ApplyHTTP
<1> SUFFICES ASSUME [Next]_vars PROVE http' = http \/ ApplyHTTP
  OBVIOUS
<1>1. CASE WorldStep
  BY <1>1 DEF WorldStep, ContainerChanges, LeaseChanges, PortChanges, HealthChanges,
              NamelessChanges, ConfigChanges, DockerChanges, WatchEnds, Change, tables, pass
<1>2. CASE QuietStep
  BY <1>2 DEF QuietStep, WatchStarts, Tick, Notice, ProxyError, ProbeExpires, tables, pass
<1>3. CASE ReconcileStep \/ UNCHANGED vars
  BY <1>3 DEF ReconcileStep, Take, Reload, BuildFails, Build, Wake, ApplyDNS, ApplyTCP,
              RefuseHTTP, TCPFails, Record, tables, pass, vars
<1>4. QED
  BY <1>1, <1>2, <1>3 DEF Next, QuietStep

(* A host whose new target was not found answering keeps an old one that does. *)
LEMMA KeptAnswers ==
  ASSUME TypeOK, NEW h \in Host \ Kept,
         http[h] \notin {None, built.http[h]}, built.http[h] # None,
         http[h] \in world.up, cache[http[h]] # "unhealthy"
  PROVE  built.http[h] \in world.up \/ cache[built.http[h]] = "healthy"
<1>1. http[h] \in Target
  BY DEF TypeOK
<1>2. Healthy(http[h])
  BY <1>1 DEF Healthy, TypeOK
<1>3. Healthy(built.http[h])
  BY <1>2 DEF Kept, Doubtful, Hosts
<1>4. QED
  BY <1>3 DEF Healthy

(* No step takes a host off a target that answers for one that does not, whatever
   fails or changes beside it. *)
THEOREM SwitchedForBetter == Spec => NeverWorse
<1>1. ASSUME TypeOK, [Next]_vars, NEW h \in Host,
             http[h] \notin {None, http'[h]}, http'[h] # None,
             http[h] \in world.up, cache[http[h]] # "unhealthy"
      PROVE  http'[h] \in world.up \/ cache[http'[h]] = "healthy"
  <2>1. ApplyHTTP
    BY <1>1, HTTPSteps
  <2>2. h \notin Kept /\ http'[h] = built.http[h]
    BY <1>1, <2>1 DEF ApplyHTTP, Publish
  <2>3. QED
    BY <1>1, <2>2, KeptAnswers
<1> DEFINE Better ==
      \A h \in Host :
        LET from == http[h]
            to   == http'[h]
        IN  /\ from \notin {None, to} /\ to # None
            /\ from \in world.up /\ cache[from] # "unhealthy"
            => to \in world.up \/ cache[to] = "healthy"
<1>2. TypeOK /\ [Next]_vars => [Better]_vars
  <2>1. TypeOK /\ [Next]_vars => Better
    BY <1>1
  <2>2. QED
    BY <2>1
<1>3. QED
  BY <1>2, TypeCorrect, PTL DEF Spec, NeverWorse

=============================================================================
