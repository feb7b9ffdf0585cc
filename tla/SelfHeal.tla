------------------------------ MODULE SelfHeal ------------------------------
(***************************************************************************)
(* How the daemon recovers from upstreams that stay unreachable: the proxy *)
(* error handler counts bursts of errors, and the reconcile goroutine      *)
(* stops the HTTP router and starts it again, not too often and not while  *)
(* the action is suppressed after repeated failures.                       *)
(* Source: cmd/dnsvard/cmd_daemon.go, internal/httprouter/router.go.       *)
(*                                                                         *)
(* Times are numbers of ticks left.  The router is one that could start    *)
(* with the daemon; otherwise httpRouterEnabled is false and nothing here  *)
(* happens.  Which target a host gets is the subject of Reconcile: Routes  *)
(* are opaque values.                                                      *)
(***************************************************************************)
EXTENDS Naturals

CONSTANTS Routes,       \* what a route build may return
          Port,         \* values of http_port
          None,         \* no port
          Throttle,     \* errors within this time of a counted one are not (2 s)
          BurstWindow,  \* the time a burst may take (30 s)
          BurstLimit,   \* counted errors that make a burst (6)
          Cooldown,     \* between two escalations, and two resets (2 min)
          Block,        \* how long a failing reset is suppressed (5 min)
          Tries,        \* how often a reset tries to listen (20)
          MaxQuiet,     \* history: ticks without a counted error, at most
          MaxChanges    \* changes outside, at most

ASSUME PortAssumption == None \notin Port
ASSUME TimeAssumption ==
  \A n \in {Throttle, BurstWindow, BurstLimit, Cooldown, Block, Tries} : n \in Nat \ {0}
ASSUME BoundAssumption == MaxQuiet \in Nat /\ MaxChanges \in Nat

VARIABLES world,      \* the config's port, the state of ports, upstreams, workloads
          muted,      \* time until an error counts again
          burst,      \* proxyUnreachableBurst
          triggers,   \* the trigger channels, of length one, that hold a trigger
          pc,         \* the next step of the reconcile goroutine
          port,       \* effectiveCfg.HTTPPort
          built,      \* the routes the pass has built
          current,    \* currentHTTPRoutes
          routes,     \* the routes in the router
          listening,  \* the port the router serves, or None
          lingering,  \* a request outlived the router that accepted it
          resting,    \* time until a reset is allowed again
          action,     \* actionStates of the reset
          tries,      \* attempts to listen that are left
          quiet,      \* history: ticks since an error was counted
          changes     \* changes outside so far

vars == <<world, muted, burst, triggers, pc, port, built, current, routes,
          listening, lingering, resting, action, tries, quiet, changes>>
goroutine == <<pc, port, built, current, routes, listening, action, tries>>

MaxFails == 3   \* failures before the reset is suppressed

(* What listen(2) would say of a port: another process has it, or the daemon may
   not have it (a privileged http_port, no descriptor left). *)
PortState == {"free", "busy", "denied"}
World == [port : Port, ports : [Port -> PortState], reachable : BOOLEAN, want : Routes]

TypeOK ==
  /\ world \in World
  /\ muted \in 0 .. Throttle
  /\ burst \in [left : 0 .. BurstWindow, count : 0 .. BurstLimit, hold : 0 .. Cooldown]
  /\ triggers \subseteq {"pass", "reset"}
  /\ pc \in {"idle", "publish", "stop", "restore", "start"}
  /\ port \in Port
  /\ built \in Routes /\ current \in Routes /\ routes \in Routes
  /\ listening \in Port \cup {None} /\ lingering \in BOOLEAN
  /\ resting \in 0 .. Cooldown
  /\ action \in [fails : 0 .. MaxFails, blocked : 0 .. Block]
  /\ tries \in 0 .. Tries
  /\ quiet \in 0 .. MaxQuiet /\ changes \in 0 .. MaxChanges

Calm == [fails |-> 0, blocked |-> 0]

Init ==
  /\ world \in [port : Port, ports : [Port -> {"free"}], reachable : BOOLEAN, want : Routes]
  /\ muted = 0
  /\ burst = [left |-> 0, count |-> 0, hold |-> 0]
  /\ triggers = {}
  /\ pc = "idle"
  /\ port = world.port
  /\ built = world.want /\ current = world.want /\ routes = world.want
  /\ listening = world.port
  /\ lingering = FALSE
  /\ resting = 0
  /\ action = Calm
  /\ tries = 0
  /\ quiet = 0 /\ changes = 0

-----------------------------------------------------------------------------
(* Outside                                                                 *)

WorldChanges(w) ==
  /\ changes < MaxChanges
  /\ changes' = changes + 1
  /\ world' = w
  /\ UNCHANGED <<muted, burst, triggers, goroutine, lingering, resting, quiet>>

ConfigChanges == \E p \in Port \ {world.port} : WorldChanges([world EXCEPT !.port = p])
UpstreamsChange == WorldChanges([world EXCEPT !.reachable = ~@])
WorkloadsChange == \E r \in Routes \ {world.want} : WorldChanges([world EXCEPT !.want = r])

(* Another process takes a port nobody serves, or gives it up; a port becomes one
   the daemon may not listen on, or may again, whether it serves it or not. *)
PortChanges == \E p \in Port, s \in PortState :
  /\ s # world.ports[p] /\ (s = "busy" => p # listening)
  /\ WorldChanges([world EXCEPT !.ports[p] = s])

Down(n) == IF n = 0 THEN 0 ELSE n - 1

Tick ==
  /\ muted' = Down(muted)
  /\ burst' = [burst EXCEPT !.left = Down(@), !.hold = Down(@)]
  /\ resting' = Down(resting)
  /\ action' = [action EXCEPT !.blocked = Down(@)]
  /\ quiet' = IF quiet < MaxQuiet THEN quiet + 1 ELSE quiet
  /\ UNCHANGED <<world, triggers, pc, port, built, current, routes, listening,
                 lingering, tries, changes>>

(* The ticker, docker events, configs and SIGHUP ask for a pass. *)
AskForPass ==
  /\ "pass" \notin triggers
  /\ triggers' = triggers \cup {"pass"}
  /\ UNCHANGED <<world, muted, burst, goroutine, lingering, resting, quiet, changes>>

-----------------------------------------------------------------------------
(* The proxy error handler                                                 *)

(* detectPersistentProxyUnreachable: the burst with one more error. *)
Counted ==
  IF burst.left = 0 THEN [burst EXCEPT !.left = BurstWindow, !.count = 1]
  ELSE [burst EXCEPT !.count = IF @ < BurstLimit THEN @ + 1 ELSE @]
Escalates == Counted.count = BurstLimit /\ burst.hold = 0

(* Mutation: an escalation that is held back starts the hold again. *)
DetectedHolding ==
  IF Counted.count = BurstLimit THEN [Counted EXCEPT !.count = 0, !.hold = Cooldown]
  ELSE Counted

Detected ==
  IF Escalates THEN [Counted EXCEPT !.count = 0, !.hold = Cooldown] ELSE Counted

(* A request that was accepted finds its upstream unreachable. *)
ProxyError ==
  /\ ~world.reachable
  /\ listening # None \/ lingering
  /\ lingering' \in {lingering, FALSE}
  /\ IF muted > 0 THEN UNCHANGED <<muted, burst, triggers, quiet>>
     ELSE /\ muted' = Throttle
          /\ quiet' = 0
          /\ burst' = Detected
          /\ triggers' = triggers \cup {"pass"} \cup (IF Escalates THEN {"reset"} ELSE {})
  /\ UNCHANGED <<world, goroutine, resting, changes>>

-----------------------------------------------------------------------------
(* The reconcile goroutine                                                 *)

Take(trigger) ==
  /\ pc = "idle"
  /\ trigger \in triggers
  /\ triggers' = triggers \ {trigger}
  /\ UNCHANGED <<world, muted, burst, lingering, quiet, changes>>

(* A pass reloads the config, if it can, and builds unless docker fails. *)
BeginPass ==
  /\ Take("pass")
  /\ port' \in {port, world.port}
  /\ \/ pc' = "publish" /\ built' = world.want
     \/ UNCHANGED <<pc, built>>
  /\ UNCHANGED <<current, routes, listening, resting, action, tries>>

(* Mutation: the routes for a reset are those of startup. *)
PublishRoutesOnly ==
  /\ pc = "publish"
  /\ routes' = built
  /\ pc' = "idle"
  /\ UNCHANGED <<world, muted, burst, triggers, port, built, current, listening,
                 lingering, resting, action, tries, quiet, changes>>

Publish ==
  /\ pc = "publish"
  /\ routes' = built
  /\ current' = built
  /\ pc' = "idle"
  /\ UNCHANGED <<world, muted, burst, triggers, port, built, listening,
                 lingering, resting, action, tries, quiet, changes>>

(* SetRoutes refuses routes one of which has no host name; see Reconcile. *)
Refuse ==
  /\ pc = "publish"
  /\ pc' = "idle"
  /\ UNCHANGED <<world, muted, burst, triggers, port, built, current, routes,
                 listening, lingering, resting, action, tries, quiet, changes>>

(* canAttemptHealAction forgets the failures of a suppression that is over;
   as a mutation, it does not. *)
Suppressed == action.fails >= MaxFails /\ action.blocked > 0
RememberedForEver == action
Remembered == IF action.fails >= MaxFails /\ ~Suppressed THEN Calm ELSE action

BeginReset ==
  /\ Take("reset")
  /\ action' = Remembered
  /\ IF Suppressed \/ resting > 0 THEN UNCHANGED <<pc, resting>>
     ELSE pc' = "stop" /\ resting' = Cooldown
  /\ UNCHANGED <<port, built, current, routes, listening, tries>>

(* markHealFailure: the goroutine goes on, HTTP stays as it is. *)
Fails ==
  /\ pc' = "idle"
  /\ action' = [fails |-> action.fails + 1,
                blocked |-> IF action.fails + 1 < MaxFails THEN 0 ELSE Block]

(* router.Stop closes the listener and every connection; handlers that wait
   for their upstream run on. *)
StopRouter ==
  /\ pc = "stop"
  /\ listening' = None
  /\ lingering' \in {lingering, listening # None}
  /\ pc' = "restore"
  /\ UNCHANGED <<world, muted, burst, triggers, port, built, current, routes,
                 resting, action, tries, quiet, changes>>

(* Closing the listener fails: it is no longer served all the same, but the reset
   ends there. *)
StopFails ==
  /\ pc = "stop"
  /\ listening # None /\ listening' = None
  /\ lingering' \in BOOLEAN
  /\ Fails
  /\ UNCHANGED <<world, muted, burst, triggers, port, built, current, routes,
                 resting, tries, quiet, changes>>

(* The router has taken the routes in current before, so it takes them again. *)
RestoreRoutes ==
  /\ pc = "restore"
  /\ routes' = current
  /\ tries' = Tries
  /\ pc' = "start"
  /\ UNCHANGED <<world, muted, burst, triggers, port, built, current, listening,
                 lingering, resting, action, quiet, changes>>

StartRouter ==
  /\ pc = "start"
  /\ world.ports[port] = "free"
  /\ listening' = port
  /\ action' = Calm
  /\ pc' = "idle"
  /\ tries' = 0
  /\ UNCHANGED <<world, muted, burst, triggers, port, built, current, routes,
                 lingering, resting, quiet, changes>>

(* Mutation: the first address that is in use ends the reset. *)
StartFailsOnce ==
  /\ pc = "start"
  /\ world.ports[port] # "free"
  /\ tries' = 0
  /\ Fails
  /\ UNCHANGED <<world, muted, burst, triggers, port, built, current, routes,
                 listening, lingering, resting, quiet, changes>>

(* While the address is in use there is another try 50 ms later, until the last;
   any other error ends the reset at once. *)
StartFails ==
  /\ pc = "start"
  /\ world.ports[port] # "free"
  /\ IF world.ports[port] = "busy" /\ tries > 1
     THEN tries' = tries - 1 /\ UNCHANGED <<pc, action>>
     ELSE tries' = 0 /\ Fails
  /\ UNCHANGED <<world, muted, burst, triggers, port, built, current, routes,
                 listening, lingering, resting, quiet, changes>>

-----------------------------------------------------------------------------

Step ==
  \/ Publish \/ Refuse
  \/ StopRouter \/ StopFails \/ RestoreRoutes \/ StartRouter \/ StartFails

Next ==
  \/ ConfigChanges \/ UpstreamsChange \/ WorkloadsChange \/ PortChanges
  \/ Tick \/ AskForPass \/ ProxyError
  \/ BeginPass \/ BeginReset \/ Step

Spec == Init /\ [][Next]_vars

(* The clock and the goroutine run, and select takes a ready channel at
   random: neither passes nor resets are put off for ever. *)
FairSpec ==
  /\ Spec
  /\ WF_vars(Tick) /\ WF_vars(Step)
  /\ SF_vars(BeginPass) /\ SF_vars(BeginReset)

-----------------------------------------------------------------------------
(* Properties                                                              *)

(* A reset serves what the last pass published: it neither drops a route nor
   brings back one of before. *)
RoutesKept == routes = current

(* HTTP is served again once every port may be had. *)
HTTPReturns ==
  <>[](\A p \in Port : world.ports[p] = "free") => (listening = None ~> listening # None)

(* A reset that has got as far as the start of the router serves HTTP again, if no
   port it tries is denied and its last try, at the latest, finds the port free:
   a process that holds the port for a moment does not disable the router. *)
HTTPRecovers ==
  /\ [](pc = "start" => world.ports[port] # "denied")
  /\ [](pc = "start" /\ tries = 1 => world.ports[port] = "free")
  => (pc = "start" ~> listening # None)

(* As long as errors keep coming, resets do: neither the hold between two
   escalations nor the rest between two resets puts them off for ever. *)
PersistentResets == <>[](quiet < MaxQuiet) => []<>(pc = "stop")

=============================================================================
