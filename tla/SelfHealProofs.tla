--------------------------- MODULE SelfHealProofs ---------------------------
(***************************************************************************)
(* Safety of self-healing for any routes, ports and time limits.           *)
(***************************************************************************)
EXTENDS SelfHeal, TLAPS

(* A reset begins only with fewer than MaxFails failures behind it, so it can
   add one; while it listens, tries are left. *)
ResetInv ==
  /\ pc \in {"stop", "restore", "start"} => action.fails < MaxFails
  /\ pc = "start" => tries > 0

IInv == TypeOK /\ ResetInv /\ RoutesKept

Bursts == [left : 0 .. BurstWindow, count : 0 .. BurstLimit, hold : 0 .. Cooldown]

LEMMA DownType ==
  ASSUME NEW m \in Nat, NEW n \in 0 .. m
  PROVE  Down(n) \in 0 .. m
<1>1. CASE n = 0
  BY <1>1 DEF Down
<1>2. CASE n # 0
  <2>1. Down(n) = n - 1
    BY <1>2 DEF Down
  <2>2. QED
    BY <1>2, <2>1
<1>3. QED
  BY <1>1, <1>2

LEMMA InitIInv == Init => IInv
<1> SUFFICES ASSUME Init PROVE IInv
  OBVIOUS
<1>1. world \in World /\ world.want \in Routes /\ world.port \in Port
  BY DEF Init, World, PortState
<1>2. 0 \in 0 .. Throttle /\ 0 \in 0 .. Cooldown /\ 0 \in 0 .. Tries
      /\ 0 \in 0 .. MaxQuiet /\ 0 \in 0 .. MaxChanges
  BY TimeAssumption, BoundAssumption
<1>3. burst \in Bursts /\ action \in [fails : 0 .. MaxFails, blocked : 0 .. Block]
  BY TimeAssumption DEF Init, Calm, Bursts, MaxFails
<1>4. TypeOK
  BY <1>1, <1>2, <1>3 DEF Init, TypeOK, Bursts
<1>5. QED
  BY <1>4 DEF Init, IInv, ResetInv, RoutesKept

(* What happens outside the goroutine, other than the clock. *)
LEMMA WorldIInv ==
  ASSUME IInv, NEW w \in World, WorldChanges(w)
  PROVE  IInv'
  BY BoundAssumption
  DEF IInv, TypeOK, ResetInv, RoutesKept, WorldChanges, goroutine

LEMMA OutsideIInv ==
  ASSUME IInv, ConfigChanges \/ UpstreamsChange \/ WorkloadsChange \/ PortChanges
  PROVE  IInv'
<1>0. world \in World
  BY DEF IInv, TypeOK
<1>1. CASE ConfigChanges
  <2>1. PICK p \in Port : WorldChanges([world EXCEPT !.port = p])
    BY <1>1 DEF ConfigChanges
  <2>2. [world EXCEPT !.port = p] \in World
    BY <1>0 DEF World
  <2>3. QED
    BY <2>1, <2>2, WorldIInv
<1>2. CASE UpstreamsChange
  <2>1. [world EXCEPT !.reachable = ~@] \in World
    BY <1>0 DEF World
  <2>2. QED
    BY <1>2, <2>1, WorldIInv DEF UpstreamsChange
<1>3. CASE WorkloadsChange
  <2>1. PICK r \in Routes : WorldChanges([world EXCEPT !.want = r])
    BY <1>3 DEF WorkloadsChange
  <2>2. [world EXCEPT !.want = r] \in World
    BY <1>0 DEF World
  <2>3. QED
    BY <2>1, <2>2, WorldIInv
<1>4. CASE PortChanges
  <2>1. PICK p \in Port, s \in PortState : WorldChanges([world EXCEPT !.ports[p] = s])
    BY <1>4 DEF PortChanges
  <2>2. [world EXCEPT !.ports[p] = s] \in World
    BY <1>0 DEF World
  <2>3. QED
    BY <2>1, <2>2, WorldIInv
<1>5. QED
  BY <1>1, <1>2, <1>3, <1>4

LEMMA ClockIInv ==
  ASSUME IInv, Tick \/ AskForPass
  PROVE  IInv'
<1>1. CASE Tick
  <2>1. muted' \in 0 .. Throttle /\ resting' \in 0 .. Cooldown
    BY <1>1, TimeAssumption, DownType DEF Tick, IInv, TypeOK
  <2>2. burst' \in Bursts
    <3>1. Down(burst.left) \in 0 .. BurstWindow /\ Down(burst.hold) \in 0 .. Cooldown
      BY TimeAssumption, DownType DEF IInv, TypeOK
    <3>2. QED
      BY <1>1, <3>1 DEF Tick, IInv, TypeOK, Bursts
  <2>3. /\ action' \in [fails : 0 .. MaxFails, blocked : 0 .. Block]
        /\ action'.fails = action.fails
    <3>1. Down(action.blocked) \in 0 .. Block
      BY TimeAssumption, DownType DEF IInv, TypeOK
    <3>2. QED
      BY <1>1, <3>1 DEF Tick, IInv, TypeOK
  <2>4. quiet' \in 0 .. MaxQuiet
    BY <1>1, BoundAssumption DEF Tick, IInv, TypeOK
  <2>5. QED
    BY <1>1, <2>1, <2>2, <2>3, <2>4 DEF Tick, Bursts, IInv, TypeOK, ResetInv, RoutesKept
<1>2. CASE AskForPass
  BY <1>2 DEF AskForPass, goroutine, IInv, TypeOK, ResetInv, RoutesKept
<1>3. QED
  BY <1>1, <1>2

(* The burst never counts more than BurstLimit errors. *)
LEMMA DetectedType ==
  ASSUME TypeOK
  PROVE  Detected \in Bursts
<1>0. burst \in Bursts
  BY DEF TypeOK, Bursts
<1>1. Counted \in Bursts
  <2>1. CASE burst.left = 0
    <3>1. BurstWindow \in 0 .. BurstWindow /\ 1 \in 0 .. BurstLimit
      BY TimeAssumption
    <3>2. QED
      BY <1>0, <2>1, <3>1 DEF Counted, Bursts
  <2>2. CASE burst.left # 0
    <3>1. (IF burst.count < BurstLimit THEN burst.count + 1 ELSE burst.count) \in 0 .. BurstLimit
      BY <1>0, TimeAssumption DEF Bursts
    <3>2. QED
      BY <1>0, <2>2, <3>1 DEF Counted, Bursts
  <2>3. QED
    BY <2>1, <2>2
<1>2. 0 \in 0 .. BurstLimit /\ Cooldown \in 0 .. Cooldown
  BY TimeAssumption
<1>3. QED
  BY <1>1, <1>2 DEF Detected, Bursts

LEMMA ErrorIInv ==
  ASSUME IInv, ProxyError
  PROVE  IInv'
<1>1. muted' \in 0 .. Throttle /\ quiet' \in 0 .. MaxQuiet
  BY TimeAssumption, BoundAssumption DEF ProxyError, IInv, TypeOK
<1>2. burst' \in Bursts
  BY DetectedType DEF ProxyError, IInv, TypeOK, Bursts
<1>3. triggers' \subseteq {"pass", "reset"} /\ lingering' \in BOOLEAN
  BY DEF ProxyError, IInv, TypeOK
<1>4. QED
  BY <1>1, <1>2, <1>3 DEF ProxyError, goroutine, Bursts, IInv, TypeOK, ResetInv, RoutesKept

LEMMA BeginIInv ==
  ASSUME IInv, BeginPass \/ BeginReset
  PROVE  IInv'
<1>1. CASE BeginPass
  <2>1. port' \in Port /\ built' \in Routes
    BY <1>1 DEF BeginPass, IInv, TypeOK, World
  <2>2. pc' \in {"idle", "publish"}
    BY <1>1 DEF BeginPass, Take
  <2>3. QED
    BY <1>1, <2>1, <2>2 DEF BeginPass, Take, IInv, TypeOK, ResetInv, RoutesKept
<1>2. CASE BeginReset
  <2>1. action' \in [fails : 0 .. MaxFails, blocked : 0 .. Block]
    BY <1>2, TimeAssumption DEF BeginReset, Remembered, Calm, MaxFails, IInv, TypeOK
  <2>2. \/ pc' = "idle" /\ resting' = resting
        \/ pc' = "stop" /\ resting' = Cooldown /\ action'.fails < MaxFails
    BY <1>2 DEF BeginReset, Take, Suppressed, Remembered, Calm, MaxFails, IInv, TypeOK
  <2>3. resting' \in 0 .. Cooldown
    BY <2>2, TimeAssumption DEF IInv, TypeOK
  <2>4. QED
    BY <1>2, <2>1, <2>2, <2>3 DEF BeginReset, Take, IInv, TypeOK, ResetInv, RoutesKept
<1>3. QED
  BY <1>1, <1>2

(* One more failure is within the limit, as a reset begins below it. *)
LEMMA FailsType ==
  ASSUME TypeOK, action.fails < MaxFails, Fails
  PROVE  pc' = "idle" /\ action' \in [fails : 0 .. MaxFails, blocked : 0 .. Block]
<1>1. /\ action.fails + 1 \in 0 .. MaxFails
      /\ (IF action.fails + 1 < MaxFails THEN 0 ELSE Block) \in 0 .. Block
  BY TimeAssumption DEF TypeOK, MaxFails
<1>2. QED
  BY <1>1 DEF Fails

LEMMA StepIInv ==
  ASSUME IInv, Step
  PROVE  IInv'
<1> USE DEF IInv, TypeOK, ResetInv, RoutesKept
<1>1. CASE Publish
  BY <1>1 DEF Publish
<1>2. CASE StopRouter
  BY <1>2 DEF StopRouter
<1>3. CASE RestoreRoutes
  BY <1>3, TimeAssumption DEF RestoreRoutes
<1>4. CASE StartRouter
  BY <1>4, TimeAssumption DEF StartRouter, Calm, MaxFails
<1>5. CASE StartFails
  <2>1. tries' \in 0 .. Tries
    BY <1>5, TimeAssumption DEF StartFails
  <2>2. \/ pc' = "start" /\ action' = action /\ tries' > 0
        \/ pc' = "idle" /\ action' \in [fails : 0 .. MaxFails, blocked : 0 .. Block]
    BY <1>5, FailsType DEF StartFails
  <2>3. QED
    BY <1>5, <2>1, <2>2 DEF StartFails
<1>6. CASE StopFails
  <2>1. pc' = "idle" /\ action' \in [fails : 0 .. MaxFails, blocked : 0 .. Block]
    BY <1>6, FailsType DEF StopFails
  <2>2. QED
    BY <1>6, <2>1 DEF StopFails
<1>7. CASE Refuse
  BY <1>7 DEF Refuse
<1>8. QED
  BY <1>1, <1>2, <1>3, <1>4, <1>5, <1>6, <1>7 DEF Step

(* The inductive invariant of self-healing. *)
THEOREM Invariance == Spec => []IInv
<1>1. IInv /\ [Next]_vars => IInv'
  <2> SUFFICES ASSUME IInv, [Next]_vars PROVE IInv'
    OBVIOUS
  <2>1. CASE UNCHANGED vars
    BY <2>1 DEF vars, IInv, TypeOK, ResetInv, RoutesKept
  <2>2. QED
    BY <2>1, OutsideIInv, ClockIInv, ErrorIInv, BeginIInv, StepIInv DEF Next
<1>2. QED
  BY <1>1, InitIInv, PTL DEF Spec

(* Every variable keeps its type; in particular a reset never fails more than
   MaxFails times without being suppressed and forgotten. *)
THEOREM TypeCorrect == Spec => []TypeOK
<1>1. IInv => TypeOK
  BY DEF IInv
<1>2. QED
  BY <1>1, Invariance, PTL

(* A reset serves the routes of the last pass. *)
THEOREM ResetKeepsRoutes == Spec => []RoutesKept
<1>1. IInv => RoutesKept
  BY DEF IInv
<1>2. QED
  BY <1>1, Invariance, PTL

=============================================================================
