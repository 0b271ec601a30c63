---------------------------- MODULE PostureProofs ---------------------------
(***************************************************************************)
(* Proofs about module Posture, for any set of switches and operators.     *)
(* The invariants of the mode file hold because every posture a process    *)
(* may still write satisfies them too, so the inductive invariants speak   *)
(* of the postures in flight (call[p].next) as well as of the file.        *)
(***************************************************************************)
EXTENDS Posture, FiniteSetTheorems, WellFoundedInduction, TLAPS

InFlight(p) == call[p].pc # "idle"

(* Every posture that is in the file, or may yet be written to it.         *)
LeasedInv ==
  /\ file \in PostureFiles => Leased(file)
  /\ \A p \in Processes : InFlight(p) => Leased(call[p].next)

Within(posture, bound) ==
  \A a \in Axes : posture.expires[a] # NoEntry => posture.expires[a] <= bound[a]

Reach == [a \in Axes |-> real + MaxSkew + MaxTTL]

-----------------------------------------------------------------------------
(* The operators on postures.                                              *)

LEMMA DefaultType == Default \in Modes /\ AtRest \in PostureFiles
  BY DefaultAssumption DEF Modes, AtRest, PostureFiles, Entries

LEMMA IdleType ==
  /\ NoCall \in [pc : CallStates, base : Modes, next : PostureFiles]
  /\ NoTick \in [pc : TickStates, stored : Modes, live : Modes, settle : SUBSET Axes, mode : Modes]
  BY DefaultType DEF NoCall, NoTick, CallStates, TickStates

LEMMA LoadType ==
  ASSUME TypeOK PROVE Load \in PostureFiles /\ (Load = AtRest \/ (file \in PostureFiles /\ Load = file))
  BY DefaultType DEF Load, TypeOK

LEMMA LiveType ==
  ASSUME NEW s \in PostureFiles PROVE Live(s) \in PostureFiles
  BY DefaultAssumption DEF Live, PostureFiles, Modes, Entries

LEMMA UpdatesType ==
  ASSUME NEW u \in Updates
  PROVE DOMAIN u \subseteq Axes /\ \A a \in DOMAIN u : u[a] \in Rungs /\ u[a] \in Levels[a]
  BY DEF Updates

LEMMA ApplyType ==
  ASSUME NEW s \in PostureFiles, NEW u, NEW e \in Nat,
         \A a \in DOMAIN u : u[a] \in Rungs /\ u[a] \in Levels[a]
  PROVE Apply(s, u, e) \in PostureFiles
  BY DEF Apply, PostureFiles, Modes, Entries

-----------------------------------------------------------------------------
(* Type correctness.                                                       *)

LEMMA BeginType ==
  ASSUME TypeOK, NEW p \in Processes, NEW u, NEW ttl \in Nat, NEW force \in BOOLEAN,
         \A a \in DOMAIN u : u[a] \in Rungs /\ u[a] \in Levels[a],
         Begin(p, u, ttl, force)
  PROVE call' \in [Processes -> [pc : CallStates, base : Modes, next : PostureFiles]]
<1>1. Live(Load) \in PostureFiles
  BY LoadType, LiveType
<1>2. Now + ttl \in Nat
  BY BoundsAssumption DEF TypeOK, Now
<1>3. Apply(Live(Load), u, Now + ttl) \in PostureFiles
  BY <1>1, <1>2, ApplyType
<1>4. Live(Load).mode \in Modes
  BY <1>1 DEF PostureFiles
<1> QED
  BY <1>3, <1>4 DEF TypeOK, Begin, CallStates

LEMMA SettleType ==
  ASSUME NEW live \in Modes PROVE SettleFlips(Requires, live) \subseteq Axes
  BY DEF SettleFlips

LEMMA MishapCounted ==
  ASSUME TypeOK, Mishap PROVE mishaps' \in 0..MaxMishaps
  BY BoundsAssumption DEF Mishap, TypeOK

LEMMA TypeStep ==
  ASSUME TypeOK, [Next]_vars PROVE TypeOK'
<1> USE BoundsAssumption
<1>1. ASSUME NEW p \in Operators, NEW u \in Updates, NEW ttl \in TTLs, SetMode(p, u, ttl)
      PROVE TypeOK'
  <2>1. ttl \in Nat /\ p \in Processes
    BY TTLAssumption DEF Processes
  <2>2. Begin(p, u, ttl, FALSE)
    BY <1>1 DEF SetMode
  <2>3. call' \in [Processes -> [pc : CallStates, base : Modes, next : PostureFiles]]
    BY <2>1, <2>2, UpdatesType, BeginType
  <2>4. granted' \in [Axes -> Nat]
    BY <1>1, <2>1 DEF SetMode, TypeOK, Now
  <2>5. calls' \in 0..MaxCalls
    BY <1>1 DEF SetMode, TypeOK
  <2> QED
    BY <1>1, <2>3, <2>4, <2>5 DEF SetMode, TypeOK
<1>2. ASSUME NEW p \in Processes, CallStep(p) PROVE TypeOK'
  <2>1. CASE Truncate(p)
    BY <2>1 DEF Truncate, Advance, TypeOK, CallStates
  <2>2. CASE Write(p)
    BY <2>2 DEF Write, Advance, TypeOK, CallStates
  <2>3. CASE Refresh(p)
    BY <2>3 DEF Refresh, Advance, TypeOK, CallStates
  <2>4. CASE Finish(p)
    BY <2>4, IdleType DEF Finish, TypeOK
  <2> QED
    BY <1>2, <2>1, <2>2, <2>3, <2>4 DEF CallStep
<1>3. ASSUME TickStep PROVE TypeOK'
  <2>1. CASE ReadStored
    <3>1. Load.mode \in Modes
      BY LoadType DEF PostureFiles
    <3> QED
      BY <2>1, <3>1 DEF ReadStored, TypeOK, TickStates
  <2>2. CASE ReadLive
    <3>1. Live(Load).mode \in Modes
      BY LoadType, LiveType DEF PostureFiles
    <3> DEFINE live   == Live(Load).mode
               flips  == {a \in Axes : tick.stored[a] # live[a]}
               settle == IF flips = {} THEN {} ELSE SettleFlips(Requires, live)
               mode   == [a \in Axes |-> IF a \in settle THEN Default[a] ELSE live[a]]
    <3>2. flips \cup settle \in SUBSET Axes
      BY <3>1, SettleType
    <3>3. mode \in Modes
      BY <3>1, DefaultType DEF Modes
    <3>4. tick' = [pc |-> IF flips = {} THEN "mirror" ELSE "expire", stored |-> tick.stored,
                   live |-> live, settle |-> flips \cup settle, mode |-> mode]
      BY <2>2 DEF ReadLive
    <3>5. tick.stored \in Modes
      BY DEF TypeOK
    <3> HIDE DEF live, flips, settle, mode
    <3>6. tick' \in [pc : TickStates, stored : Modes, live : Modes, settle : SUBSET Axes, mode : Modes]
      BY <3>1, <3>2, <3>3, <3>4, <3>5 DEF TickStates, live
    <3>7. UNCHANGED <<real, skew, file, mirror, boxUp, call, served, granted, calls, mishaps>>
      BY <2>2 DEF ReadLive
    <3> QED
      BY <3>6, <3>7 DEF TypeOK
  <2>3. CASE Expire
    <3>1. Supervisor \in Processes
      BY DEF Processes
    <3> DEFINE u == [a \in tick.settle |-> Default[a]]
    <3>2. \A a \in DOMAIN u : u[a] \in Rungs /\ u[a] \in Levels[a]
      BY DefaultType DEF TypeOK, Modes
    <3>3. Begin(Supervisor, u, 0, TRUE)
      BY <2>3 DEF Expire
    <3> HIDE DEF u
    <3>4. call' \in [Processes -> [pc : CallStates, base : Modes, next : PostureFiles]]
      BY <3>1, <3>2, <3>3, BeginType
    <3> QED
      BY <2>3, <3>4 DEF Expire, TypeOK, TickStates
  <2>4. CASE Expired
    BY <2>4 DEF Expired, TypeOK, TickStates
  <2>5. CASE MirrorTick
    <3>1. [mode |-> tick.mode, expires |-> Live(Load).expires] \in PostureFiles
      BY LoadType, LiveType DEF TypeOK, PostureFiles
    <3> QED
      BY <2>5, <3>1 DEF MirrorTick, TypeOK, TickStates
  <2>6. CASE Serve
    BY <2>6, IdleType DEF Serve, TypeOK
  <2> QED
    BY <1>3, <2>1, <2>2, <2>3, <2>4, <2>5, <2>6 DEF TickStep
<1>4. ASSUME World PROVE TypeOK'
  <2>1. CASE Pass
    BY <2>1 DEF Pass, TypeOK
  <2>2. CASE FastForward
    BY <2>2, MishapCounted DEF FastForward, TypeOK
  <2>3. CASE ClockReset
    BY <2>3 DEF ClockReset, TypeOK
  <2>4. CASE BoxToggle
    <3>1. mishaps' \in 0..MaxMishaps /\ boxUp' \in BOOLEAN
      BY <2>4, MishapCounted, Zenon DEF BoxToggle, TypeOK
    <3> QED
      BY <2>4, <3>1, Zenon DEF BoxToggle, TypeOK
  <2> QED
    BY <1>4, <2>1, <2>2, <2>3, <2>4 DEF World
<1>5. ASSUME NEW p \in Operators, KillOperator(p) PROVE TypeOK'
  <2>1. mishaps' \in 0..MaxMishaps
    BY <1>5, MishapCounted DEF KillOperator
  <2>2. call' \in [Processes -> [pc : CallStates, base : Modes, next : PostureFiles]]
    BY <1>5, IdleType DEF KillOperator, TypeOK
  <2> QED
    BY <1>5, <2>1, <2>2 DEF KillOperator, TypeOK
<1>6. ASSUME KillSupervisor PROVE TypeOK'
  <2>1. mishaps' \in 0..MaxMishaps
    BY <1>6, MishapCounted DEF KillSupervisor
  <2>2. call' \in [Processes -> [pc : CallStates, base : Modes, next : PostureFiles]]
    BY <1>6, IdleType DEF KillSupervisor, TypeOK
  <2> QED
    BY <1>6, <2>1, <2>2, IdleType DEF KillSupervisor, TypeOK
<1>7. ASSUME UNCHANGED vars PROVE TypeOK'
  BY <1>7, Zenon DEF vars, TypeOK
<1> QED
  BY <1>1, <1>2, <1>3, <1>4, <1>5, <1>6, <1>7 DEF Next

(* Every state the modelled processes can reach is well-typed: no torn     *)
(* file, stale copy or cascade produces a switch at a level it does not    *)
(* have.                                                                   *)
THEOREM TypeCorrect == Spec => []TypeOK
<1>1. Init => TypeOK
  BY DefaultType, IdleType, BoundsAssumption DEF Init, TypeOK
<1>2. TypeOK /\ [Next]_vars => TypeOK'
  BY TypeStep
<1> QED
  BY <1>1, <1>2, PTL DEF Spec
-----------------------------------------------------------------------------
(* What one set_mode call puts in flight.                                  *)

Posed(u, e) == Apply(Live(Load), u, e)

LEMMA BeginNext ==
  ASSUME TypeOK, NEW p \in Processes, NEW u, NEW ttl, NEW force, Begin(p, u, ttl, force)
  PROVE /\ call'[p].next = Posed(u, Now + ttl)
        /\ \A q \in Processes \ {p} : call'[q] = call[q]
  BY DEF Begin, TypeOK, Posed

LEMMA CallStepNext ==
  ASSUME TypeOK, NEW p \in Processes, CallStep(p)
  PROVE /\ \A q \in Processes : call'[q].pc # "idle" => InFlight(q) /\ call'[q].next = call[q].next
        /\ file' \in {file, Empty, Garbage} \/ (InFlight(p) /\ file' = call[p].next)
<1>1. CASE Truncate(p)
  BY <1>1 DEF Truncate, Advance, TypeOK, InFlight
<1>2. CASE Write(p)
  BY <1>2 DEF Write, Advance, TypeOK, InFlight
<1>3. CASE Refresh(p)
  BY <1>3 DEF Refresh, Advance, TypeOK, InFlight
<1>4. CASE Finish(p)
  BY <1>4 DEF Finish, NoCall, TypeOK, InFlight
<1> QED
  BY <1>1, <1>2, <1>3, <1>4 DEF CallStep

(* Steps that begin no call and write nothing leave the postures alone.    *)
Quiet ==
  /\ file' = file
  /\ \A q \in Processes : call'[q].pc # "idle" => InFlight(q) /\ call'[q].next = call[q].next

LEMMA QuietStep ==
  ASSUME TypeOK,
         \/ World \/ KillSupervisor \/ UNCHANGED vars
         \/ TickStep /\ ~Expire
         \/ \E p \in Operators : KillOperator(p)
  PROVE Quiet
<1>1. CASE World
  BY <1>1 DEF World, Pass, FastForward, ClockReset, BoxToggle, Quiet, InFlight
<1>2. CASE KillSupervisor
  BY <1>2 DEF KillSupervisor, NoCall, Quiet, InFlight, TypeOK
<1>3. CASE UNCHANGED vars
  BY <1>3 DEF vars, Quiet, InFlight
<1>4. CASE TickStep /\ ~Expire
  <2>1. call' = call /\ file' = file
    BY <1>4 DEF TickStep, ReadStored, ReadLive, Expired, MirrorTick, Serve
  <2> QED
    BY <2>1 DEF Quiet, InFlight
<1>5. ASSUME NEW p \in Operators, KillOperator(p) PROVE Quiet
  BY <1>5 DEF KillOperator, NoCall, Quiet, InFlight, TypeOK
<1> QED
  BY <1>1, <1>2, <1>3, <1>4, <1>5

-----------------------------------------------------------------------------
(* Emergency levels and their entries.                                     *)

LEMMA LeasedApply ==
  ASSUME NEW s \in PostureFiles, Leased(s), NEW u, NEW e \in Nat
  PROVE Leased(Apply(Live(s), u, e))
  BY EmergencyAssumption, DefaultAssumption, NoEntryAssumption
  DEF Leased, Apply, Live, PostureFiles, Modes, Entries

LEMMA LeasedLoad ==
  ASSUME TypeOK, file \in PostureFiles => Leased(file) PROVE Load \in PostureFiles /\ Leased(Load)
<1>1. Leased(AtRest)
  BY EmergencyAssumption, DefaultAssumption DEF Leased, AtRest
<1> QED
  BY <1>1, LoadType

LEMMA LeasedStep ==
  ASSUME TypeOK, LeasedInv, [Next]_vars PROVE LeasedInv'
<1> USE DEF LeasedInv
<1>1. ASSUME NEW p \in Processes, NEW u, NEW ttl \in Nat, NEW force \in BOOLEAN,
             Begin(p, u, ttl, force), file' = file
      PROVE LeasedInv'
  <2>1. Now + ttl \in Nat
    BY BoundsAssumption DEF TypeOK, Now
  <2>2. Leased(Posed(u, Now + ttl))
    BY <2>1, LeasedLoad, LeasedApply DEF Posed
  <2>3. Leased(call'[p].next)
    BY <1>1, <2>2, BeginNext
  <2>4. \A q \in Processes \ {p} : call'[q] = call[q]
    BY <1>1, BeginNext
  <2> QED
    BY <1>1, <2>3, <2>4 DEF InFlight, Leased
<1>2. ASSUME NEW p \in Operators, NEW u \in Updates, NEW ttl \in TTLs, SetMode(p, u, ttl)
      PROVE LeasedInv'
  <2>1. Begin(p, u, ttl, FALSE) /\ file' = file
    BY <1>2 DEF SetMode
  <2>2. p \in Processes /\ ttl \in Nat
    BY TTLAssumption DEF Processes
  <2> QED
    BY <1>1, <2>1, <2>2
<1>3. CASE Expire
  <2>1. Supervisor \in Processes /\ file' = file
        /\ Begin(Supervisor, [a \in tick.settle |-> Default[a]], 0, TRUE)
    BY <1>3 DEF Processes, Expire
  <2> QED
    BY <1>1, <2>1
<1>4. ASSUME NEW p \in Processes, CallStep(p) PROVE LeasedInv'
  BY <1>4, CallStepNext, ContentAssumption DEF InFlight, Leased
<1>5. CASE Quiet
  BY <1>5 DEF Quiet, InFlight, Leased
<1> QED
  BY <1>2, <1>3, <1>4, <1>5, QuietStep DEF Next, TickStep

(* No interleaving of commands, expiries, torn writes and mishaps leaves an  *)
(* emergency level in the file without a TTL (devmode.set_mode).           *)
THEOREM EmergencyAlwaysLeased == Spec => []EmergencyLeased
<1>1. Init => LeasedInv
  BY ContentAssumption DEF Init, LeasedInv, NoCall, InFlight
<1>2. TypeOK /\ LeasedInv /\ [Next]_vars => LeasedInv'
  BY LeasedStep
<1>3. TypeOK /\ LeasedInv => EmergencyLeased
  BY LeasedLoad DEF LeasedInv, EmergencyLeased
<1> QED
  BY <1>1, <1>2, <1>3, TypeCorrect, PTL DEF Spec

-----------------------------------------------------------------------------
(* Bounds on the entries: a bound is a number for every switch.            *)

Bounds == [Axes -> Int]
Above(bound, higher) == \A a \in Axes : bound[a] <= higher[a]

WithinInv(bound) ==
  /\ file \in PostureFiles => Within(file, bound)
  /\ \A p \in Processes : InFlight(p) => Within(call[p].next, bound)

LEMMA WithinRises ==
  ASSUME NEW s \in PostureFiles, NEW b \in Bounds, NEW c \in Bounds, Within(s, b), Above(b, c)
  PROVE Within(s, c)
<1>1. ASSUME NEW a \in Axes, s.expires[a] # NoEntry PROVE s.expires[a] <= c[a]
  <2>1. s.expires[a] \in Nat /\ b[a] \in Int /\ c[a] \in Int
    BY <1>1 DEF PostureFiles, Entries, Bounds
  <2>2. s.expires[a] <= b[a] /\ b[a] <= c[a]
    BY <1>1 DEF Within, Above
  <2> QED
    BY <2>1, <2>2
<1> QED
  BY <1>1 DEF Within

LEMMA WithinApply ==
  ASSUME NEW s \in PostureFiles, NEW b \in Bounds, Within(s, b), NEW u, NEW e \in Nat,
         \A a \in Axes : a \in DOMAIN u /\ u[a] \in Emergency[a] => e <= b[a]
  PROVE Within(Apply(Live(s), u, e), b)
  BY DEF Within, Apply, Live, PostureFiles, Modes, Entries

LEMMA WithinLoad ==
  ASSUME TypeOK, NEW b, file \in PostureFiles => Within(file, b)
  PROVE Load \in PostureFiles /\ Within(Load, b)
<1>1. Within(AtRest, b)
  BY DEF Within, AtRest
<1> QED
  BY <1>1, LoadType

(* A call begins: what it puts in flight is within the risen bound if the  *)
(* entry it grants is.                                                     *)
LEMMA WithinBegin ==
  ASSUME TypeOK, NEW b \in Bounds, NEW c \in Bounds, Above(b, c), WithinInv(b),
         NEW p \in Processes, NEW u, NEW ttl \in Nat, NEW force \in BOOLEAN,
         Begin(p, u, ttl, force), file' = file,
         \A a \in Axes : a \in DOMAIN u /\ u[a] \in Emergency[a] => Now + ttl <= c[a]
  PROVE /\ file' \in PostureFiles => Within(file', c)
        /\ \A q \in Processes : call'[q].pc # "idle" => Within(call'[q].next, c)
<1>1. Now + ttl \in Nat
  BY BoundsAssumption DEF TypeOK, Now
<1>2. Load \in PostureFiles /\ Within(Load, b)
  BY WithinLoad DEF WithinInv
<1>3. Within(Load, c)
  BY <1>2, WithinRises
<1>4. Within(Posed(u, Now + ttl), c)
  BY <1>1, <1>2, <1>3, WithinApply DEF Posed
<1>5. Within(call'[p].next, c)
  BY <1>4, BeginNext
<1>6. ASSUME NEW q \in Processes \ {p}, call'[q].pc # "idle" PROVE Within(call'[q].next, c)
  <2>1. call'[q] = call[q] /\ call[q].next \in PostureFiles
    BY BeginNext DEF TypeOK
  <2>2. Within(call[q].next, b)
    BY <1>6, <2>1 DEF WithinInv, InFlight
  <2> QED
    BY <2>1, <2>2, WithinRises
<1>7. file' \in PostureFiles => Within(file', c)
  BY WithinRises DEF WithinInv
<1> QED
  BY <1>5, <1>6, <1>7

(* Every other step.                                                       *)
LEMMA WithinOther ==
  ASSUME TypeOK, NEW b \in Bounds, NEW c \in Bounds, Above(b, c), WithinInv(b),
         Quiet \/ \E p \in Processes : CallStep(p)
  PROVE /\ file' \in PostureFiles => Within(file', c)
        /\ \A q \in Processes : call'[q].pc # "idle" => Within(call'[q].next, c)
<1>1. \A q \in Processes : call'[q].pc # "idle" => InFlight(q) /\ call'[q].next = call[q].next
  BY CallStepNext DEF Quiet
<1>2. file' \in {file, Empty, Garbage} \/ \E p \in Processes : InFlight(p) /\ file' = call[p].next
  BY CallStepNext DEF Quiet
<1>3. \A q \in Processes : InFlight(q) => call[q].next \in PostureFiles /\ Within(call[q].next, c)
  BY WithinRises DEF TypeOK, WithinInv
<1>4. file \in PostureFiles => Within(file, c)
  BY WithinRises DEF WithinInv
<1> QED
  BY <1>1, <1>2, <1>3, <1>4, ContentAssumption

LEMMA SumRises ==
  ASSUME NEW r1 \in Nat, NEW r2 \in Nat, r1 <= r2, NEW s \in Nat, NEW t \in Nat
  PROVE r1 + s + t \in Int /\ r2 + s + t \in Int /\ r1 + s + t <= r2 + s + t
  OBVIOUS

LEMMA SumBounded ==
  ASSUME NEW r1 \in Nat, NEW r2 \in Nat, r1 <= r2, NEW s1 \in Nat, NEW s2 \in Nat, s1 <= s2,
         NEW t2 \in Nat, NEW t1 \in 0..t2
  PROVE r1 + s1 + t1 <= r2 + s2 + t2
  OBVIOUS

(* The clock bound: real time never goes back.                             *)
LEMMA ReachStep ==
  ASSUME TypeOK, WithinInv(Reach), [Next]_vars PROVE WithinInv(Reach)'
<1>1. real' \in Nat /\ real <= real'
  <2>1. real \in Nat
    BY DEF TypeOK
  <2>2. ASSUME NEW p \in Processes, CallStep(p) PROVE real' = real
    BY <2>2 DEF CallStep, Truncate, Write, Refresh, Finish
  <2>3. TickStep => real' = real
    BY DEF TickStep, ReadStored, ReadLive, Expire, Expired, MirrorTick, Serve
  <2>4. World => real' = real \/ real' = real + 1
    BY DEF World, Pass, FastForward, ClockReset, BoxToggle
  <2>5. (\E p \in Operators, u \in Updates, ttl \in TTLs : SetMode(p, u, ttl)) => real' = real
    BY DEF SetMode
  <2>6. (\E p \in Operators : KillOperator(p)) \/ KillSupervisor => real' = real
    BY DEF KillOperator, KillSupervisor
  <2>7. real' = real \/ real' = real + 1
    BY <2>2, <2>3, <2>4, <2>5, <2>6 DEF Next, vars
  <2> QED
    BY <2>1, <2>7
<1>2. Reach \in Bounds /\ Reach' \in Bounds /\ Above(Reach, Reach')
  <2>1. MaxTTL \in Nat
    BY TTLAssumption
  <2>2. MaxSkew \in Nat /\ real \in Nat
    BY BoundsAssumption DEF TypeOK
  <2>3. /\ real + MaxSkew + MaxTTL \in Int
        /\ real' + MaxSkew + MaxTTL \in Int
        /\ real + MaxSkew + MaxTTL <= real' + MaxSkew + MaxTTL
    BY <1>1, <2>1, <2>2, SumRises
  <2> QED
    BY <2>3 DEF Reach, Bounds, Above
<1>3. ASSUME NEW ttl \in 0..MaxTTL PROVE \A a \in Axes : Now + ttl <= Reach'[a]
  <2>1. MaxTTL \in Nat
    BY TTLAssumption
  <2>2. MaxSkew \in Nat /\ real \in Nat /\ skew \in Nat /\ skew <= MaxSkew
    BY BoundsAssumption DEF TypeOK
  <2>3. real + skew + ttl <= real' + MaxSkew + MaxTTL
    BY <1>1, <2>1, <2>2, SumBounded
  <2> QED
    BY <2>3 DEF Now, Reach
<1>4. ASSUME NEW p \in Operators, NEW u \in Updates, NEW ttl \in TTLs, SetMode(p, u, ttl)
      PROVE WithinInv(Reach)'
  <2>1. Begin(p, u, ttl, FALSE) /\ file' = file
    BY <1>4 DEF SetMode
  <2>2. p \in Processes /\ ttl \in Nat /\ ttl \in 0..MaxTTL
    BY TTLAssumption DEF Processes
  <2> QED
    BY <1>2, <1>3, <2>1, <2>2, WithinBegin DEF WithinInv, InFlight, Within
<1>5. CASE Expire
  <2>1. Supervisor \in Processes /\ file' = file
        /\ Begin(Supervisor, [a \in tick.settle |-> Default[a]], 0, TRUE)
    BY <1>5 DEF Processes, Expire
  <2>2. 0 \in 0..MaxTTL
    BY TTLAssumption
  <2> QED
    BY <1>2, <1>3, <2>1, <2>2, WithinBegin DEF WithinInv, InFlight, Within
<1>6. CASE Quiet \/ \E p \in Processes : CallStep(p)
  BY <1>2, <1>6, WithinOther DEF WithinInv, InFlight, Within
<1> QED
  BY <1>4, <1>5, <1>6, QuietStep DEF Next, TickStep

(* However the test clock is moved, no lease in the file lies more than a  *)
(* full TTL and the largest skew ahead of real time (parse_ttl's clamp).   *)
THEOREM LeasesWithinReach == Spec => []LeaseWithinReach
<1>1. Init => WithinInv(Reach)
  BY ContentAssumption DEF Init, WithinInv, NoCall, InFlight
<1>2. TypeOK /\ WithinInv(Reach) /\ [Next]_vars => WithinInv(Reach)'
  BY ReachStep
<1>3. TypeOK /\ WithinInv(Reach) => LeaseWithinReach
  <2> SUFFICES ASSUME TypeOK, WithinInv(Reach) PROVE LeaseWithinReach
    OBVIOUS
  <2>1. Within(Load, Reach)
    BY WithinLoad DEF WithinInv
  <2> QED
    BY <2>1 DEF Within, Reach, LeaseWithinReach
<1> QED
  BY <1>1, <1>2, <1>3, TypeCorrect, PTL DEF Spec

-----------------------------------------------------------------------------
(* The grant bound: only an operator's command raises it, and the command  *)
(* that does is the one that puts the later entry in flight.               *)
LEMMA GrantStep ==
  ASSUME TypeOK, WithinInv(granted), [Next]_vars PROVE WithinInv(granted)'
<1>2. ASSUME NEW p \in Operators, NEW u \in Updates, NEW ttl \in TTLs, SetMode(p, u, ttl)
      PROVE WithinInv(granted)'
  <2>1. Begin(p, u, ttl, FALSE) /\ file' = file
    BY <1>2 DEF SetMode
  <2>2. p \in Processes /\ ttl \in Nat
    BY TTLAssumption DEF Processes
  <2>3. Now + ttl \in Nat
    BY <2>2, BoundsAssumption DEF TypeOK, Now
  <2>4. granted \in Bounds /\ granted' \in Bounds /\ Above(granted, granted')
    BY <1>2, <2>3 DEF SetMode, TypeOK, Bounds, Above
  <2>5. \A a \in Axes : a \in DOMAIN u /\ u[a] \in Emergency[a] => Now + ttl <= granted'[a]
    BY <1>2, <2>3 DEF SetMode, TypeOK
  <2> QED
    BY <2>1, <2>2, <2>4, <2>5, WithinBegin DEF WithinInv, InFlight, Within
<1>3. ASSUME granted' = granted PROVE granted \in Bounds /\ granted' \in Bounds /\ Above(granted, granted')
  BY <1>3 DEF TypeOK, Bounds, Above
<1>4. CASE Expire
  <2>1. Supervisor \in Processes /\ file' = file /\ granted' = granted
        /\ Begin(Supervisor, [a \in tick.settle |-> Default[a]], 0, TRUE)
    BY <1>4 DEF Processes, Expire
  <2>2. \A a \in tick.settle : a \in Axes /\ Default[a] \notin Emergency[a]
    BY EmergencyAssumption DEF TypeOK
  <2>3. \A a \in Axes : ~(/\ a \in DOMAIN [x \in tick.settle |-> Default[x]]
                          /\ [x \in tick.settle |-> Default[x]][a] \in Emergency[a])
    BY <2>2
  <2> DEFINE u == [x \in tick.settle |-> Default[x]]
  <2> HIDE DEF u
  <2>4. \A a \in Axes : a \in DOMAIN u /\ u[a] \in Emergency[a] => Now + 0 <= granted'[a]
    BY <2>3 DEF u
  <2>5. granted \in Bounds /\ granted' \in Bounds /\ Above(granted, granted')
    BY <1>3, <2>1
  <2>6. Begin(Supervisor, u, 0, TRUE)
    BY <2>1 DEF u
  <2>7. /\ file' \in PostureFiles => Within(file', granted')
        /\ \A q \in Processes : call'[q].pc # "idle" => Within(call'[q].next, granted')
    BY <2>1, <2>4, <2>5, <2>6, WithinBegin
  <2> QED
    BY <2>7 DEF WithinInv, InFlight, Within
<1>5. ASSUME Quiet \/ \E p \in Processes : CallStep(p), granted' = granted
      PROVE WithinInv(granted)'
  BY <1>3, <1>5, WithinOther DEF WithinInv, InFlight, Within
<1>6. ASSUME NEW p \in Processes, CallStep(p) PROVE granted' = granted
  BY <1>6 DEF CallStep, Truncate, Write, Refresh, Finish
<1>7. TickStep \/ World \/ KillSupervisor \/ UNCHANGED vars \/ (\E p \in Operators : KillOperator(p))
        => granted' = granted
  BY DEF TickStep, ReadStored, ReadLive, Expire, Expired, MirrorTick, Serve, World, Pass,
         FastForward, ClockReset, BoxToggle, KillSupervisor, KillOperator, vars
<1> QED
  BY <1>2, <1>4, <1>5, <1>6, <1>7, QuietStep DEF Next, TickStep

(* Lost updates and stale copies may bring a lowered emergency level back, *)
(* but never with a later expiry than an operator asked for on that very   *)
(* switch (devmode.set_mode computes entries for the named switches only). *)
THEOREM NoLeaseOutlivesItsGrant == Spec => []NoLeaseBeyondAGrant
<1>1. Init => WithinInv(granted)
  BY ContentAssumption DEF Init, WithinInv, NoCall, InFlight
<1>2. TypeOK /\ WithinInv(granted) /\ [Next]_vars => WithinInv(granted)'
  BY GrantStep
<1>3. TypeOK /\ WithinInv(granted) => NoLeaseBeyondAGrant
  <2> SUFFICES ASSUME TypeOK, WithinInv(granted) PROVE NoLeaseBeyondAGrant
    OBVIOUS
  <2>1. Within(Load, granted)
    BY WithinLoad DEF WithinInv
  <2> QED
    BY <2>1 DEF Within, NoLeaseBeyondAGrant
<1> QED
  BY <1>1, <1>2, <1>3, TypeCorrect, PTL DEF Spec

-----------------------------------------------------------------------------
(* The expiry cascade of a tick.                                           *)

(* A nonempty set of numbers has a least.                                  *)
LEMMA LeastExists ==
  ASSUME NEW S \in SUBSET Nat, S # {} PROVE \E m \in S : \A x \in S : m <= x
<1>1. PICK m \in S : \A x \in S : <<x, m>> \notin OpToRel(<, Nat)
  BY WFMin, NatLessThanWellFounded
<1>2. \A x \in S : ~(x < m)
  <2> SUFFICES ASSUME NEW x \in S, x < m PROVE FALSE
    OBVIOUS
  <2>1. <<x, m>> \in OpToRel(<, Nat)
    BY DEF OpToRel
  <2> QED
    BY <1>1, <2>1
<1> QED
  BY <1>2

(* The switches of n are where they were in mode, or at rest.              *)
Lowered(mode, n) ==
  n \in [Axes -> Rungs] /\ \A a \in Axes : n[a] \in {mode[a], Default[a]}

LEMMA LowerOneLowers ==
  ASSUME NEW rows, NEW mode \in Modes, NEW n, Lowered(mode, n)
  PROVE Lowered(mode, LowerOne(rows, n))
  BY DefaultAssumption DEF Lowered, LowerOne, Lower

(* The passes of settle_incoherent's loop, as far as the k-th.             *)
Passes(rows, mode, k) ==
  {f \in [0..k -> {n \in [Axes -> Rungs] : Lowered(mode, n)}] :
     f = [n \in 0..k |-> IF n = 0 THEN mode ELSE LowerOne(rows, f[n - 1])]}

LEMMA PassesExist ==
  ASSUME NEW rows, NEW mode \in Modes, NEW k \in Nat
  PROVE Passes(rows, mode, k) # {}
<1> DEFINE Bad == {i \in Nat : Passes(rows, mode, i) = {}}
<1> SUFFICES ASSUME Bad # {} PROVE FALSE
  OBVIOUS
<1>1. PICK m \in Bad : \A x \in Bad : m <= x
  BY LeastExists
<1>2. Lowered(mode, mode)
  BY DEF Lowered, Modes
<1>3. CASE m = 0
  <2> DEFINE f == [n \in 0..0 |-> mode]
  <2>1. f = [n \in 0..0 |-> IF n = 0 THEN mode ELSE LowerOne(rows, f[n - 1])]
    OBVIOUS
  <2>2. f \in [0..0 -> {n \in [Axes -> Rungs] : Lowered(mode, n)}]
    BY <1>2 DEF Lowered
  <2>3. f \in Passes(rows, mode, 0)
    BY <2>1, <2>2 DEF Passes
  <2> QED
    BY <1>3, <2>3
<1>4. CASE m # 0
  <2>1. m - 1 \in Nat /\ m - 1 \notin Bad
    BY <1>1, <1>4
  <2>2. PICK f \in Passes(rows, mode, m - 1) : TRUE
    BY <2>1
  <2> DEFINE L == {n \in [Axes -> Rungs] : Lowered(mode, n)}
  <2>3. /\ f \in [0..(m - 1) -> L]
        /\ f = [n \in 0..(m - 1) |-> IF n = 0 THEN mode ELSE LowerOne(rows, f[n - 1])]
    BY <2>2 DEF Passes
  <2> DEFINE g == [n \in 0..m |-> IF n = m THEN LowerOne(rows, f[m - 1]) ELSE f[n]]
  <2>4. LowerOne(rows, f[m - 1]) \in L
    <3>1. f[m - 1] \in L
      BY <2>1, <2>3
    <3>2. Lowered(mode, LowerOne(rows, f[m - 1]))
      BY <3>1, LowerOneLowers
    <3> QED
      BY <3>2 DEF Lowered
  <2> HIDE DEF L
  <2>5. g \in [0..m -> L]
    BY <2>1, <2>3, <2>4
  <2>6. ASSUME NEW n \in 0..m
        PROVE g[n] = IF n = 0 THEN mode ELSE LowerOne(rows, g[n - 1])
    <3>1. CASE n = m
      <4>1. g[n - 1] = f[m - 1]
        BY <1>4, <2>1, <3>1
      <4> QED
        BY <1>4, <3>1, <4>1
    <3>2. CASE n # m /\ n # 0
      <4>1. n \in 0..(m - 1) /\ n - 1 \in 0..m /\ n - 1 # m
        BY <2>1, <3>2
      <4>2. g[n - 1] = f[n - 1] /\ g[n] = f[n]
        BY <3>2, <4>1
      <4> QED
        BY <2>3, <3>2, <4>1, <4>2
    <3>3. CASE n # m /\ n = 0
      BY <2>1, <2>3, <3>3
    <3> QED
      BY <3>1, <3>2, <3>3
  <2>7. g = [n \in 0..m |-> IF n = 0 THEN mode ELSE LowerOne(rows, g[n - 1])]
    BY <2>6
  <2>8. g \in Passes(rows, mode, m)
    BY <2>5, <2>7 DEF Passes, L
  <2> QED
    BY <2>8
<1> QED
  BY <1>3, <1>4

(* What is true of no first pass is true of none.                          *)
LEMMA GreedyLowers ==
  ASSUME NEW rows, NEW mode \in Modes PROVE Lowered(mode, Greedy(rows, mode))
<1> DEFINE N == Cardinality(Axes)
<1>1. N \in Nat
  BY AxesAssumption, FS_CardinalityType
<1> HIDE DEF N
<1> DEFINE after == CHOOSE f : f = [n \in 0..N |-> IF n = 0 THEN mode ELSE LowerOne(rows, f[n - 1])]
<1>2. after = [n \in 0..N |-> IF n = 0 THEN mode ELSE LowerOne(rows, after[n - 1])]
  <2>1. PICK f \in Passes(rows, mode, N) : TRUE
    BY <1>1, PassesExist
  <2>2. f = [n \in 0..N |-> IF n = 0 THEN mode ELSE LowerOne(rows, f[n - 1])]
    BY <2>1 DEF Passes
  <2> QED
    BY <2>2
<1>3. Greedy(rows, mode) = after[N]
  BY DEF Greedy, N
<1> HIDE DEF after
<1> DEFINE Bad == {n \in 0..N : ~Lowered(mode, after[n])}
<1>4. Bad = {}
  <2> SUFFICES ASSUME Bad # {} PROVE FALSE
    OBVIOUS
  <2>0. Bad \in SUBSET Nat
    BY <1>1
  <2>1. PICK m \in Bad : \A x \in Bad : m <= x
    <3> HIDE DEF Bad
    <3> QED
      BY <2>0, LeastExists
  <2>2. CASE m = 0
    <3>1. Lowered(mode, mode)
      BY DEF Lowered, Modes
    <3> QED
      BY <1>2, <2>2, <3>1
  <2>3. CASE m # 0
    <3>1. m \in 0..N /\ m - 1 \in 0..N /\ m - 1 \notin Bad
      BY <1>1, <2>1, <2>3
    <3>2. Lowered(mode, after[m - 1])
      BY <3>1
    <3>3. after[m] = LowerOne(rows, after[m - 1])
      BY <1>2, <2>3, <3>1
    <3> QED
      BY <3>2, <3>3, LowerOneLowers
  <2> QED
    BY <2>2, <2>3
<1>5. N \in 0..N
  BY <1>1
<1> QED
  BY <1>3, <1>4, <1>5

(* The mode a cascade ends on differs from where it began by lowering      *)
(* SettleFlips, and works if the all-defaults mode does.                   *)
LEMMA SettledWorks ==
  ASSUME NEW live \in Modes, Works(Requires, Default), NEW m,
         \A a \in Axes : m[a] = IF a \in SettleFlips(Requires, live) THEN Default[a] ELSE live[a]
  PROVE Works(Requires, m)
<1>1. Lowered(live, Greedy(Requires, live))
  BY GreedyLowers
<1>2. \A a \in Axes : Settled(Requires, live)[a] \in {live[a], Default[a]}
  BY <1>1 DEF Lowered, Settled
<1>3. \A a \in Axes : m[a] = Settled(Requires, live)[a]
  BY <1>2 DEF SettleFlips
<1>4. Works(Requires, Settled(Requires, live))
  BY DEF Settled
<1> QED
  BY <1>3, <1>4, RequiresAssumption DEF Works, RequireErrors, Unmet

(* From its second read on a tick remembers what it made of that read, and *)
(* its call is of that.                                                    *)
ExpiryInv ==
  /\ tick.pc \in {"expire", "expiring"} =>
       tick.settle = {a \in Axes : tick.stored[a] # tick.live[a]} \cup SettleFlips(Requires, tick.live)
  /\ Expiring => \A a \in Axes :
       call[Supervisor].next.mode[a] =
         IF a \in tick.settle THEN Default[a] ELSE call[Supervisor].base[a]

LEMMA ExpiryStep ==
  ASSUME TypeOK, ExpiryInv, [Next]_vars PROVE ExpiryInv'
<1>1. CASE Expire
  <2>1. Supervisor \in Processes
    BY DEF Processes
  <2>2. tick'.stored = tick.stored /\ tick'.live = tick.live /\ tick'.settle = tick.settle
        /\ tick.pc = "expire"
    BY <1>1 DEF Expire, TypeOK
  <2> DEFINE u == [a \in tick.settle |-> Default[a]]
  <2>3. DOMAIN u = tick.settle /\ \A a \in tick.settle : u[a] = Default[a]
    OBVIOUS
  <2> HIDE DEF u
  <2>4. /\ call'[Supervisor].base = Live(Load).mode
        /\ call'[Supervisor].next = Apply(Live(Load), u, Now + 0)
    BY <1>1, <2>1 DEF Expire, Begin, TypeOK, u
  <2>5. \A a \in Axes : call'[Supervisor].next.mode[a] =
          IF a \in tick.settle THEN Default[a] ELSE call'[Supervisor].base[a]
    BY <2>3, <2>4 DEF Apply
  <2> QED
    BY <2>2, <2>5 DEF ExpiryInv
<1>2. CASE ReadLive
  <2>1. call' = call /\ tick'.pc \in {"mirror", "expire"}
    BY <1>2 DEF ReadLive
  <2>2. tick'.pc = "expire" =>
          tick'.settle = {a \in Axes : tick'.stored[a] # tick'.live[a]} \cup SettleFlips(Requires, tick'.live)
    BY <1>2 DEF ReadLive
  <2> QED
    BY <2>1, <2>2 DEF ExpiryInv, Expiring, SettleFlips
<1>3. CASE ReadStored \/ Expired \/ MirrorTick \/ Serve \/ KillSupervisor
  <2>1. tick'.pc \notin {"expire", "expiring"}
    <3>1. CASE ReadStored \/ Expired \/ MirrorTick
      BY <3>1 DEF ReadStored, Expired, MirrorTick, TypeOK
    <3>2. CASE Serve \/ KillSupervisor
      BY <3>2 DEF Serve, KillSupervisor, NoTick
    <3> QED
      BY <1>3, <3>1, <3>2
  <2> QED
    BY <2>1 DEF ExpiryInv, Expiring
<1>4. ASSUME tick' = tick,
             call'[Supervisor].pc = "truncate" => call'[Supervisor] = call[Supervisor]
      PROVE ExpiryInv'
  BY <1>4 DEF ExpiryInv, Expiring, SettleFlips
<1>5. ASSUME NEW p \in Processes, CallStep(p) PROVE ExpiryInv'
  <2>1. Supervisor \in Processes /\ tick' = tick
    BY <1>5 DEF Processes, CallStep, Truncate, Write, Refresh, Finish
  <2>2. call'[Supervisor] = call[Supervisor] \/ call'[Supervisor].pc # "truncate"
    BY <1>5, <2>1 DEF CallStep, Truncate, Write, Refresh, Finish, Advance, NoCall, TypeOK
  <2> QED
    BY <1>4, <2>1, <2>2
<1>6. ASSUME NEW p \in Operators, KillOperator(p) \/ \E u \in Updates, ttl \in TTLs : SetMode(p, u, ttl)
      PROVE ExpiryInv'
  <2>1. p # Supervisor /\ Supervisor \in Processes /\ p \in Processes
    BY OperatorsAssumption DEF Processes
  <2>2. call'[Supervisor] = call[Supervisor] /\ tick' = tick
    BY <1>6, <2>1 DEF KillOperator, SetMode, Begin, TypeOK
  <2> QED
    BY <1>4, <2>2
<1>7. CASE World \/ UNCHANGED vars
  <2>1. call' = call /\ tick' = tick
    BY <1>7 DEF World, Pass, FastForward, ClockReset, BoxToggle, vars
  <2> QED
    BY <1>4, <2>1
<1> QED
  BY <1>1, <1>2, <1>3, <1>5, <1>6, <1>7 DEF Next, TickStep

(* While nothing moves between a tick's second and third read of the file, *)
(* and what it took for lapsed reads as its default, the posture it writes *)
(* works: whatever switches and requirements a project declares            *)
(* (supervisor.expire_user_modes with devmode.settle_incoherent).          *)
THEOREM ExpiriesWork == Spec => []UnracedExpiryWorks
<1>1. Init => ExpiryInv
  BY DEF Init, ExpiryInv, Expiring, NoTick
<1>2. TypeOK /\ ExpiryInv /\ [Next]_vars => ExpiryInv'
  BY ExpiryStep
<1>3. TypeOK /\ ExpiryInv => UnracedExpiryWorks
  <2> SUFFICES ASSUME TypeOK, ExpiryInv, Expiring, Works(Requires, Default),
                      \A a \in Axes : tick.stored[a] # tick.live[a] => tick.live[a] = Default[a],
                      call[Supervisor].base = tick.live
               PROVE  Works(Requires, call[Supervisor].next.mode)
    BY DEF UnracedExpiryWorks
  <2>1. tick.pc = "expiring" /\ tick.live \in Modes
    BY DEF Expiring, TypeOK
  <2>2. \A a \in Axes : call[Supervisor].next.mode[a] =
          IF a \in SettleFlips(Requires, tick.live) THEN Default[a] ELSE tick.live[a]
    BY <2>1 DEF ExpiryInv
  <2> QED
    BY <2>1, <2>2, SettledWorks
<1> QED
  BY <1>1, <1>2, <1>3, TypeCorrect, PTL DEF Spec
=============================================================================
