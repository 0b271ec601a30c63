--------------------------- MODULE DaemonsProofs ---------------------------
(* No daemon is left behind by anything but a killed supervisor, for any   *)
(* daemons, postures and processes.  And, of what follows a mode beside    *)
(* the daemons: the builds' secrets and what the build gate adopts, for    *)
(* any number of builds, and the recreates of what recovered, for any      *)
(* switches.                                                               *)
EXTENDS MCDaemons, TLAPS

(* Whoever's turn is still to come is wanted.                              *)
TurnsOfTheWanted == (\A n \in todo : want[n] # None) /\ (sup # "each" => todo = {})

Inv == TypeOK /\ TurnsOfTheWanted /\ NoneLeftBehind

(* Every live process is a child of c's.                                   *)
Covered(d, c) == \A p \in Pids : Alive(d, p) => p \in PidsOf(c)

LEMMA DemandsType == ASSUME TypeOK, NEW up PROVE Demands(up) \in [Names -> Specs \cup {None}]
  BY PostureAssumption DEF TypeOK, Demands, Specs

LEMMA StoppingType ==
  ASSUME NEW STATE d, d \in [Pids -> {None} \cup Daemon], NEW STATE gone
  PROVE  Stopping(d, gone) \in [Pids -> {None} \cup Daemon]
  BY DEF Stopping

(* A daemon that starts is the child of its name, and the others keep      *)
(* theirs.                                                                 *)
LEMMA SpawnCovers ==
  ASSUME TypeOK, NEW n \in Names, want[n] # None,
         NEW STATE d, d \in [Pids -> {None} \cup Daemon],
         NEW STATE c, c \in [Names -> {None} \cup Child],
         c[n] = None, SpawnChild(n, d, c)
  PROVE  /\ daemon' \in [Pids -> {None} \cup Daemon]
         /\ child' \in [Names -> {None} \cup Child]
         /\ gate' \in [Names -> {"none", "shared", "secret", "port"}]
         /\ Covered(d, c) => Covered(daemon', child')
<1>1. CASE child' = c /\ daemon' = d
  BY <1>1 DEF SpawnChild, TypeOK
<1>2. CASE ~(child' = c /\ daemon' = d)
  <2> DEFINE free == Stopping(d, Reapable(d, c, want[n].port))
             p == CHOOSE q \in Fresh(free, c) : TRUE
             new == [name |-> n, port |-> want[n].port, at |-> "starting"]
             rec == [pid |-> p, spec |-> want[n], young |-> TRUE, raced |-> FALSE]
  <2>1. /\ Fresh(free, c) # {} /\ gate' = gate
        /\ child' = [c EXCEPT ![n] = rec]
        /\ daemon' = [free EXCEPT ![p] = new]
    BY <1>2 DEF SpawnChild
  <2>2. p \in Pids
    BY <2>1 DEF Fresh
  <2>3. want[n] \in Specs /\ rec \in Child /\ new \in Daemon
    BY <2>2 DEF TypeOK, Child, Daemon, Ports
  <2>4. free \in [Pids -> {None} \cup Daemon]
    BY StoppingType
  <2>5. \A q \in Pids : Alive(free, q) => Alive(d, q)
    BY DEF Stopping, Alive
  <2>6. rec # None
    BY <2>3, NoneAssumption
  <2> HIDE DEF free, p, new, rec
  <2>7. Covered(d, c) => Covered(daemon', child')
    <3> SUFFICES ASSUME Covered(d, c), NEW q \in Pids, Alive(daemon', q)
                 PROVE  q \in PidsOf(child')
      BY DEF Covered
    <3>1. CASE q = p
      <4>1. child'[n] = rec /\ rec.pid = p
        BY <2>1 DEF rec
      <4> QED BY <3>1, <4>1, <2>6 DEF PidsOf
    <3>2. CASE q # p
      <4>1. Alive(d, q)
        BY <3>2, <2>1, <2>4, <2>5 DEF Alive
      <4>2. PICK m \in Names : c[m] # None /\ c[m].pid = q
        BY <4>1 DEF Covered, PidsOf
      <4>3. child'[m] = c[m]
        BY <4>2, <2>1
      <4> QED BY <4>2, <4>3 DEF PidsOf
    <3> QED BY <3>1, <3>2
  <2> QED BY <2>1, <2>2, <2>3, <2>4, <2>7 DEF TypeOK
<1> QED BY <1>1, <1>2

LEMMA InitInv == Init => Inv
<1> SUFFICES ASSUME Init PROVE Inv
  OBVIOUS
<1>1. events \in 0..MaxEvents /\ mishaps \in 0..MaxMishaps
  BY BoundsAssumption DEF Init
<1>2. daemon \in [Pids -> {None} \cup Daemon] /\ child \in [Names -> {None} \cup Child]
  BY DEF Init
<1>3. /\ want \in [Names -> Specs \cup {None}] /\ live \in [Names -> Lives \cup {None}]
      /\ gate \in [Names -> {"none", "shared", "secret", "port"}]
      /\ misses \in [Names -> {None} \cup Misses]
  BY DEF Init
<1>4. TypeOK
  BY <1>1, <1>2, <1>3 DEF Init, TypeOK
<1>5. TurnsOfTheWanted /\ NoneLeftBehind
  BY DEF Init, TurnsOfTheWanted, NoneLeftBehind, Alive
<1> QED BY <1>4, <1>5 DEF Inv

LEMMA CountsType ==
  ASSUME TypeOK, Event \/ Mishap \/ Calm
  PROVE  events' \in 0..MaxEvents /\ mishaps' \in 0..MaxMishaps
  BY BoundsAssumption DEF TypeOK, Event, Mishap, Calm, EventsLeft, MishapsLeft

(* Stopping children and forgetting them leaves no one uncovered.          *)
LEMMA DropCovers ==
  ASSUME TypeOK, NEW STATE gone, gone \in SUBSET Names,
         daemon' = Stopping(daemon, {child[n].pid : n \in gone}),
         child' = [n \in Names |-> IF n \in gone THEN None ELSE child[n]],
         Covered(daemon, child)
  PROVE  Covered(daemon', child')
<1> SUFFICES ASSUME NEW p \in Pids, Alive(daemon', p) PROVE p \in PidsOf(child')
  BY DEF Covered
<1>1. Alive(daemon, p) /\ p \notin {child[n].pid : n \in gone}
  BY DEF Stopping, Alive
<1>2. PICK m \in Names : child[m] # None /\ child[m].pid = p
  BY <1>1 DEF Covered, PidsOf
<1>3. m \notin gone
  BY <1>1, <1>2
<1> QED BY <1>2, <1>3 DEF PidsOf

-----------------------------------------------------------------------------
(* What one name's turn in the tick does.                                  *)
LEMMA WithoutCovers ==
  ASSUME TypeOK, NEW n \in Names
  PROVE  /\ Without(n) \in [Names -> {None} \cup Child] /\ Without(n)[n] = None
         /\ Stopped(n) \in [Pids -> {None} \cup Daemon]
         /\ Covered(daemon, child) => Covered(Stopped(n), Without(n))
         /\ Covered(daemon, child) /\ ~Runs(n) => Covered(daemon, Without(n))
<1>1. /\ Without(n) \in [Names -> {None} \cup Child] /\ Without(n)[n] = None
      /\ Stopped(n) \in [Pids -> {None} \cup Daemon]
  BY StoppingType DEF TypeOK, Without, Stopped
<1>2. ASSUME Covered(daemon, child), NEW p \in Pids, Alive(daemon, p),
             child[n] = None \/ p # child[n].pid
      PROVE  p \in PidsOf(Without(n))
  <2>1. PICK m \in Names : child[m] # None /\ child[m].pid = p
    BY <1>2 DEF Covered, PidsOf
  <2>2. m # n /\ Without(n)[m] = child[m]
    BY <2>1, <1>2 DEF Without, TypeOK
  <2> QED BY <2>1, <2>2 DEF PidsOf
<1>3. Covered(daemon, child) => Covered(Stopped(n), Without(n))
  BY <1>2 DEF Covered, Stopped, Stopping, Alive
<1>4. Covered(daemon, child) /\ ~Runs(n) => Covered(daemon, Without(n))
  BY <1>2 DEF Covered, Runs
<1> QED BY <1>1, <1>3, <1>4

LEMMA EachInv == ASSUME Inv, NEW n \in Names, Each(n) PROVE Inv'
<1> USE DEF Inv
<1>1. want[n] # None
  BY DEF Each, TurnsOfTheWanted
<1>2. /\ daemon' \in [Pids -> {None} \cup Daemon]
      /\ child' \in [Names -> {None} \cup Child]
      /\ gate' \in [Names -> {"none", "shared", "secret", "port"}]
      /\ Covered(daemon, child) => Covered(daemon', child')
  <2>1. CASE GivesWay(n)
    BY <2>1, WithoutCovers DEF GivesWay, TypeOK
  <2>2. CASE Dealt(n)
    <3>1. CASE ChildStep(n) \in {"keep", "backoff"}
      BY <3>1, <2>2 DEF Dealt, TypeOK
    <3>2. CASE ChildStep(n) = "restart"
      <4>1. SpawnChild(n, Stopped(n), Without(n))
        BY <3>2, <2>2 DEF Dealt
      <4> QED BY <4>1, <1>1, WithoutCovers, SpawnCovers
    <3>3. CASE ChildStep(n) \in {"spawn", "respawn"}
      <4>1. SpawnChild(n, daemon, Without(n))
        BY <3>3, <2>2 DEF Dealt
      <4>2. ~Runs(n)
        BY <3>3 DEF ChildStep, Runs
      <4>3. daemon \in [Pids -> {None} \cup Daemon]
        BY DEF TypeOK
      <4> QED BY <4>1, <4>2, <4>3, <1>1, WithoutCovers, SpawnCovers
    <3> QED BY <3>1, <3>2, <3>3 DEF ChildStep
  <2> QED BY <2>1, <2>2 DEF Each
<1>3. live' \in [Names -> Lives \cup {None}]
  BY <1>1 DEF Each, GivesWay, Dealt, SyncLive, TypeOK, Lives
<1>4. stalled' \in SUBSET Pids
  BY DEF Each, TypeOK
<1>5. events' \in 0..MaxEvents /\ mishaps' \in 0..MaxMishaps
  BY CountsType DEF Each, GivesWay, Dealt
<1>6. TypeOK'
  BY <1>2, <1>3, <1>4, <1>5 DEF TypeOK, Each, world
<1>7. TurnsOfTheWanted'
  BY DEF TurnsOfTheWanted, Each
<1>8. NoneLeftBehind'
  BY <1>2 DEF NoneLeftBehind, Covered, Each
<1> QED BY <1>6, <1>7, <1>8

LEMMA PublishInv == ASSUME Inv, Publish PROVE Inv'
<1> USE DEF Inv
<1>1. misses' \in [Names -> {None} \cup Misses]
  <2> SUFFICES ASSUME NEW n \in Names PROVE Missed(n) \in {None} \cup Misses
    BY DEF Publish
  <2>1. Kept(n) \in {None} \cup Misses
    BY DEF Kept, TypeOK
  <2>2. Due(n) => child[n].pid \in Pids
    BY DEF Due, Runs, TypeOK, Child
  <2>3. Run(n) \in 0..LivenessMisses
    BY <2>1 DEF Run, Misses, LivenessMisses
  <2> QED BY <2>1, <2>2, <2>3 DEF Missed, Misses, LivenessMisses
<1>2. said' \in SUBSET Pids
  <2>1. said \in SUBSET Pids
    BY DEF TypeOK
  <2>2. StoppedAnswering \in SUBSET Pids
    BY DEF StoppedAnswering, Due, Runs, TypeOK, Child
  <2> QED BY <2>1, <2>2 DEF Publish
<1>3. TypeOK'
  BY <1>1, <1>2 DEF TypeOK, Publish, world, Calm
<1>4. TurnsOfTheWanted' /\ NoneLeftBehind'
  BY DEF TurnsOfTheWanted, NoneLeftBehind, Publish, PidsOf, Alive
<1> QED BY <1>3, <1>4

LEMMA PruneInv == ASSUME Inv, Prune PROVE Inv'
<1> USE DEF Inv
<1>1. daemon' \in [Pids -> {None} \cup Daemon] /\ child' \in [Names -> {None} \cup Child]
  BY StoppingType DEF TypeOK, Prune
<1>2. TypeOK'
  BY <1>1 DEF TypeOK, Prune, Sharers, world, Calm
<1>3. Covered(daemon, child) => Covered(daemon', child')
  <2>1. Undesired \in SUBSET Names
    BY DEF Undesired
  <2> QED BY <2>1, DropCovers DEF Prune
<1>4. TurnsOfTheWanted' /\ NoneLeftBehind'
  BY <1>3 DEF TurnsOfTheWanted, NoneLeftBehind, Prune, Covered
<1> QED BY <1>2, <1>4

LEMMA ReadInv == ASSUME Inv, Read PROVE Inv'
<1> USE DEF Inv
<1>1. want' \in [Names -> Specs \cup {None}]
  BY DemandsType DEF Read
<1>2. events' \in 0..MaxEvents /\ mishaps' \in 0..MaxMishaps
  BY CountsType DEF Read
<1>3. TypeOK'
  BY <1>1, <1>2 DEF TypeOK, Read, world, told
<1>4. TurnsOfTheWanted' /\ NoneLeftBehind'
  BY DEF TurnsOfTheWanted, NoneLeftBehind, Read, PidsOf, Alive
<1> QED BY <1>3, <1>4

-----------------------------------------------------------------------------
(* The world ends processes, or lets them listen, and children keep their  *)
(* pids.                                                                   *)
SamePids == child' \in [Names -> {None} \cup Child] /\ PidsOf(child') = PidsOf(child)
NoneAppears == /\ daemon' \in [Pids -> {None} \cup Daemon]
               /\ \A p \in Pids : Alive(daemon', p) => Alive(daemon, p)

LEMMA SamePidsIf ==
  ASSUME TypeOK, DOMAIN child' = Names,
         child' = [n \in Names |-> child'[n]],
         \A n \in Names : \/ child'[n] = child[n]
                         \/ /\ child[n] # None /\ child'[n] \in Child
                            /\ child'[n].pid = child[n].pid
  PROVE  SamePids
<1>1. \A n \in Names : child[n] = None \/ child[n] \in Child
  BY DEF TypeOK
<1>2. \A n \in Names : (child'[n] = None <=> child[n] = None) /\ child'[n] \in {None} \cup Child
                      /\ (child[n] # None => child'[n].pid = child[n].pid)
  BY <1>1, NoneAssumption
<1>3. PidsOf(child') = PidsOf(child)
  BY <1>2 DEF PidsOf
<1> QED BY <1>2, <1>3 DEF SamePids

LEMMA OutrunPids == ASSUME TypeOK, NEW port, NEW winner, Outrun(port, winner) PROVE SamePids
<1>1. \A n \in Names : child[n] = None \/ child[n] \in Child
  BY DEF TypeOK
<1>2. \A n \in Names : \/ child'[n] = child[n]
                      \/ /\ child[n] # None /\ child'[n] \in Child
                         /\ child'[n].pid = child[n].pid
  BY <1>1 DEF Outrun, Child
<1>3. DOMAIN child' = Names /\ child' = [n \in Names |-> child'[n]]
  BY DEF Outrun
<1> QED BY <1>2, <1>3, SamePidsIf

LEMMA StillPids == ASSUME TypeOK, UNCHANGED child PROVE SamePids
  BY DEF SamePids, TypeOK

LEMMA StillDaemons == ASSUME TypeOK, UNCHANGED daemon PROVE NoneAppears
  BY DEF NoneAppears, TypeOK, Alive

LEMMA WorldInv == ASSUME Inv, World PROVE Inv'
<1> USE DEF Inv
<1>1. NoneAppears /\ SamePids /\ stalled' \in SUBSET Pids
  <2>1. ASSUME NEW checkout \in Worktrees, BoxMoves(checkout) \/ LaunchMoves(checkout)
        PROVE  NoneAppears /\ SamePids /\ stalled' \in SUBSET Pids
    BY <2>1, StillPids, StillDaemons DEF BoxMoves, LaunchMoves, TypeOK
  <2>2. CASE Operator \/ Captured
    BY <2>2, StillPids, StillDaemons DEF Operator, Captured, TypeOK
  <2>3. ASSUME NEW port \in Ports, Strange(port) \/ StrangerLeaves(port)
        PROVE  NoneAppears /\ SamePids /\ stalled' \in SUBSET Pids
    BY <2>3, StillPids, OutrunPids, StillDaemons DEF Strange, StrangerLeaves, TypeOK
  <2>4. ASSUME NEW p \in Pids, Bind(p)
        PROVE  NoneAppears /\ SamePids /\ stalled' \in SUBSET Pids
    <3>1. daemon[p] \in Daemon
      BY <2>4 DEF Bind, Alive, TypeOK
    <3>2. [daemon[p] EXCEPT !.at = "serving"] \in Daemon
      BY <3>1 DEF Daemon
    <3>3. NoneAppears
      <4>1. CASE daemon' = Stopping(daemon, {p})
        BY <4>1 DEF NoneAppears, Stopping, TypeOK, Alive
      <4>2. CASE daemon' = [daemon EXCEPT ![p].at = "serving"]
        BY <4>2, <3>1, <3>2, NoneAssumption DEF NoneAppears, TypeOK, Alive
      <4> QED BY <4>1, <4>2, <2>4 DEF Bind
    <3>4. SamePids
      BY <2>4, StillPids, OutrunPids DEF Bind
    <3> QED BY <3>3, <3>4, <2>4 DEF Bind, TypeOK
  <2>5. ASSUME NEW p \in Pids, Dies(p)
        PROVE  NoneAppears /\ SamePids /\ stalled' \in SUBSET Pids
    <3>1. NoneAppears
      BY <2>5 DEF Dies, NoneAppears, Stopping, TypeOK, Alive
    <3> QED BY <2>5, <3>1, StillPids DEF Dies, TypeOK
  <2>6. ASSUME NEW p \in Pids, Stalls(p) \/ Recovers(p)
        PROVE  NoneAppears /\ SamePids /\ stalled' \in SUBSET Pids
    BY <2>6, StillPids, StillDaemons DEF Stalls, Recovers, TypeOK
  <2>7. ASSUME NEW n \in Names, Ages(n)
        PROVE  NoneAppears /\ SamePids /\ stalled' \in SUBSET Pids
    <3>1. child[n] \in Child
      BY <2>7 DEF Ages, TypeOK
    <3>2. [child[n] EXCEPT !.young = FALSE] \in Child
          /\ [child[n] EXCEPT !.young = FALSE].pid = child[n].pid
      BY <3>1 DEF Child
    <3>3. \A m \in Names : \/ child'[m] = child[m]
                          \/ /\ child[m] # None /\ child'[m] \in Child
                             /\ child'[m].pid = child[m].pid
      BY <2>7, <3>1, <3>2 DEF Ages, TypeOK
    <3>4. DOMAIN child' = Names /\ child' = [m \in Names |-> child'[m]]
      BY <2>7 DEF Ages, TypeOK
    <3>5. SamePids
      BY <3>3, <3>4, SamePidsIf
    <3> QED BY <2>7, <3>5, StillDaemons DEF Ages, TypeOK
  <2> QED BY <2>1, <2>2, <2>3, <2>4, <2>5, <2>6, <2>7 DEF World
<1>2. /\ boxes' \in SUBSET Worktrees /\ launching' \in SUBSET Worktrees
      /\ posture' \in Postures /\ secrets' \in BOOLEAN /\ strangers' \in SUBSET Ports
  BY DEF World, BoxMoves, LaunchMoves, Operator, Captured, Strange, StrangerLeaves, Bind, Dies,
         Stalls, Recovers, Ages, TypeOK, world
<1>3. events' \in 0..MaxEvents /\ mishaps' \in 0..MaxMishaps
  BY CountsType DEF World, BoxMoves, LaunchMoves, Operator, Captured, Strange, StrangerLeaves,
                    Bind, Dies, Stalls, Recovers, Ages
<1>4. UNCHANGED <<sup, env, tick, live, told, slain>>
  BY DEF World, BoxMoves, LaunchMoves, Operator, Captured, Strange, StrangerLeaves, Bind, Dies,
         Stalls, Recovers, Ages, Quiet
<1>5. TypeOK'
  BY <1>1, <1>2, <1>3, <1>4 DEF TypeOK, NoneAppears, SamePids, tick, told
<1>6. TurnsOfTheWanted'
  BY <1>4 DEF TurnsOfTheWanted, tick
<1>7. NoneLeftBehind'
  BY <1>1, <1>4 DEF NoneLeftBehind, NoneAppears, SamePids
<1> QED BY <1>5, <1>6, <1>7

LEMMA BootInv == ASSUME Inv, Boot PROVE Inv'
<1> USE DEF Inv
<1>1. TypeOK'
  BY DEF TypeOK, Boot, world, tick, Calm
<1>2. TurnsOfTheWanted' /\ NoneLeftBehind'
  BY DEF TurnsOfTheWanted, NoneLeftBehind, Boot, tick, PidsOf, Alive
<1> QED BY <1>1, <1>2

LEMMA ShutDownInv == ASSUME Inv, ShutDown PROVE Inv'
<1> USE DEF Inv
<1>1. daemon' \in [Pids -> {None} \cup Daemon]
  BY StoppingType DEF TypeOK, ShutDown
<1>2. events' \in 0..MaxEvents /\ mishaps' \in 0..MaxMishaps
  BY CountsType DEF ShutDown
<1>3. TypeOK'
  BY <1>1, <1>2 DEF TypeOK, ShutDown, world, tick
<1>4. TurnsOfTheWanted'
  BY DEF TurnsOfTheWanted, ShutDown, tick
<1>5. NoneLeftBehind'
  BY DEF NoneLeftBehind, ShutDown, Stopping, Alive
<1> QED BY <1>3, <1>4, <1>5

LEMMA KillInv == ASSUME Inv, Kill PROVE Inv'
<1> USE DEF Inv
<1>1. events' \in 0..MaxEvents /\ mishaps' \in 0..MaxMishaps
  BY CountsType DEF Kill
<1>2. TypeOK'
  BY <1>1 DEF TypeOK, Kill, world, told
<1>3. TurnsOfTheWanted' /\ NoneLeftBehind'
  BY DEF TurnsOfTheWanted, NoneLeftBehind, Kill
<1> QED BY <1>2, <1>3

LEMMA StutterInv == ASSUME Inv, UNCHANGED vars PROVE Inv'
<1> USE DEF Inv
<1>1. TypeOK'
  BY DEF TypeOK, vars, world, tick, told
<1>2. TurnsOfTheWanted' /\ NoneLeftBehind'
  BY DEF TurnsOfTheWanted, NoneLeftBehind, vars, tick, PidsOf, Alive
<1> QED BY <1>1, <1>2

-----------------------------------------------------------------------------
LEMMA SpecInv == Spec => []Inv
<1>1. ASSUME Inv, [Next]_vars PROVE Inv'
  BY <1>1, EachInv, PublishInv, PruneInv, ReadInv, WorldInv, BootInv, ShutDownInv, KillInv,
     StutterInv DEF Next, Tick
<1> QED BY <1>1, InitInv, PTL DEF Spec

(* Every reachable state of the supervisor and its daemons has its type.   *)
THEOREM TypeCorrect == Spec => []TypeOK
<1>1. Inv => TypeOK
  BY DEF Inv
<1> QED BY <1>1, SpecInv, PTL

(* No restart, give-way, prune, failed start or shutdown ever leaves a     *)
(* daemon running that no supervisor knows: only a killed one does.        *)
THEOREM OnlyAKillLeavesOrphans == Spec => []NoneLeftBehind
<1>1. Inv => NoneLeftBehind
  BY DEF Inv
<1> QED BY <1>1, SpecInv, PTL

-----------------------------------------------------------------------------
(* The gate of the image builds.                                           *)

AFile == [toml : {1, 2}, other : {1, 2}, hosts : SUBSET Builds!Hosts]
Stages == {"idle", "issue", "issuing", "build", "runs", "judge", "offer", "ask", "compare",
           "write", "adopt", "revoke", "revoking", "ended"}
ABuild ==
  [pc : Stages, secret : Nat, copy : SUBSET Nat, attempt : Nat, at : Nat,
   seen : SUBSET Builds!Hosts, stop : Builds!Hosts \cup {""}, rc : {0, 1},
   offer : SUBSET Builds!Hosts, granted : SUBSET Builds!Hosts, shared : SUBSET Builds!Hosts,
   seenTree : SUBSET AFile, seenPin : SUBSET AFile, missed : BOOLEAN]

BuildsType ==
  /\ building \in [Terminals -> ABuild]
  /\ yardfiles \in AFile /\ pin \subseteq AFile
  /\ tokens \subseteq Nat /\ issued \in Nat /\ edits \in Nat

(* What the host runs from, and what a build read of it, was shown; what   *)
(* is about to be adopted was read from the adopted copy.                  *)
ReadOfThePin ==
  \A b \in Terminals :
    /\ \A f \in building[b].seenPin : Builds!But(f) \in reviewed
    /\ building[b].pc = "adopt" => building[b].seenTree = building[b].seenPin

Working == {"build", "runs", "judge", "offer", "ask", "compare", "write", "adopt"}

(* Secrets are numbered as they are issued, and no two builds have one.    *)
OwnSecrets ==
  /\ \A s \in tokens : s \in Nat /\ 1 <= s /\ s <= issued
  /\ \A b \in Terminals :
       /\ building[b].secret <= issued
       /\ building[b].pc = "idle" <=> building[b].secret = 0
       /\ building[b].pc \in {"issue", "issuing"} => building[b].secret \notin tokens
       /\ \A c \in Terminals :
            building[b].secret = building[c].secret => b = c \/ building[b].secret = 0

(* Who rewrites the file has its lock, and its copy lacks nothing.         *)
Rewriting ==
  \A b \in Terminals :
    building[b].pc \in {"issuing", "revoking"} =>
      /\ tokenlock = b
      /\ building[b].copy \subseteq tokens
      /\ \A s \in tokens : s \in expired \/ s \in building[b].copy

(* While a build works its secret is in the file, so that what it stops at *)
(* is among the refusals it reads.                                         *)
Working1 ==
  \A b \in Terminals :
    /\ building[b].pc \in Working \cup {"revoke", "revoking"}
         => building[b].secret \in tokens \cup expired
    /\ building[b].pc \in {"runs", "judge"} /\ building[b].stop # ""
         => building[b].stop \in building[b].seen

BuildsInv ==
  BuildsType /\ OwnSecrets /\ Rewriting /\ Working1 /\ SecretsOfTheRunning
LinesInv == BuildsType /\ ReadOfThePin /\ OnlyTheOperatorsLines

USE DEF Builds!At, Builds!Goes, Builds!To

LEMMA BuildsTyped ==
  ASSUME BuildsType, NEW b \in Terminals, Builds!Step(b)
  PROVE  BuildsType'
<1> DEFINE r == building[b]
<1>0. r \in ABuild /\ issued + 1 \in Nat /\ edits + 1 \in Nat
  BY DEF BuildsType
<1>n. r.attempt + 1 \in Nat /\ r.at + 1 \in Nat
  <2>1. r.attempt \in Nat /\ r.at \in Nat
    BY <1>0 DEF ABuild
  <2> HIDE DEF r
  <2> QED BY <2>1
<1>1. Builds!NoBuild \in ABuild
  BY DEF Builds!NoBuild, ABuild, Stages
<1>2. \A v \in ABuild : Builds!Over(v) \in ABuild
  BY DEF Builds!NoBuild, Builds!Over, ABuild, Stages
<1>3. \A v \in ABuild, pc \in Stages : [v EXCEPT !.pc = pc] \in ABuild
  BY DEF ABuild
<1> USE DEF BuildsType
<1>5. CASE Builds!Start(b)
  <2>1. [Builds!NoBuild EXCEPT !.pc = "issue", !.secret = issued + 1] \in ABuild
    BY <1>0, <1>1 DEF ABuild, Stages
  <2> QED BY <2>1, <1>5, <1>0 DEF Builds!Start, Builds!Config, Builds!TokenFile
<1>6. CASE Builds!Lock(b)
  <2>1. [r EXCEPT !.pc = Builds!Holding[@], !.copy = tokens \ expired] \in ABuild
    <3>1. Builds!Holding[r.pc] \in Stages
      BY <1>6 DEF Builds!Lock, Builds!Holding, Stages
    <3> QED BY <1>0, <3>1 DEF ABuild
  <2> QED BY <2>1, <1>6 DEF Builds!Lock, Builds!Config
<1>7. CASE Builds!Replace(b)
  <2>1. [r EXCEPT !.pc = "build"] \in ABuild /\ [r EXCEPT !.pc = "ended"] \in ABuild
    BY <1>0, <1>3 DEF Stages
  <2>2. r.copy \cup {r.secret} \subseteq Nat /\ r.copy \ {r.secret} \subseteq Nat
    BY <1>0 DEF ABuild
  <2> QED BY <2>1, <2>2, <1>7 DEF Builds!Replace, Builds!Config
<1>8. CASE Builds!Attempt(b)
  <2>1. ASSUME NEW early \in {{}, r.seen}
        PROVE  [r EXCEPT !.pc = "runs", !.attempt = @ + 1, !.at = 1, !.seen = early,
                         !.stop = "", !.rc = 0] \in ABuild
    BY <1>0, <1>n DEF ABuild, Stages
  <2> QED BY <2>1, <1>8 DEF Builds!Attempt, Builds!Config, Builds!TokenFile
<1>9. CASE Builds!Allowed(b)
  <2>1. [r EXCEPT !.at = @ + 1] \in ABuild
    BY <1>0, <1>n DEF ABuild
  <2> QED BY <2>1, <1>9 DEF Builds!Allowed, Builds!Config, Builds!TokenFile
<1>10. CASE Builds!Refused(b)
  <2> DEFINE h == Wants[b][r.at]
             row == IF Builds!Trusted(b) THEN {h} ELSE {}
             v == [r EXCEPT !.seen = @ \cup row, !.at = @ + 1]
             Ended == [v EXCEPT !.pc = "judge", !.rc = 1,
                                !.stop = IF r.secret \in expired THEN "" ELSE h]
  <2>1. h \in Builds!Hosts
    BY <1>10 DEF Builds!Refused, Builds!Asks, Builds!Hosts
  <2>2. v \in ABuild
    BY <1>0, <1>n, <2>1 DEF ABuild
  <2>3. Ended \in ABuild
    <3> HIDE DEF v
    <3> QED BY <2>1, <2>2 DEF ABuild, Stages
  <2>4. ASSUME NEW c \in Terminals PROVE [building[c] EXCEPT !.seen = @ \cup row] \in ABuild
    <3>1. building[c] \in ABuild /\ row \subseteq Builds!Hosts
      BY <2>1
    <3> HIDE DEF row, h
    <3> QED BY <3>1 DEF ABuild
  <2> HIDE DEF v, Ended, row
  <2>5. PICK mine \in {v, Ended} :
          building' = [c \in Terminals |->
            IF c = b THEN mine
            ELSE IF building[c].pc \in {"runs", "judge"} THEN [building[c] EXCEPT !.seen = @ \cup row]
            ELSE building[c]]
    BY <1>10 DEF Builds!Refused, v, Ended, row
  <2> QED BY <2>2, <2>3, <2>4, <2>5, <1>10 DEF Builds!Refused, Builds!Config, Builds!TokenFile
<1>11. CASE Builds!Built(b)
  <2>1. [r EXCEPT !.pc = "judge"] \in ABuild /\ [r EXCEPT !.pc = "judge", !.rc = 1] \in ABuild
    BY <1>0 DEF ABuild, Stages
  <2> QED BY <2>1, <1>11, <1>0 DEF Builds!Built, Builds!Config, Builds!TokenFile
<1>12. CASE Builds!Judge(b)
  <2> DEFINE m == r.rc # 0 /\ r.stop # "" /\ ~Builds!Granted(r.stop) /\ r.stop \notin Builds!Refusals(b)
             v == [r EXCEPT !.missed = m]
             done == IF b \in Answering /\ v.shared # {} THEN [v EXCEPT !.pc = "ask"] ELSE Builds!Over(v)
             offer == [v EXCEPT !.pc = "offer", !.offer = Builds!Refusals(b), !.granted = {}]
  <2>1. v \in ABuild
    <3> HIDE DEF m
    <3>1. m \in BOOLEAN
      BY DEF m
    <3> QED BY <1>0, <3>1 DEF ABuild
  <2>2. offer \in ABuild
    <3> HIDE DEF v
    <3>1. Builds!Refusals(b) \subseteq Builds!Hosts
      BY <1>0 DEF Builds!Refusals, ABuild
    <3> QED BY <2>1, <3>1 DEF ABuild, Stages
  <2>3. done \in ABuild
    <3> HIDE DEF v
    <3> QED BY <2>1, <1>2, <1>3 DEF Stages
  <2>4. building' = [building EXCEPT ![b] = done] \/ building' = [building EXCEPT ![b] = offer]
    BY <1>12 DEF Builds!Judge
  <2> HIDE DEF done, offer
  <2>5. \E x \in ABuild : building' = [building EXCEPT ![b] = x]
    BY <2>2, <2>3, <2>4
  <2> QED BY <2>5, <1>12 DEF Builds!Judge, Builds!Config, Builds!TokenFile
<1>13. CASE Builds!Answer(b)
  <2>1. PICK h \in r.offer, level \in {"no", "once", "kept"} :
          Builds!Goes(b, [r EXCEPT !.offer = @ \ {h},
                     !.granted = IF level = "no" THEN @ ELSE @ \cup {h}])
    BY <1>13 DEF Builds!Answer
  <2>2. [r EXCEPT !.offer = @ \ {h}, !.granted = IF level = "no" THEN @ ELSE @ \cup {h}] \in ABuild
    BY <1>0 DEF ABuild
  <2>3. \E v \in ABuild : building' = [building EXCEPT ![b] = v]
    BY <2>1, <2>2
  <2> QED BY <2>3, <1>13 DEF Builds!Answer, Builds!Config, Builds!TokenFile
<1>14. CASE Builds!Retry(b)
  <2> DEFINE v == [r EXCEPT !.shared = @ \cup r.granted]
  <2>1. v \in ABuild
    BY <1>0 DEF ABuild
  <2>2. [v EXCEPT !.pc = "build"] \in ABuild /\ [v EXCEPT !.pc = "ask"] \in ABuild /\ Builds!Over(v) \in ABuild
    BY <2>1, <1>2, <1>3 DEF Stages
  <2>3. \E x \in ABuild : building' = [building EXCEPT ![b] = x]
    <3> HIDE DEF v
    <3> QED BY <2>2, <1>14 DEF Builds!Retry, v
  <2> QED BY <2>3, <1>14 DEF Builds!Retry, Builds!Config, Builds!TokenFile
<1>15. CASE Builds!Inspect(b)
  <2>1. [r EXCEPT !.pc = "compare", !.seenTree = {yardfiles}, !.seenPin = pin] \in ABuild
    BY <1>0 DEF ABuild, Stages
  <2> QED BY <2>1, <1>15, <1>0, <1>2 DEF Builds!Inspect, Builds!Config, Builds!TokenFile
<1>16. CASE Builds!Compare(b)
  <2> QED BY <1>0, <1>2, <1>3, <1>16, "write" \in Stages DEF Builds!Compare, Builds!Config, Builds!TokenFile, Stages
<1>17. CASE Builds!WriteLines(b)
  <2>1. yardfiles' \in AFile
    <3>1. PICK f \in Builds!Edited(b) : yardfiles' = [f EXCEPT !.other = yardfiles.other]
      BY <1>17 DEF Builds!WriteLines
    <3>2. PICK g \in r.seenTree : f = [g EXCEPT !.hosts = @ \cup r.shared]
      BY DEF Builds!Edited
    <3>3. g \in AFile /\ r.shared \subseteq Builds!Hosts
      BY <1>0 DEF ABuild
    <3>4. f \in AFile
      BY <3>2, <3>3 DEF AFile
    <3> QED BY <3>1, <3>4 DEF AFile
  <2> QED BY <2>1, <1>0, <1>2, <1>3, <1>17 DEF Builds!WriteLines, Builds!TokenFile, Stages
<1>18. CASE Builds!AdoptLines(b)
  BY <1>0, <1>2, <1>18 DEF Builds!AdoptLines, Builds!TokenFile
<1>19. CASE Builds!Finish(b)
  BY <1>1, <1>19 DEF Builds!Finish, Builds!TokenFile, Builds!Config
<1>20. CASE Builds!Raises(b)
  BY <1>0, <1>1, <1>2, <1>20 DEF Builds!Raises, Builds!Mishap, Builds!Config
<1>21. CASE Builds!Kill(b)
  BY <1>0, <1>1, <1>21 DEF Builds!Kill, Builds!Mishap, Builds!Config
<1>22. CASE Builds!Expire(b)
  BY <1>0, <1>22 DEF Builds!Expire, Builds!Mishap, Builds!Config, Builds!TokenFile
<1> QED
  BY <1>5, <1>6, <1>7, <1>8, <1>9, <1>10, <1>11, <1>12, <1>13, <1>14, <1>15, <1>16, <1>17, <1>18,
     <1>19, <1>20, <1>21, <1>22 DEF Builds!Step

(* What a build's step leaves of what it read, unless it reads anew.      *)
KeepsWhatItRead(b, v) ==
  /\ v.seenPin \in {building[b].seenPin, {}}
  /\ v.pc = "adopt" => v.seenTree = v.seenPin

LEMMA LinesKept ==
  ASSUME LinesInv, NEW b \in Terminals, Builds!Step(b)
  PROVE  LinesInv'
<1> DEFINE r == building[b]
<1>0. r \in ABuild /\ building \in [Terminals -> ABuild]
  BY DEF LinesInv, BuildsType
<1>t. BuildsType'
  BY BuildsTyped DEF LinesInv
<1>1. ASSUME pin' = pin, reviewed' = reviewed,
             NEW v, building' = [building EXCEPT ![b] = v], KeepsWhatItRead(b, v)
      PROVE  LinesInv'
  BY <1>0, <1>t, <1>1 DEF LinesInv, ReadOfThePin, OnlyTheOperatorsLines, Builds!OnlyTheOperatorsLines,
    KeepsWhatItRead
<1>2. KeepsWhatItRead(b, Builds!NoBuild) /\ \A v : KeepsWhatItRead(b, Builds!Over(v))
  BY DEF KeepsWhatItRead, Builds!NoBuild, Builds!Over
<1>3. ASSUME NEW v \in ABuild, v.seenPin = r.seenPin, v.pc # "adopt"
      PROVE  KeepsWhatItRead(b, v)
  BY <1>3 DEF KeepsWhatItRead
<1>4. ASSUME NEW v \in ABuild, NEW pc \in Stages \ {"adopt"}, v.seenPin = r.seenPin
      PROVE  KeepsWhatItRead(b, [v EXCEPT !.pc = pc])
  BY <1>4 DEF KeepsWhatItRead, ABuild
<1> USE DEF Builds!Config
<1>5. CASE Builds!Start(b)
  <2>1. KeepsWhatItRead(b, [Builds!NoBuild EXCEPT !.pc = "issue", !.secret = issued + 1])
    BY DEF KeepsWhatItRead, Builds!NoBuild
  <2> QED BY <2>1, <1>1, <1>5 DEF Builds!Start
<1>6. CASE Builds!Lock(b)
  <2>1. KeepsWhatItRead(b, [r EXCEPT !.pc = Builds!Holding[@], !.copy = tokens \ expired])
    <3>1. Builds!Holding[r.pc] # "adopt"
      BY <1>6 DEF Builds!Lock, Builds!Holding
    <3> QED BY <1>0, <3>1 DEF ABuild, KeepsWhatItRead
  <2> QED BY <2>1, <1>1, <1>6 DEF Builds!Lock
<1>7. CASE Builds!Replace(b)
  BY <1>0, <1>1, <1>4, <1>7 DEF Builds!Replace, Stages
<1>8. CASE Builds!Attempt(b)
  <2>1. PICK early : building' = [building EXCEPT ![b] =
               [r EXCEPT !.pc = "runs", !.attempt = @ + 1, !.at = 1, !.seen = early, !.stop = "", !.rc = 0]]
    BY <1>8 DEF Builds!Attempt
  <2>2. KeepsWhatItRead(b, [r EXCEPT !.pc = "runs", !.attempt = @ + 1, !.at = 1, !.seen = early, !.stop = "", !.rc = 0])
    BY <1>0 DEF KeepsWhatItRead, ABuild
  <2> QED BY <2>1, <2>2, <1>1, <1>8 DEF Builds!Attempt
<1>9. CASE Builds!Allowed(b)
  <2>1. KeepsWhatItRead(b, [r EXCEPT !.at = @ + 1])
    BY <1>9, <1>0 DEF KeepsWhatItRead, ABuild, Builds!Allowed, Builds!Asks
  <2> QED BY <2>1, <1>1, <1>9 DEF Builds!Allowed
<1>10. CASE Builds!Refused(b)
  <2> DEFINE h == Wants[b][r.at]
             row == IF Builds!Trusted(b) THEN {h} ELSE {}
             v == [r EXCEPT !.seen = @ \cup row, !.at = @ + 1]
             Ended == [v EXCEPT !.pc = "judge", !.rc = 1,
                                !.stop = IF r.secret \in expired THEN "" ELSE h]
  <2>1. v.seenPin = r.seenPin /\ v.pc = "runs" /\ DOMAIN v = DOMAIN r
    BY <1>0, <1>10 DEF ABuild, Builds!Refused, Builds!Asks
  <2>2. Ended.seenPin = r.seenPin /\ Ended.pc = "judge"
    <3> HIDE DEF v, row, h
    <3> QED BY <2>1, <1>0 DEF ABuild
  <2> HIDE DEF v, Ended, row
  <2>3. PICK mine \in {v, Ended} :
          building' = [c \in Terminals |->
            IF c = b THEN mine
            ELSE IF building[c].pc \in {"runs", "judge"} THEN [building[c] EXCEPT !.seen = @ \cup row]
            ELSE building[c]]
    BY <1>10 DEF Builds!Refused, v, Ended, row
  <2>4. ASSUME NEW c \in Terminals
        PROVE  /\ building'[c].seenPin = building[c].seenPin
               /\ building'[c].pc = "adopt" => building[c].pc = "adopt" /\ building'[c].seenTree = building[c].seenTree
    <3>1. CASE c = b
      BY <2>1, <2>2, <2>3, <3>1
    <3>2. CASE c # b
      BY <2>3, <3>2, <1>0 DEF ABuild
    <3> QED BY <3>1, <3>2
  <2> QED
    BY <2>4, <1>t, <1>10 DEF Builds!Refused, LinesInv, ReadOfThePin, OnlyTheOperatorsLines,
      Builds!OnlyTheOperatorsLines
<1>11. CASE Builds!Built(b)
  <2>1. KeepsWhatItRead(b, [r EXCEPT !.pc = "judge"]) /\ KeepsWhatItRead(b, [r EXCEPT !.pc = "judge", !.rc = 1])
    BY <1>0 DEF ABuild, KeepsWhatItRead
  <2> QED BY <2>1, <1>11, <1>1 DEF Builds!Built
<1>12. CASE Builds!Judge(b)
  <2> DEFINE m == r.rc # 0 /\ r.stop # "" /\ ~Builds!Granted(r.stop) /\ r.stop \notin Builds!Refusals(b)
             v == [r EXCEPT !.missed = m]
             done == IF b \in Answering /\ v.shared # {} THEN [v EXCEPT !.pc = "ask"] ELSE Builds!Over(v)
             offer == [v EXCEPT !.pc = "offer", !.offer = Builds!Refusals(b), !.granted = {}]
  <2>1. v.seenPin = r.seenPin /\ DOMAIN v = DOMAIN r
    BY <1>0 DEF ABuild
  <2>2. KeepsWhatItRead(b, offer)
    <3> HIDE DEF v
    <3> QED BY <2>1, <1>0 DEF KeepsWhatItRead, ABuild
  <2>3. KeepsWhatItRead(b, done)
    <3>1. KeepsWhatItRead(b, [v EXCEPT !.pc = "ask"])
      <4> HIDE DEF v
      <4> QED BY <2>1, <1>0 DEF KeepsWhatItRead, ABuild
    <3> HIDE DEF v
    <3> QED BY <3>1, <1>2
  <2>4. building' = [building EXCEPT ![b] = done] \/ building' = [building EXCEPT ![b] = offer]
    BY <1>12 DEF Builds!Judge
  <2> HIDE DEF done, offer
  <2> QED BY <2>2, <2>3, <2>4, <1>1, <1>12 DEF Builds!Judge
<1>13. CASE Builds!Answer(b)
  <2>1. PICK h \in r.offer, level \in {"no", "once", "kept"} :
          Builds!Goes(b, [r EXCEPT !.offer = @ \ {h},
                     !.granted = IF level = "no" THEN @ ELSE @ \cup {h}])
    BY <1>13 DEF Builds!Answer
  <2>2. KeepsWhatItRead(b, [r EXCEPT !.offer = @ \ {h}, !.granted = IF level = "no" THEN @ ELSE @ \cup {h}])
    BY <1>0, <1>13 DEF ABuild, KeepsWhatItRead, Builds!Answer
  <2> QED BY <2>1, <2>2, <1>1, <1>13 DEF Builds!Answer
<1>14. CASE Builds!Retry(b)
  <2> DEFINE v == [r EXCEPT !.shared = @ \cup r.granted]
  <2>1. v.seenPin = r.seenPin /\ DOMAIN v = DOMAIN r
    BY <1>0 DEF ABuild
  <2>2. KeepsWhatItRead(b, [v EXCEPT !.pc = "build"]) /\ KeepsWhatItRead(b, [v EXCEPT !.pc = "ask"])
    <3> HIDE DEF v
    <3> QED BY <2>1, <1>0 DEF KeepsWhatItRead, ABuild
  <2>3. \E x : building' = [building EXCEPT ![b] = x] /\ KeepsWhatItRead(b, x)
    <3> HIDE DEF v
    <3> QED BY <2>2, <1>2, <1>14 DEF Builds!Retry, v
  <2> QED BY <2>3, <1>1, <1>14 DEF Builds!Retry
<1>15. CASE Builds!Inspect(b)
  <2> DEFINE v == [r EXCEPT !.pc = "compare", !.seenTree = {yardfiles}, !.seenPin = pin]
  <2>1. CASE Builds!Goes(b, Builds!Over(r))
    BY <2>1, <1>1, <1>2, <1>15 DEF Builds!Inspect
  <2>2. CASE Builds!Goes(b, v)
    <3>1. v.pc = "compare" /\ v.seenPin = pin
      BY <1>0 DEF ABuild
    <3> HIDE DEF v
    <3> QED
      BY <2>2, <3>1, <1>0, <1>t, <1>15 DEF Builds!Inspect, LinesInv, ReadOfThePin, OnlyTheOperatorsLines,
        Builds!OnlyTheOperatorsLines
  <2> QED BY <2>1, <2>2, <1>15 DEF Builds!Inspect
<1>16. CASE Builds!Compare(b)
  BY <1>0, <1>1, <1>2, <1>4, <1>16 DEF Builds!Compare, Stages
<1>17. CASE Builds!WriteLines(b)
  <2>1. ASSUME Builds!OwnEdit(b) PROVE KeepsWhatItRead(b, [r EXCEPT !.pc = "adopt"])
    BY <2>1, <1>0 DEF ABuild, KeepsWhatItRead, Builds!OwnEdit
  <2> QED BY <2>1, <1>1, <1>2, <1>17 DEF Builds!WriteLines
<1>18. CASE Builds!AdoptLines(b)
  <2>1. ASSUME Builds!AsReviewed(b)
        PROVE  Builds!But(yardfiles) \in reviewed
    <3>1. PICK g \in r.seenTree : yardfiles = [g EXCEPT !.hosts = @ \cup r.shared]
      BY <2>1 DEF Builds!AsReviewed, Builds!Edited
    <3>2. g \in AFile /\ g \in r.seenPin
      BY <1>0, <1>18 DEF ABuild, LinesInv, ReadOfThePin, Builds!AdoptLines
    <3>3. Builds!But(yardfiles) = Builds!But(g)
      BY <3>1, <3>2 DEF AFile, Builds!But
    <3> QED BY <3>2, <3>3 DEF LinesInv, ReadOfThePin
  <2>2. \A f \in pin' : Builds!But(f) \in reviewed'
    BY <2>1, <1>18 DEF Builds!AdoptLines, LinesInv, OnlyTheOperatorsLines, Builds!OnlyTheOperatorsLines
  <2>3. ReadOfThePin'
    BY <1>0, <1>2, <1>18 DEF Builds!AdoptLines, LinesInv, ReadOfThePin, KeepsWhatItRead
  <2> QED BY <2>2, <2>3, <1>t DEF LinesInv, OnlyTheOperatorsLines, Builds!OnlyTheOperatorsLines
<1>19. CASE Builds!Finish(b)
  BY <1>1, <1>2, <1>19 DEF Builds!Finish
<1>20. CASE Builds!Raises(b)
  BY <1>1, <1>2, <1>20 DEF Builds!Raises
<1>21. CASE Builds!Kill(b)
  BY <1>1, <1>2, <1>21 DEF Builds!Kill
<1>22. CASE Builds!Expire(b)
  BY <1>t, <1>22 DEF Builds!Expire, LinesInv, ReadOfThePin, OnlyTheOperatorsLines, Builds!OnlyTheOperatorsLines
<1> QED
  BY <1>5, <1>6, <1>7, <1>8, <1>9, <1>10, <1>11, <1>12, <1>13, <1>14, <1>15, <1>16, <1>17, <1>18,
     <1>19, <1>20, <1>21, <1>22 DEF Builds!Step

LEMMA LinesKeptBeside ==
  ASSUME LinesInv, Builds!Lapse \/ Builds!BoxEdits \/ Builds!GateAdopts
  PROVE  LinesInv'
<1>1. edits + 1 \in Nat /\ BuildsType
  BY DEF LinesInv, BuildsType
<1> USE DEF LinesInv, BuildsType, ReadOfThePin, OnlyTheOperatorsLines, Builds!OnlyTheOperatorsLines,
  Builds!Mishap, Builds!TokenFile
<1>2. CASE Builds!Lapse
  BY <1>1, <1>2 DEF Builds!Lapse, Builds!Config
<1>3. CASE Builds!BoxEdits
  <2>1. yardfiles' \in AFile
    BY <1>1, <1>3 DEF Builds!BoxEdits, AFile
  <2> QED BY <1>1, <1>3, <2>1 DEF Builds!BoxEdits
<1>4. CASE Builds!GateAdopts
  BY <1>1, <1>4 DEF Builds!GateAdopts
<1> QED BY <1>2, <1>3, <1>4

LEMMA LinesStart == ASSUME Builds!Init PROVE LinesInv
<1>1. Builds!NoBuild \in ABuild /\ Builds!Files(1, 1, {}) \in AFile
  BY DEF Builds!NoBuild, ABuild, Stages, Builds!Files, AFile
<1>2. Builds!NoBuild.pc = "idle" /\ Builds!NoBuild.seenPin = {}
  BY DEF Builds!NoBuild
<1> HIDE DEF Builds!NoBuild
<1> QED
  BY <1>1, <1>2 DEF Builds!Init, LinesInv, BuildsType, ReadOfThePin, OnlyTheOperatorsLines,
    Builds!OnlyTheOperatorsLines

(* The host never runs from files the operator was not shown, whatever the *)
(* box writes to the checkout while the gate adds its lines to it          *)
(* (buildgate.py _share).                                                  *)
THEOREM BuildsAdoptOnlyWhatWasShown == Builds!Spec => []OnlyTheOperatorsLines
<1>1. LinesInv => OnlyTheOperatorsLines
  BY DEF LinesInv
<1>2. LinesInv /\ [Builds!Next]_Builds!vars => LinesInv'
  <2>1. ASSUME LinesInv, Builds!Next PROVE LinesInv'
    BY <2>1, LinesKept, LinesKeptBeside DEF Builds!Next
  <2>2. ASSUME LinesInv, UNCHANGED Builds!vars PROVE LinesInv'
    BY <2>2 DEF Builds!vars, LinesInv, BuildsType, ReadOfThePin, OnlyTheOperatorsLines,
      Builds!OnlyTheOperatorsLines
  <2> QED BY <2>1, <2>2
<1> QED BY <1>1, <1>2, LinesStart, PTL DEF Builds!Spec

-----------------------------------------------------------------------------
(* A step of a working build leaves the file alone, and the build with its *)
(* secret.                                                                 *)
WorksOn(b, v) ==
  /\ building[b].pc \in Working /\ v.pc \in Working \cup {"revoke"}
  /\ v.secret = building[b].secret /\ ~v.missed
  /\ v.pc \in {"runs", "judge"} /\ v.stop # "" => v.stop \in v.seen

FileKept(b) ==
  /\ tokens' = tokens /\ expired' = expired /\ issued' = issued
  /\ tokenlock' = tokenlock \/ tokenlock = b

LEMMA OwnersStay ==
  ASSUME SecretsOfTheRunning, tokens' = tokens, expired \subseteq expired', orphaned' = orphaned,
         \A c \in Terminals :
           /\ building'[c].secret = building[c].secret /\ ~building'[c].missed
           /\ building'[c].pc = "ended" => building[c].pc = "ended"
  PROVE  SecretsOfTheRunning'
<1>1. ASSUME NEW s \in tokens' \ (expired' \cup orphaned')
      PROVE  \E c \in Terminals : building'[c].secret = s /\ ~(building'[c].pc = "ended")
  <2>1. PICK c \in Terminals : building[c].secret = s /\ ~(building[c].pc = "ended")
    BY DEF SecretsOfTheRunning, Builds!SecretsOfTheRunning
  <2> QED BY <2>1
<1> QED BY <1>1 DEF SecretsOfTheRunning, Builds!SecretsOfTheRunning

LEMMA WorkKeepsSecrets ==
  ASSUME BuildsInv, BuildsType', NEW b \in Terminals, FileKept(b), orphaned' = orphaned,
         NEW v, building' = [building EXCEPT ![b] = v], WorksOn(b, v)
  PROVE  BuildsInv'
<1>1. building[b] \in ABuild /\ building \in [Terminals -> ABuild]
  BY DEF BuildsInv, BuildsType
<1> USE DEF BuildsInv, FileKept, WorksOn, Working
<1>2. OwnSecrets'
  BY <1>1 DEF OwnSecrets
<1>3. Rewriting'
  BY <1>1 DEF Rewriting
<1>4. Working1'
  BY <1>1 DEF Working1
<1>5. SecretsOfTheRunning'
  <2>1. \A c \in Terminals :
          /\ building'[c].secret = building[c].secret /\ ~building'[c].missed
          /\ building'[c].pc = "ended" => building[c].pc = "ended"
    BY <1>1 DEF SecretsOfTheRunning, Builds!SecretsOfTheRunning
  <2> QED BY <2>1, OwnersStay
<1> QED BY <1>2, <1>3, <1>4, <1>5

(* A build that is gone leaves no secret, or one that is orphaned.         *)
LEMMA EndKeepsSecrets ==
  ASSUME BuildsInv, BuildsType', NEW b \in Terminals, FileKept(b),
         building' = [building EXCEPT ![b] = Builds!NoBuild],
         \/ orphaned' = orphaned /\ building[b].pc \in {"issue", "issuing", "ended"}
         \/ orphaned' = orphaned \cup {building[b].secret}
  PROVE  BuildsInv'
<1>1. building[b] \in ABuild /\ building \in [Terminals -> ABuild] /\ issued \in Nat
  BY DEF BuildsInv, BuildsType
<1>2. Builds!NoBuild.pc = "idle" /\ Builds!NoBuild.secret = 0 /\ ~Builds!NoBuild.missed
  BY DEF Builds!NoBuild
<1> HIDE DEF Builds!NoBuild
<1> USE DEF BuildsInv, FileKept, Working
<1>3. OwnSecrets'
  BY <1>1, <1>2 DEF OwnSecrets
<1>4. Rewriting'
  BY <1>1, <1>2 DEF Rewriting
<1>5. Working1'
  BY <1>1, <1>2 DEF Working1
<1>6. SecretsOfTheRunning'
  BY <1>1, <1>2 DEF SecretsOfTheRunning, Builds!SecretsOfTheRunning, OwnSecrets
<1> QED BY <1>3, <1>4, <1>5, <1>6

LEMMA SecretsKept ==
  ASSUME BuildsInv, NEW b \in Terminals, Builds!Step(b)
  PROVE  BuildsInv'
<1> DEFINE r == building[b]
<1>0. r \in ABuild /\ building \in [Terminals -> ABuild] /\ issued \in Nat
  BY DEF BuildsInv, BuildsType
<1>t. BuildsType'
  BY BuildsTyped DEF BuildsInv
<1>m. \A c \in Terminals : building[c].missed = FALSE
  BY <1>0 DEF BuildsInv, SecretsOfTheRunning, Builds!SecretsOfTheRunning, ABuild
<1>1. ASSUME UNCHANGED <<tokens, expired, tokenlock, orphaned, issued>>,
             NEW v, building' = [building EXCEPT ![b] = v], WorksOn(b, v)
      PROVE  BuildsInv'
  BY <1>1, <1>t, WorkKeepsSecrets DEF FileKept
<1>2. ASSUME NEW v, v.secret = r.secret, ~v.missed, r.pc \in Working
      PROVE  WorksOn(b, Builds!Over(v))
  <2>1. /\ Builds!Over(v).pc = "revoke" /\ Builds!Over(v).secret = v.secret
        /\ Builds!Over(v).missed = v.missed
    BY DEF Builds!Over, Builds!NoBuild
  <2> QED BY <1>2, <2>1 DEF WorksOn
<1>3. ASSUME NEW v \in ABuild, v.secret = r.secret, ~v.missed, r.pc \in Working,
             NEW pc \in Working \ {"runs", "judge"}
      PROVE  WorksOn(b, [v EXCEPT !.pc = pc])
  BY <1>3 DEF WorksOn, ABuild
<1>5. CASE Builds!Start(b)
  <2> DEFINE v == [Builds!NoBuild EXCEPT !.pc = "issue", !.secret = issued + 1]
  <2>1. v.pc = "issue" /\ v.secret = issued + 1 /\ ~v.missed
    BY DEF Builds!NoBuild
  <2>2. building' = [building EXCEPT ![b] = v] /\ issued' = issued + 1 /\ r.pc = "idle"
        /\ UNCHANGED <<tokens, expired, tokenlock, orphaned>>
    BY <1>5 DEF Builds!Start, Builds!TokenFile
  <2> HIDE DEF v
  <2>3. r.secret = 0 /\ \A c \in Terminals : building[c].secret \in Nat
    BY <1>0, <2>2 DEF BuildsInv, OwnSecrets, ABuild
  <2>4. OwnSecrets'
    BY <1>0, <2>1, <2>2, <2>3 DEF OwnSecrets, BuildsInv
  <2>5. Rewriting' /\ Working1'
    BY <1>0, <2>1, <2>2 DEF Rewriting, Working1, Working, BuildsInv
  <2>6. SecretsOfTheRunning'
    BY <1>0, <2>1, <2>2, <2>3 DEF SecretsOfTheRunning, Builds!SecretsOfTheRunning, OwnSecrets, BuildsInv
  <2> QED BY <1>t, <2>4, <2>5, <2>6 DEF BuildsInv
<1>6. CASE Builds!Lock(b)
  <2> DEFINE v == [r EXCEPT !.pc = Builds!Holding[@], !.copy = tokens \ expired]
  <2>1. /\ v.pc = Builds!Holding[r.pc] /\ v.secret = r.secret /\ v.copy = tokens \ expired
        /\ v.missed = r.missed
    BY <1>0 DEF ABuild
  <2>2. /\ building' = [building EXCEPT ![b] = v] /\ tokenlock' = b /\ tokenlock = ""
        /\ UNCHANGED <<tokens, expired, orphaned, issued>>
    BY <1>6 DEF Builds!Lock, Builds!LockFree
  <2>3. \/ r.pc = "issue" /\ v.pc = "issuing"
        \/ r.pc = "revoke" /\ v.pc = "revoking"
    BY <1>6, <2>1 DEF Builds!Lock, Builds!Holding
  <2> HIDE DEF v
  <2>4. OwnSecrets'
    BY <1>0, <2>1, <2>2, <2>3 DEF OwnSecrets, BuildsInv
  <2>5. Rewriting'
    BY <1>0, <2>1, <2>2, <2>3, TerminalsAreNamed DEF Rewriting, BuildsInv
  <2>6. Working1'
    BY <1>0, <2>1, <2>2, <2>3 DEF Working1, Working, BuildsInv
  <2>8. \A c \in Terminals :
          /\ building'[c].secret = building[c].secret /\ ~building'[c].missed
          /\ building'[c].pc = "ended" => building[c].pc = "ended"
    BY <1>0, <1>m, <2>1, <2>2, <2>3
  <2>7. SecretsOfTheRunning'
    BY <2>2, <2>8, OwnersStay DEF BuildsInv
  <2> QED BY <1>t, <2>4, <2>5, <2>6, <2>7 DEF BuildsInv
<1>7. CASE Builds!Replace(b)
  <2>0. r.pc \in {"issuing", "revoking"}
    BY <1>7 DEF Builds!Replace
  <2>1. /\ tokenlock = b
        /\ r.copy \subseteq tokens
        /\ \A s \in tokens : s \in expired \/ s \in r.copy
        /\ r.secret \in Nat /\ r.secret <= issued /\ 1 <= r.secret
        /\ \A c \in Terminals : c # b => /\ building[c].pc \notin {"issuing", "revoking"}
                                         /\ building[c].secret # r.secret
    <3>1. r.secret \in Nat /\ r.secret <= issued /\ r.secret # 0
      BY <1>0, <2>0 DEF BuildsInv, OwnSecrets, ABuild
    <3>2. \A c \in Terminals : c # b => building[c].secret # r.secret
      BY <3>1 DEF BuildsInv, OwnSecrets
    <3> QED BY <2>0, <3>1, <3>2 DEF BuildsInv, Rewriting
  <2>2. CASE /\ r.pc = "issuing" /\ tokens' = r.copy \cup {r.secret}
             /\ building' = [building EXCEPT ![b] = [r EXCEPT !.pc = "build"]]
    <3> DEFINE v == [r EXCEPT !.pc = "build"]
    <3>1. v.pc = "build" /\ v.secret = r.secret /\ v.missed = r.missed
      BY <1>0 DEF ABuild
    <3>2. /\ building' = [building EXCEPT ![b] = v]
          /\ UNCHANGED <<expired, orphaned, issued>>
      BY <2>2, <1>7 DEF Builds!Replace
    <3> HIDE DEF v
    <3>3. OwnSecrets'
      BY <1>0, <2>1, <2>2, <3>1, <3>2 DEF OwnSecrets, BuildsInv
    <3>4. Rewriting'
      BY <1>0, <2>1, <2>2, <3>1, <3>2 DEF Rewriting, BuildsInv
    <3>5. Working1'
      BY <1>0, <2>1, <2>2, <3>1, <3>2 DEF Working1, Working, BuildsInv
    <3>6. SecretsOfTheRunning'
      BY <1>0, <2>1, <2>2, <3>1, <3>2 DEF SecretsOfTheRunning, Builds!SecretsOfTheRunning, BuildsInv
    <3> QED BY <1>t, <3>3, <3>4, <3>5, <3>6 DEF BuildsInv
  <2>3. CASE /\ r.pc = "revoking" /\ tokens' = r.copy \ {r.secret}
             /\ building' = [building EXCEPT ![b] = [r EXCEPT !.pc = "ended"]]
    <3> DEFINE v == [r EXCEPT !.pc = "ended"]
    <3>1. v.pc = "ended" /\ v.secret = r.secret /\ v.missed = r.missed
      BY <1>0 DEF ABuild
    <3>2. /\ building' = [building EXCEPT ![b] = v]
          /\ UNCHANGED <<expired, orphaned, issued>>
      BY <2>3, <1>7 DEF Builds!Replace
    <3> HIDE DEF v
    <3>3. OwnSecrets'
      BY <1>0, <2>1, <2>3, <3>1, <3>2 DEF OwnSecrets, BuildsInv
    <3>4. Rewriting'
      BY <1>0, <2>1, <2>3, <3>1, <3>2 DEF Rewriting, BuildsInv
    <3>5. Working1'
      BY <1>0, <2>1, <2>3, <3>1, <3>2 DEF Working1, Working, BuildsInv
    <3>6. SecretsOfTheRunning'
      BY <1>0, <2>1, <2>3, <3>1, <3>2 DEF SecretsOfTheRunning, Builds!SecretsOfTheRunning, BuildsInv
    <3> QED BY <1>t, <3>3, <3>4, <3>5, <3>6 DEF BuildsInv
  <2> QED BY <2>2, <2>3, <1>7 DEF Builds!Replace
<1>8. CASE Builds!Attempt(b)
  <2>1. PICK early : building' = [building EXCEPT ![b] =
               [r EXCEPT !.pc = "runs", !.attempt = @ + 1, !.at = 1, !.seen = early, !.stop = "", !.rc = 0]]
    BY <1>8 DEF Builds!Attempt
  <2>2. WorksOn(b, [r EXCEPT !.pc = "runs", !.attempt = @ + 1, !.at = 1, !.seen = early, !.stop = "", !.rc = 0])
    BY <1>0, <1>8, <1>m DEF WorksOn, Working, ABuild, Builds!Attempt
  <2> QED BY <2>1, <2>2, <1>1, <1>8 DEF Builds!Attempt, Builds!TokenFile
<1>9. CASE Builds!Allowed(b)
  <2>1. WorksOn(b, [r EXCEPT !.at = @ + 1])
    BY <1>9, <1>0, <1>m DEF WorksOn, Working, ABuild, Builds!Allowed, Builds!Asks, BuildsInv, Working1
  <2> QED BY <2>1, <1>1, <1>9 DEF Builds!Allowed, Builds!TokenFile
<1>10. CASE Builds!Refused(b)
  <2> DEFINE h == Wants[b][r.at]
             row == IF Builds!Trusted(b) THEN {h} ELSE {}
             v == [r EXCEPT !.seen = @ \cup row, !.at = @ + 1]
             Ended == [v EXCEPT !.pc = "judge", !.rc = 1,
                                !.stop = IF r.secret \in expired THEN "" ELSE h]
  <2>0. r.pc = "runs" /\ UNCHANGED <<tokens, expired, tokenlock, orphaned, issued>>
    BY <1>10 DEF Builds!Refused, Builds!Asks, Builds!TokenFile
  <2>1. /\ v.seen = r.seen \cup row /\ v.pc = "runs" /\ v.secret = r.secret /\ v.missed = FALSE
        /\ v.stop = r.stop /\ DOMAIN v = DOMAIN r
    BY <1>0, <2>0, <1>m DEF ABuild
  <2>2. r.secret \notin expired => row = {h}
    BY <2>0, <1>0 DEF BuildsInv, Working1, Working, Builds!Trusted
  <2>3. /\ Ended.seen = r.seen \cup row /\ Ended.pc = "judge" /\ Ended.secret = r.secret
        /\ Ended.missed = FALSE /\ Ended.stop = IF r.secret \in expired THEN "" ELSE h
    <3> HIDE DEF v, row, h
    <3> QED BY <2>1, <1>0 DEF ABuild
  <2>4. r.stop # "" => r.stop \in r.seen
    BY <2>0 DEF BuildsInv, Working1
  <2> HIDE DEF v, Ended, row
  <2>5. PICK mine \in {v, Ended} :
          building' = [c \in Terminals |->
            IF c = b THEN mine
            ELSE IF building[c].pc \in {"runs", "judge"} THEN [building[c] EXCEPT !.seen = @ \cup row]
            ELSE building[c]]
    BY <1>10 DEF Builds!Refused, v, Ended, row
  <2>6. /\ mine.pc \in {"runs", "judge"} /\ mine.secret = r.secret /\ mine.missed = FALSE
        /\ mine.stop # "" => mine.stop \in mine.seen
    BY <2>1, <2>2, <2>3, <2>4
  <2>7. ASSUME NEW c \in Terminals
        PROVE  /\ building'[c].secret = building[c].secret /\ ~building'[c].missed
               /\ \/ building'[c].pc = building[c].pc
                  \/ building'[c].pc = "judge" /\ building[c].pc = "runs"
               /\ building'[c].pc \notin {"runs", "judge"} => building'[c] = building[c]
               /\ building'[c].pc \in {"runs", "judge"} /\ building'[c].stop # ""
                    => building'[c].stop \in building'[c].seen
    <3>1. CASE c = b
      BY <2>0, <2>5, <2>6, <3>1
    <3>2. CASE c # b /\ building[c].pc \in {"runs", "judge"}
      <4>1. building'[c] = [building[c] EXCEPT !.seen = @ \cup row]
        BY <2>5, <3>2
      <4>2. /\ building'[c].secret = building[c].secret /\ building'[c].missed = building[c].missed
            /\ building'[c].pc = building[c].pc /\ building'[c].stop = building[c].stop
            /\ building'[c].seen = building[c].seen \cup row
        BY <4>1, <1>0 DEF ABuild
      <4> QED BY <3>2, <4>2, <1>m DEF BuildsInv, Working1
    <3>3. CASE c # b /\ building[c].pc \notin {"runs", "judge"}
      BY <2>5, <3>3, <1>m
    <3> QED BY <3>1, <3>2, <3>3
  <2>12. ASSUME NEW c \in Terminals
         PROVE  /\ building'[c].secret = building[c].secret
                /\ building'[c].pc = "idle" <=> building[c].pc = "idle"
                /\ building'[c].pc \in {"issue", "issuing"} <=> building[c].pc \in {"issue", "issuing"}
    BY <2>7
  <2>8. OwnSecrets'
    BY <2>0, <2>12 DEF OwnSecrets, BuildsInv
  <2>9. Rewriting'
    BY <2>0, <2>7 DEF Rewriting, BuildsInv
  <2>10. Working1'
    BY <2>0, <2>7 DEF Working1, BuildsInv, Working
  <2>11. SecretsOfTheRunning'
    <3>1. \A c \in Terminals :
            /\ building'[c].secret = building[c].secret /\ ~building'[c].missed
            /\ building'[c].pc = "ended" => building[c].pc = "ended"
      BY <2>7
    <3> QED BY <2>0, <3>1, OwnersStay DEF BuildsInv
  <2> QED BY <1>t, <2>8, <2>9, <2>10, <2>11 DEF BuildsInv
<1>11. CASE Builds!Built(b)
  <2>1. WorksOn(b, [r EXCEPT !.pc = "judge"]) /\ WorksOn(b, [r EXCEPT !.pc = "judge", !.rc = 1])
    BY <1>0, <1>11, <1>m DEF ABuild, WorksOn, Working, Builds!Built, BuildsInv, Working1
  <2> QED BY <2>1, <1>11, <1>1 DEF Builds!Built, Builds!TokenFile
<1>12. CASE Builds!Judge(b)
  <2> DEFINE m == r.rc # 0 /\ r.stop # "" /\ ~Builds!Granted(r.stop) /\ r.stop \notin Builds!Refusals(b)
             v == [r EXCEPT !.missed = m]
             done == IF b \in Answering /\ v.shared # {} THEN [v EXCEPT !.pc = "ask"] ELSE Builds!Over(v)
             offer == [v EXCEPT !.pc = "offer", !.offer = Builds!Refusals(b), !.granted = {}]
  <2>1. ~m /\ r.pc = "judge"
    BY <1>12 DEF Builds!Judge, Builds!Refusals, BuildsInv, Working1
  <2>2. v.secret = r.secret /\ ~v.missed /\ v \in ABuild
    <3> HIDE DEF m
    <3>1. m = FALSE
      BY <2>1
    <3> QED BY <3>1, <1>0 DEF ABuild
  <2>3. WorksOn(b, offer)
    <3> HIDE DEF v
    <3> QED BY <2>1, <2>2 DEF WorksOn, Working, ABuild
  <2>4. WorksOn(b, done)
    <3> HIDE DEF v
    <3> QED BY <2>1, <2>2, <1>2, <1>3 DEF Working
  <2>5. building' = [building EXCEPT ![b] = done] \/ building' = [building EXCEPT ![b] = offer]
    BY <1>12 DEF Builds!Judge
  <2> HIDE DEF done, offer
  <2> QED BY <2>3, <2>4, <2>5, <1>1, <1>12 DEF Builds!Judge, Builds!TokenFile
<1>13. CASE Builds!Answer(b)
  <2>1. PICK h \in r.offer, level \in {"no", "once", "kept"} :
          Builds!Goes(b, [r EXCEPT !.offer = @ \ {h},
                     !.granted = IF level = "no" THEN @ ELSE @ \cup {h}])
    BY <1>13 DEF Builds!Answer
  <2>2. WorksOn(b, [r EXCEPT !.offer = @ \ {h}, !.granted = IF level = "no" THEN @ ELSE @ \cup {h}])
    BY <1>0, <1>13, <1>m DEF ABuild, WorksOn, Working, Builds!Answer
  <2> QED BY <2>1, <2>2, <1>1, <1>13 DEF Builds!Answer, Builds!TokenFile
<1>14. CASE Builds!Retry(b)
  <2> DEFINE v == [r EXCEPT !.shared = @ \cup r.granted]
  <2>1. v.secret = r.secret /\ ~v.missed /\ v \in ABuild /\ r.pc = "offer"
    BY <1>0, <1>m, <1>14 DEF ABuild, Builds!Retry
  <2>2. WorksOn(b, [v EXCEPT !.pc = "build"]) /\ WorksOn(b, [v EXCEPT !.pc = "ask"])
    <3> HIDE DEF v
    <3> QED BY <2>1, <1>3 DEF Working
  <2>3. \E x : building' = [building EXCEPT ![b] = x] /\ WorksOn(b, x)
    <3>1. r.pc \in Working
      BY <2>1 DEF Working
    <3> HIDE DEF v
    <3> QED BY <2>1, <2>2, <3>1, <1>2, <1>14 DEF Builds!Retry, v
  <2> QED BY <2>3, <1>1, <1>14 DEF Builds!Retry, Builds!TokenFile
<1>15. CASE Builds!Inspect(b)
  <2>1. WorksOn(b, [r EXCEPT !.pc = "compare", !.seenTree = {yardfiles}, !.seenPin = pin])
    BY <1>0, <1>m, <1>15 DEF ABuild, WorksOn, Working, Builds!Inspect
  <2>2. WorksOn(b, Builds!Over(r))
    BY <1>2, <1>m, <1>15 DEF Working, Builds!Inspect
  <2> QED BY <2>1, <2>2, <1>1, <1>15 DEF Builds!Inspect, Builds!TokenFile
<1>16. CASE Builds!Compare(b)
  <2>1. r.pc \in Working /\ "write" \in Working \ {"runs", "judge"}
    BY <1>16 DEF Builds!Compare, Working
  <2> QED BY <2>1, <1>0, <1>1, <1>2, <1>3, <1>m, <1>16 DEF Builds!Compare, Builds!TokenFile
<1>17. CASE Builds!WriteLines(b)
  <2>1. r.pc \in Working /\ "adopt" \in Working \ {"runs", "judge"}
    BY <1>17 DEF Builds!WriteLines, Working
  <2> QED BY <2>1, <1>0, <1>1, <1>2, <1>3, <1>m, <1>17 DEF Builds!WriteLines, Builds!TokenFile
<1>18. CASE Builds!AdoptLines(b)
  <2>1. r.pc \in Working
    BY <1>18 DEF Builds!AdoptLines, Working
  <2> QED BY <2>1, <1>1, <1>2, <1>m, <1>18 DEF Builds!AdoptLines, Builds!TokenFile
<1>19. CASE Builds!Finish(b)
  BY <1>t, <1>19, EndKeepsSecrets DEF Builds!Finish, FileKept, Builds!TokenFile
<1>20. CASE Builds!Raises(b)
  <2>1. CASE r.pc \in Working
    <3>1. WorksOn(b, Builds!Over(r)) /\ building' = [building EXCEPT ![b] = Builds!Over(r)] /\ orphaned' = orphaned
      BY <1>2, <1>m, <2>1, <1>20 DEF Builds!Raises, Working
    <3> QED BY <3>1, <1>t, <1>20, WorkKeepsSecrets DEF Builds!Raises, FileKept, Builds!LetsGo, Builds!Mishap
  <2>2. CASE r.pc \in {"issue", "issuing"}
    BY <1>t, <1>20, <2>2, EndKeepsSecrets DEF Builds!Raises, FileKept, Builds!LetsGo, Builds!Mishap
  <2>3. CASE r.pc \in {"revoke", "revoking"}
    BY <1>t, <1>20, <2>3, EndKeepsSecrets DEF Builds!Raises, FileKept, Builds!LetsGo, Builds!Mishap
  <2> QED BY <2>1, <2>2, <2>3, <1>20 DEF Builds!Raises, Working
<1>21. CASE Builds!Kill(b)
  BY <1>t, <1>21, EndKeepsSecrets DEF Builds!Kill, FileKept, Builds!LetsGo, Builds!Mishap
<1>22. CASE Builds!Expire(b)
  <2>1. /\ expired' = expired \cup {r.secret}
        /\ UNCHANGED <<tokens, tokenlock, building, orphaned, issued>>
    BY <1>22 DEF Builds!Expire, Builds!TokenFile, Builds!Mishap
  <2>2. OwnSecrets' /\ Rewriting' /\ Working1'
    BY <2>1 DEF BuildsInv, OwnSecrets, Rewriting, Working1
  <2>3. SecretsOfTheRunning'
    BY <2>1 DEF BuildsInv, SecretsOfTheRunning, Builds!SecretsOfTheRunning
  <2> QED BY <1>t, <2>2, <2>3 DEF BuildsInv
<1> QED
  BY <1>5, <1>6, <1>7, <1>8, <1>9, <1>10, <1>11, <1>12, <1>13, <1>14, <1>15, <1>16, <1>17, <1>18,
     <1>19, <1>20, <1>21, <1>22 DEF Builds!Step

LEMMA SecretsKeptBeside ==
  ASSUME BuildsInv, Builds!Lapse \/ Builds!BoxEdits \/ Builds!GateAdopts
  PROVE  BuildsInv'
<1>1. UNCHANGED <<tokens, expired, tokenlock, building, orphaned, issued>>
  BY DEF Builds!Lapse, Builds!BoxEdits, Builds!GateAdopts, Builds!Mishap, Builds!TokenFile
<1>2. /\ edits' = edits + 1
      /\ \/ UNCHANGED <<yardfiles, pin>>
         \/ pin' = {yardfiles} /\ yardfiles' = yardfiles
         \/ /\ yardfiles' \in {[yardfiles EXCEPT !.toml = 3 - @], [yardfiles EXCEPT !.other = 3 - @]}
            /\ pin' = pin
  BY DEF Builds!Lapse, Builds!BoxEdits, Builds!GateAdopts, Builds!Mishap, Builds!Config
<1>3. BuildsType'
  <2>1. edits + 1 \in Nat /\ yardfiles \in AFile
    BY DEF BuildsInv, BuildsType
  <2>2. yardfiles' \in AFile
    BY <1>2, <2>1 DEF AFile
  <2> QED BY <1>1, <1>2, <2>1, <2>2 DEF BuildsInv, BuildsType
<1>4. OwnSecrets' /\ Rewriting' /\ Working1'
  BY <1>1 DEF BuildsInv, OwnSecrets, Rewriting, Working1
<1>5. SecretsOfTheRunning'
  BY <1>1, OwnersStay DEF BuildsInv, SecretsOfTheRunning, Builds!SecretsOfTheRunning
<1> QED BY <1>3, <1>4, <1>5 DEF BuildsInv

LEMMA SecretsStart == ASSUME Builds!Init PROVE BuildsInv
<1>1. Builds!NoBuild.pc = "idle" /\ Builds!NoBuild.secret = 0 /\ ~Builds!NoBuild.missed
  BY DEF Builds!NoBuild
<1>2. BuildsType
  BY LinesStart DEF LinesInv
<1> HIDE DEF Builds!NoBuild
<1>3. \A b \in Terminals : building[b] = Builds!NoBuild
  BY DEF Builds!Init
<1>4. tokens = {} /\ issued = 0
  BY DEF Builds!Init
<1>5. BuildsInv
  <2>1. OwnSecrets
    BY <1>1, <1>3, <1>4 DEF OwnSecrets
  <2>2. Rewriting /\ Working1
    BY <1>1, <1>3, <1>4 DEF Rewriting, Working1, Working
  <2>3. SecretsOfTheRunning
    BY <1>1, <1>3, <1>4 DEF SecretsOfTheRunning, Builds!SecretsOfTheRunning
  <2> QED BY <1>2, <2>1, <2>2, <2>3 DEF BuildsInv
<1> QED BY <1>5

(* Secrets are those of the builds that run, and what a build is refused   *)
(* is among what it is offered, however many rewrite the one file          *)
(* (buildgate.py _tokens_update, _run).                                    *)
THEOREM SecretsAreOfTheRunning == Builds!Spec => []SecretsOfTheRunning
<1>1. BuildsInv => SecretsOfTheRunning
  BY DEF BuildsInv
<1>2. BuildsInv /\ [Builds!Next]_Builds!vars => BuildsInv'
  <2>1. ASSUME BuildsInv, Builds!Next PROVE BuildsInv'
    BY <2>1, SecretsKept, SecretsKeptBeside DEF Builds!Next
  <2>2. ASSUME BuildsInv, UNCHANGED Builds!vars PROVE BuildsInv'
    <3>1. UNCHANGED <<tokens, expired, tokenlock, building, orphaned, issued, yardfiles, pin, edits>>
      BY <2>2 DEF Builds!vars
    <3>2. BuildsType' /\ OwnSecrets' /\ Rewriting' /\ Working1'
      BY <2>2, <3>1 DEF BuildsInv, BuildsType, OwnSecrets, Rewriting, Working1
    <3>3. SecretsOfTheRunning'
      BY <2>2, <3>1 DEF BuildsInv, SecretsOfTheRunning, Builds!SecretsOfTheRunning
    <3> QED BY <3>2, <3>3 DEF BuildsInv
  <2> QED BY <2>1, <2>2
<1> QED BY <1>1, <1>2, SecretsStart, PTL DEF Builds!Spec

-----------------------------------------------------------------------------
(* The credentials' health.                                                *)

Verdicts == [Probed -> {"none", "ok", "bad"}]
ARound == [pc : {"off", "read", "probe", "mirror", "advance", "publish", "react", "live"},
           on : SUBSET Probed, map : Verdicts, edges : SUBSET Probed]
AnAgent == [pc : {"idle", "wait", "catchup", "launched"}, stamps : 0..3,
            new : BOOLEAN, late : BOOLEAN, raced : BOOLEAN]
HealthType ==
  /\ switches \subseteq Probed
  /\ worker \in [Probed -> {"none", "run", "end"}]
  /\ DOMAIN passed = Probed /\ passed = [a \in Probed |-> passed[a]]
  /\ baseline = {} \/ \E m \in Verdicts : baseline = {m}
  /\ published \in Verdicts /\ verdicts \in Verdicts /\ unsaved \in BOOLEAN
  /\ round \in ARound
  /\ agent \in AnAgent
  /\ agent.pc = "catchup" => agent.stamps \in {1, 2}

(* What has been compared is what was published, but for a write that is   *)
(* to come or failed.                                                      *)
PublishedOrKnown ==
  /\ round.pc \in {"publish", "react"} => baseline = {round.map}
  /\ \A m \in baseline : unsaved \/ round.pc = "publish" \/ published = m

Pending(a) == round.pc \in {"publish", "react"} /\ a \in round.edges

(* A listed switch published as failing is not known to work yet, or is    *)
(* being seen to.                                                          *)
NoneForgotten ==
  \A a \in Recreated \cap broken \cap claimed :
    \/ passed[a] # {}
    \/ worker[a] = "run"
    \/ baseline = {} /\ published[a] # "ok"
    \/ baseline # {} /\ \A m \in baseline : m[a] # "ok" \/ Pending(a)

(* Mirror writes the waiting agent has counted, or will at its next look.  *)
Writes == agent.stamps + (IF agent.new THEN 1 ELSE 0)

(* After the first, the mode the supervisor has read is the one that is    *)
(* on; after the second, so has the proxy.                                 *)
WaitsItOut ==
  agent.pc \in {"catchup", "launched"} /\ ~agent.late /\ ~agent.raced =>
    /\ Awaited \in switches
    /\ Writes >= 2 => /\ round.on = switches /\ round.pc # "off"
                      /\ Awaited \in proxied
                         \/ round.pc \in {"advance", "publish", "react", "live"}
    /\ Writes >= 3 => Awaited \in proxied
    /\ agent.pc = "launched" => agent.stamps = 3

HealthInv == HealthType /\ PublishedOrKnown /\ NoneForgotten /\ WaitsItOut

USE DEF Health!At

(* Steps that leave the recoveries alone, and steps that leave the agent.  *)
LEMMA RecoveriesKept ==
  ASSUME HealthInv, HealthType', UNCHANGED <<published, worker, passed, broken, claimed, baseline, unsaved>>,
         round.pc \in {"publish", "react"} <=> round'.pc \in {"publish", "react"},
         round'.pc # "publish" => round.pc # "publish",
         round'.pc \in {"publish", "react"} => round'.map = round.map /\ round'.edges = round.edges
  PROVE  PublishedOrKnown' /\ NoneForgotten'
<1>1. PublishedOrKnown'
  BY DEF HealthInv, PublishedOrKnown
<1>2. NoneForgotten'
  BY DEF HealthInv, NoneForgotten, Pending
<1> QED BY <1>1, <1>2

LEMMA WaitKept ==
  ASSUME HealthInv, UNCHANGED <<switches, proxied, agent>>, round'.on = round.on,
         round.pc # "off" => round'.pc # "off",
         round.pc \in {"advance", "publish", "react", "live"}
           => round'.pc \in {"advance", "publish", "react", "live"}
  PROVE  WaitsItOut'
  BY DEF HealthInv, WaitsItOut, Writes

LEMMA TicksKept == ASSUME HealthInv, Health!Tick PROVE HealthInv'
<1> USE DEF Health!healthVars
<1>0. HealthType /\ round \in ARound /\ agent \in AnAgent /\ baseline \subseteq Verdicts
  BY DEF HealthInv, HealthType
<1>n. Health!NoMap \in Verdicts /\ Health!NoTick \in ARound
  BY DEF Health!NoMap, Health!NoTick, Verdicts, ARound
<1>1. CASE Health!Boot
  <2>1. round' \in ARound /\ round'.pc = "read" /\ round.pc = "off"
    BY <1>1, <1>n DEF Health!Boot, ARound
  <2>2. UNCHANGED <<switches, worker, passed, baseline, published, verdicts, unsaved, agent, broken,
                    claimed, proxied>>
    BY <1>1 DEF Health!Boot
  <2>3. HealthType'
    BY <2>1, <2>2, <1>0 DEF HealthType
  <2>4. WaitsItOut'
    BY <2>1, <2>2 DEF HealthInv, WaitsItOut, Writes
  <2> QED BY <2>1, <2>2, <2>3, <2>4, RecoveriesKept DEF HealthInv
<1>2. CASE Health!Read
  <2>1. round' \in ARound /\ round'.pc = "probe" /\ round.pc = "read" /\ round'.on = switches
    BY <1>2, <1>0 DEF Health!Read, ARound, HealthType
  <2>2. UNCHANGED <<switches, worker, passed, baseline, published, verdicts, unsaved, agent, broken,
                    claimed, proxied>>
    BY <1>2 DEF Health!Read
  <2>3. HealthType'
    BY <2>1, <2>2, <1>0 DEF HealthType
  <2>4. WaitsItOut'
    BY <2>1, <2>2 DEF HealthInv, WaitsItOut, Writes
  <2> QED BY <2>1, <2>2, <2>3, <2>4, RecoveriesKept DEF HealthInv
<1>3. CASE Health!Probe
  <2>1. verdicts' \in Verdicts
    <3>1. PICK due \in SUBSET {a \in round.on : verdicts[a] # "none"} :
            verdicts' = [a \in Probed |->
                   IF a \notin round.on \/ a \in Health!Warming THEN "none"
                   ELSE IF verdicts[a] = "none" \/ a \in due THEN IF Health!Works(a) THEN "ok" ELSE "bad"
                   ELSE verdicts[a]]
      BY <1>3 DEF Health!Probe
    <3>2. \A a \in Probed : verdicts[a] \in {"none", "ok", "bad"}
      BY <1>0 DEF HealthType, Verdicts
    <3> QED BY <3>1, <3>2 DEF Verdicts
  <2>2. round' = [round EXCEPT !.pc = "mirror", !.map = verdicts'] /\ round.pc = "probe"
    BY <1>3 DEF Health!Probe
  <2>3. round' \in ARound /\ round'.pc = "mirror" /\ round'.on = round.on
    BY <2>1, <2>2, <1>0 DEF ARound
  <2>4. UNCHANGED <<switches, worker, passed, baseline, published, unsaved, agent, broken, claimed, proxied>>
    BY <1>3 DEF Health!Probe
  <2>5. HealthType'
    BY <2>1, <2>3, <2>4, <1>0 DEF HealthType
  <2>6. WaitsItOut'
    BY <2>2, <2>3, <2>4, WaitKept
  <2> QED BY <2>2, <2>3, <2>4, <2>5, <2>6, RecoveriesKept DEF HealthInv
<1>4. CASE Health!Mirror
  <2>1. round' \in ARound /\ round'.pc = "advance" /\ round.pc = "mirror" /\ round'.on = round.on
    BY <1>4, <1>0 DEF Health!Mirror, ARound
  <2>2. /\ agent'.new = (agent.pc = "catchup")
        /\ agent'.raced = (agent.raced \/ (Health!Waiting /\ round.on # switches))
        /\ agent'.pc = agent.pc /\ agent'.stamps = agent.stamps /\ agent'.late = agent.late
        /\ agent' \in AnAgent
    BY <1>4, <1>0 DEF Health!Mirror, AnAgent
  <2>3. UNCHANGED <<switches, worker, passed, baseline, published, verdicts, unsaved, broken,
                    claimed, proxied>>
    BY <1>4 DEF Health!Mirror
  <2>4. HealthType'
    BY <2>1, <2>2, <2>3, <1>0 DEF HealthType
  <2>5. WaitsItOut'
    <3>1. agent.stamps \in 0..3 /\ agent.new \in BOOLEAN
      BY <1>0 DEF AnAgent
    <3>2. SUFFICES ASSUME agent.pc \in {"catchup", "launched"}, ~agent.late, ~agent.raced,
                          round.on = switches
          PROVE  WaitsItOut'
      BY <2>2 DEF WaitsItOut, Health!Waiting
    <3>3. /\ Awaited \in switches
          /\ Writes >= 2 => Awaited \in proxied
          /\ agent.pc = "launched" => agent.stamps = 3
      BY <2>1, <3>2 DEF HealthInv, WaitsItOut
    <3>4. agent.stamps >= 2 => Writes >= 2
      BY <3>1 DEF Writes
    <3>5. CASE agent.pc = "launched"
      BY <2>1, <2>2, <2>3, <3>1, <3>2, <3>3, <3>4, <3>5 DEF WaitsItOut, Writes
    <3>6. CASE agent.pc = "catchup"
      <4>1. Writes' = agent.stamps + 1
        BY <2>2, <3>6 DEF Writes
      <4>2. Writes' >= 3 => Awaited \in proxied
        BY <4>1, <3>1, <3>3, <3>4
      <4> QED BY <2>1, <2>2, <2>3, <3>2, <3>3, <3>6, <4>2 DEF WaitsItOut
    <3> QED BY <3>2, <3>5, <3>6
  <2> QED BY <2>1, <2>2, <2>3, <2>4, <2>5, RecoveriesKept DEF HealthInv
<1>5. CASE Health!Advance
  <2>1. PICK before \in Health!Baseline :
          /\ round' = [round EXCEPT !.pc = "publish",
                         !.edges = {a \in Probed : \/ before[a] = "none" /\ round.map[a] = "bad"
                                                   \/ {before[a], round.map[a]} = {"ok", "bad"}}]
          /\ passed' = [a \in Probed |-> passed[a] \cup
                          IF /\ round.map[a] = "ok" /\ a \in claimed
                             /\ before[a] = "none" /\ (published[a] = "none" \/ unsaved)
                          THEN {"unclaimed"} ELSE {}]
    BY <1>5 DEF Health!Advance
  <2>2. /\ baseline' = {round.map} /\ round.pc = "advance"
        /\ claimed' = claimed \cup {a \in broken : round.map[a] = "bad"}
        /\ UNCHANGED <<switches, worker, published, verdicts, unsaved, agent, broken, proxied>>
    BY <1>5 DEF Health!Advance
  <2>3. /\ round' \in ARound /\ round'.pc = "publish" /\ round'.on = round.on /\ round'.map = round.map
        /\ \A a \in Probed : {before[a], round.map[a]} = {"ok", "bad"} => a \in round'.edges
    BY <2>1, <1>0 DEF ARound
  <2>4. round.map \in Verdicts /\ published \in Verdicts
    BY <1>0 DEF ARound, HealthType
  <2>5. HealthType'
    BY <2>1, <2>2, <2>3, <2>4, <1>0 DEF HealthType
  <2>6. WaitsItOut'
    BY <2>2, <2>3, WaitKept
  <2>7. PublishedOrKnown'
    BY <2>2, <2>3 DEF PublishedOrKnown
  <2>8. /\ before \in Verdicts
        /\ \/ baseline = {} /\ before = published
           \/ before \in baseline
    BY <2>4, <1>0 DEF Health!Baseline
  <2>9. ASSUME NEW a \in Recreated \cap broken' \cap claimed', passed'[a] = {}, worker'[a] # "run",
               round.map[a] = "ok"
        PROVE  a \in round'.edges
    <3>1. a \in Probed /\ a \in claimed /\ passed[a] = {} /\ worker[a] # "run"
      BY <2>1, <2>2, <2>9, RecreatedAreProbed
    <3>2. ~(before[a] = "none" /\ (published[a] = "none" \/ unsaved))
      BY <2>1, <2>9, <3>1
    <3>3. before[a] # "ok"
      BY <2>2, <2>8, <2>9, <3>1 DEF HealthInv, NoneForgotten, Pending
    <3>4. before[a] = "none" => unsaved \/ published[a] = "none"
      BY <2>2, <2>8 DEF HealthInv, PublishedOrKnown
    <3>5. before[a] = "bad"
      BY <2>8, <3>1, <3>2, <3>3, <3>4 DEF Verdicts
    <3> QED BY <2>3, <2>9, <3>1, <3>5
  <2>10. NoneForgotten'
    BY <2>2, <2>3, <2>9 DEF NoneForgotten, Pending
  <2> QED BY <2>5, <2>6, <2>7, <2>10 DEF HealthInv
<1>6. CASE Health!Publish
  <2>1. /\ round' \in ARound /\ round'.pc = "react" /\ round.pc = "publish" /\ round'.on = round.on
        /\ round'.map = round.map /\ round'.edges = round.edges
    BY <1>6, <1>0 DEF Health!Publish, ARound
  <2>2. /\ UNCHANGED <<switches, worker, passed, baseline, verdicts, agent, broken, claimed, proxied>>
        /\ \/ published' = round.map /\ unsaved' = FALSE
           \/ unsaved' = TRUE /\ published' = published
    BY <1>6 DEF Health!Publish
  <2>3. round.map \in Verdicts
    BY <1>0 DEF ARound
  <2>4. HealthType'
    BY <2>1, <2>2, <2>3, <1>0 DEF HealthType
  <2>5. WaitsItOut'
    BY <2>1, <2>2, WaitKept
  <2>6. PublishedOrKnown'
    BY <2>1, <2>2 DEF HealthInv, PublishedOrKnown
  <2>7. NoneForgotten'
    <3>1. baseline = {round.map}
      BY <2>1 DEF HealthInv, PublishedOrKnown
    <3> QED BY <2>1, <2>2, <3>1 DEF HealthInv, NoneForgotten, Pending
  <2> QED BY <2>4, <2>5, <2>6, <2>7 DEF HealthInv
<1>7. CASE Health!React
  <2> DEFINE healed == {a \in round.edges \cap Recreated : round.map[a] = "ok"}
  <2>1. /\ round' \in ARound /\ round'.pc = "live" /\ round.pc = "react" /\ round'.on = round.on
    BY <1>7, <1>0 DEF Health!React, ARound
  <2>2. /\ UNCHANGED <<switches, published, unsaved, baseline, verdicts, agent, broken, claimed, proxied>>
        /\ worker' = [a \in Probed |-> IF a \in healed /\ worker[a] = "none" THEN "run" ELSE worker[a]]
        /\ passed' = [a \in Probed |-> passed[a] \cup
                        IF a \in healed /\ worker[a] # "none" THEN {"busy"} ELSE {}]
    BY <1>7 DEF Health!React
  <2> HIDE DEF healed
  <2>3. HealthType'
    BY <2>1, <2>2, <1>0 DEF HealthType
  <2>4. WaitsItOut'
    BY <2>1, <2>2, WaitKept
  <2>5. PublishedOrKnown'
    BY <2>1, <2>2 DEF HealthInv, PublishedOrKnown
  <2>6. NoneForgotten'
    <3>1. baseline = {round.map}
      BY <2>1 DEF HealthInv, PublishedOrKnown
    <3>2. SUFFICES ASSUME NEW a \in Recreated \cap broken \cap claimed
          PROVE  \/ passed'[a] # {}
                 \/ worker'[a] = "run"
                 \/ baseline = {} /\ published[a] # "ok"
                 \/ baseline # {} /\ \A m \in baseline : m[a] # "ok"
      BY <2>1, <2>2, <3>2 DEF NoneForgotten
    <3>3. a \in Probed
      BY RecreatedAreProbed
    <3>4. CASE a \in healed
      BY <2>2, <3>3, <3>4
    <3>5. CASE a \notin healed
      <4>1. a \in round.edges => round.map[a] # "ok"
        BY <3>5 DEF healed
      <4> QED BY <2>2, <3>1, <3>3, <3>5, <4>1 DEF HealthInv, NoneForgotten, Pending
    <3> QED BY <3>4, <3>5
  <2> QED BY <2>3, <2>4, <2>5, <2>6 DEF HealthInv
<1>8. CASE Health!Live
  <2>1. /\ round' \in ARound /\ round'.pc = "read" /\ round.pc = "live" /\ round'.on = round.on
    BY <1>8, <1>0, <1>n DEF Health!Live, ARound
  <2>2. /\ UNCHANGED <<switches, published, unsaved, baseline, verdicts, agent, worker, passed>>
        /\ proxied' = round.on
        /\ \E S : Health!Breaks(S)
    BY <1>8 DEF Health!Live
  <2>3. Recreated \cap broken' \cap claimed' \subseteq broken \cap claimed
    BY <2>2 DEF Health!Breaks
  <2>4. HealthType'
    BY <2>1, <2>2, <1>0 DEF HealthType
  <2>5. PublishedOrKnown'
    BY <2>1, <2>2 DEF HealthInv, PublishedOrKnown
  <2>6. NoneForgotten'
    BY <2>1, <2>2, <2>3 DEF HealthInv, NoneForgotten, Pending
  <2>7. WaitsItOut'
    <3>1. agent.stamps \in 0..3
      BY <1>0 DEF AnAgent
    <3>2. Writes >= 3 => Writes >= 2
      BY <3>1 DEF Writes
    <3> QED BY <2>1, <2>2, <3>2 DEF HealthInv, WaitsItOut, Writes
  <2> QED BY <2>4, <2>5, <2>6, <2>7 DEF HealthInv
<1> QED BY <1>1, <1>2, <1>3, <1>4, <1>5, <1>6, <1>7, <1>8 DEF Health!Tick

(* Recreates, launches and whatever happens around them.                   *)
LEMMA OthersKept ==
  ASSUME HealthInv, Health!Launch \/ Health!Kill \/ Health!ShutDown
  PROVE  HealthInv'
<1> USE DEF Health!healthVars
<1>0. HealthType /\ round \in ARound /\ agent \in AnAgent /\ baseline \subseteq Verdicts
  BY DEF HealthInv, HealthType
<1>n. /\ Health!NoMap \in Verdicts /\ Health!NoTick \in ARound /\ Health!NoTick.pc = "off"
      /\ Health!NoAgent \in AnAgent /\ Health!NoAgent.pc = "idle"
  BY DEF Health!NoMap, Health!NoTick, Health!NoAgent, Verdicts, ARound, AnAgent
<1>1. CASE Health!Launch
  <2>1. UNCHANGED <<switches, mirrored, proxied, chain, minter, round, verdicts, baseline, published,
                    unsaved, worker, broken, claimed, passed>>
    BY <1>1 DEF Health!Launch, Health!Await, Health!Impatient, Health!SeeOn, Health!Poll,
      Health!GiveUp, Health!Leave
  <2>2. /\ agent' \in AnAgent /\ (agent'.pc = "catchup" => agent'.stamps \in {1, 2})
        /\ WaitsItOut'
    <3>0. /\ agent.stamps \in 0..3 /\ agent.new \in BOOLEAN
          /\ agent.pc = "catchup" => agent.stamps \in {1, 2}
      BY <1>0 DEF AnAgent, HealthType
    <3>1. CASE Health!Await
      BY <2>1, <1>n, <3>1 DEF Health!Await, Health!NoAgent, AnAgent, WaitsItOut
    <3>2. CASE Health!Impatient
      BY <2>1, <1>n, <3>2 DEF Health!Impatient, Health!NoAgent, AnAgent, WaitsItOut
    <3>3. CASE Health!SeeOn
      <4>1. /\ agent'.pc = "catchup" /\ agent'.stamps = 1 /\ agent'.new = FALSE
            /\ agent'.raced = (Awaited \notin switches) /\ agent' \in AnAgent
        <5> DEFINE off == Awaited \notin switches
        <5>1. agent' = [Health!NoAgent EXCEPT !.pc = "catchup", !.stamps = 1, !.raced = off]
          BY <3>3 DEF Health!SeeOn
        <5>2. off \in BOOLEAN /\ 1 \in 0..3
          OBVIOUS
        <5>3. off = (Awaited \notin switches)
          OBVIOUS
        <5> HIDE DEF off
        <5> QED BY <5>1, <5>2, <5>3 DEF Health!NoAgent, AnAgent
      <4>2. Writes' = 1
        BY <4>1 DEF Writes
      <4>3. WaitsItOut'
        <5>1. ~agent'.raced => Awaited \in switches'
          BY <2>1, <4>1
        <5>2. ~(Writes' >= 2) /\ ~(Writes' >= 3)
          BY <4>2
        <5> QED BY <4>1, <5>1, <5>2 DEF WaitsItOut
      <4> QED BY <4>1, <4>3
    <3>4. CASE Health!Poll
      <4>1. /\ agent.pc = "catchup" /\ agent.new = TRUE
            /\ agent'.new = FALSE /\ agent'.stamps = agent.stamps + 1 /\ agent'.late = agent.late
            /\ agent'.raced = agent.raced
            /\ agent'.pc = IF agent.stamps + 1 = 3 THEN "launched" ELSE "catchup"
        BY <3>4, <1>0, <3>0 DEF Health!Poll, Health!Stamps, AnAgent
      <4>2. agent.stamps + 1 \in {2, 3} /\ Writes' = Writes
        BY <3>0, <4>1 DEF Writes
      <4>3. agent' \in AnAgent
        <5> DEFINE pc == IF agent.stamps + 1 = Health!Stamps THEN "launched" ELSE "catchup"
                   n == agent.stamps + 1
        <5>1. agent' = [agent EXCEPT !.new = FALSE, !.stamps = n, !.pc = pc]
          BY <3>4 DEF Health!Poll
        <5>2. n \in 0..3 /\ pc \in {"launched", "catchup"}
          BY <4>2
        <5> HIDE DEF n, pc
        <5> QED BY <5>1, <5>2, <1>0 DEF AnAgent
      <4>4. (agent'.pc = "catchup" => agent'.stamps \in {1, 2}) /\ (agent'.pc = "launched" => agent'.stamps = 3)
        BY <4>1, <4>2
      <4>5. WaitsItOut'
        BY <2>1, <4>1, <4>2, <4>4 DEF WaitsItOut, HealthInv
      <4> QED BY <4>3, <4>4, <4>5
    <3>5. CASE Health!GiveUp
      BY <2>1, <1>0, <3>5 DEF Health!GiveUp, AnAgent, WaitsItOut
    <3>6. CASE Health!Leave
      BY <2>1, <1>n, <3>6 DEF Health!Leave, Health!NoAgent, WaitsItOut
    <3> QED BY <3>1, <3>2, <3>3, <3>4, <3>5, <3>6, <1>1 DEF Health!Launch
  <2>3. HealthType'
    BY <2>1, <2>2, <1>0 DEF HealthType
  <2> QED BY <2>1, <2>2, <2>3, RecoveriesKept DEF HealthInv
<1>2. CASE Health!Kill \/ Health!ShutDown
  <2>1. /\ round' = Health!NoTick /\ verdicts' = Health!NoMap /\ baseline' = {}
        /\ worker' = [a \in Probed |-> "none"]
        /\ passed' = [a \in Probed |-> passed[a] \cup
                        IF worker[a] # "none" \/ unsaved \/ round.pc \in {"publish", "react"}
                        THEN {"killed"} ELSE {}]
        /\ UNCHANGED <<switches, proxied, chain, published, unsaved>>
    BY <1>2 DEF Health!Kill, Health!ShutDown, Health!Ends
  <2>2. /\ agent'.raced = (agent.raced \/ Health!Waiting) /\ agent'.pc = agent.pc
        /\ agent'.late = agent.late /\ agent'.stamps = agent.stamps /\ agent' \in AnAgent
    BY <1>2, <1>0 DEF Health!Kill, Health!ShutDown, AnAgent
  <2>3. Recreated \cap broken' \cap claimed' \subseteq broken \cap claimed
    BY <1>2 DEF Health!Kill, Health!ShutDown, Health!Breaks
  <2>4. HealthType'
    BY <2>1, <2>2, <1>0, <1>n DEF HealthType
  <2>5. PublishedOrKnown'
    BY <2>1, <1>n DEF PublishedOrKnown
  <2>6. WaitsItOut'
    BY <2>2, <1>0 DEF WaitsItOut, Health!Waiting, AnAgent
  <2>7. NoneForgotten'
    <3>1. SUFFICES ASSUME NEW a \in Recreated \cap broken \cap claimed, passed'[a] = {}
          PROVE  published[a] # "ok"
      BY <2>1, <2>3, <3>1 DEF NoneForgotten
    <3>2. /\ a \in Probed /\ passed[a] = {} /\ worker[a] = "none" /\ ~unsaved
          /\ round.pc \notin {"publish", "react"}
      BY <2>1, <3>1, RecreatedAreProbed
    <3> QED BY <3>1, <3>2 DEF HealthInv, NoneForgotten, PublishedOrKnown, Pending
  <2> QED BY <2>4, <2>5, <2>6, <2>7 DEF HealthInv
<1> QED BY <1>1, <1>2

LEMMA AxesKept ==
  ASSUME HealthInv,
         \/ \E a \in Probed :
              Health!Recreate(a) \/ Health!WorkerEnds(a) \/ Health!SetMode(a) \/ Health!Provider(a)
         \/ \E a \in Minted : Health!DaemonDies(a) \/ Health!Ages(a)
  PROVE  HealthInv'
<1> USE DEF Health!healthVars
<1>0. HealthType /\ round \in ARound /\ agent \in AnAgent
  BY DEF HealthInv, HealthType
<1>1. ASSUME NEW a \in Probed, Health!Recreate(a) PROVE HealthInv'
  <2>1. /\ worker[a] = "run" /\ worker' = [worker EXCEPT ![a] = "end"]
        /\ UNCHANGED <<switches, proxied, round, verdicts, baseline, published, unsaved, agent>>
        /\ \/ claimed' = claimed \ {a} /\ passed' = [passed EXCEPT ![a] = {}]
              /\ broken' \subseteq broken \cup {a}
           \/ passed' = [passed EXCEPT ![a] = @ \cup {"failed"}] /\ UNCHANGED <<broken, claimed>>
    BY <1>1 DEF Health!Recreate
  <2>2. HealthType'
    BY <2>1, <1>0 DEF HealthType
  <2>3. PublishedOrKnown' /\ WaitsItOut'
    BY <2>1 DEF HealthInv, PublishedOrKnown, WaitsItOut, Writes
  <2>4. NoneForgotten'
    BY <2>1, <1>0, RecreatedAreProbed DEF HealthInv, HealthType, NoneForgotten, Pending
  <2> QED BY <2>2, <2>3, <2>4 DEF HealthInv
<1>2. ASSUME NEW a \in Probed, Health!WorkerEnds(a) PROVE HealthInv'
  <2>1. /\ worker[a] = "end" /\ worker' = [worker EXCEPT ![a] = "none"]
        /\ UNCHANGED <<switches, proxied, round, verdicts, baseline, published, unsaved, agent,
                       passed, broken, claimed>>
    BY <1>2 DEF Health!WorkerEnds
  <2>2. HealthType'
    BY <2>1, <1>0 DEF HealthType
  <2>3. PublishedOrKnown' /\ WaitsItOut'
    BY <2>1 DEF HealthInv, PublishedOrKnown, WaitsItOut, Writes
  <2>4. NoneForgotten'
    BY <2>1, <1>0, RecreatedAreProbed DEF HealthInv, HealthType, NoneForgotten, Pending
  <2> QED BY <2>2, <2>3, <2>4 DEF HealthInv
<1>3. ASSUME NEW a \in Probed, Health!SetMode(a) PROVE HealthInv'
  <2>1. /\ switches' \subseteq Probed
        /\ claimed' = claimed \ {a} /\ passed' = [passed EXCEPT ![a] = {}]
        /\ broken' \subseteq broken \cup {a}
        /\ UNCHANGED <<proxied, round, verdicts, baseline, published, unsaved, worker>>
    BY <1>3, <1>0 DEF Health!SetMode, HealthType
  <2>2. /\ agent'.raced = Health!Waiting /\ agent'.pc = agent.pc
        /\ agent'.late = agent.late /\ agent'.stamps = agent.stamps /\ agent' \in AnAgent
    <3>1. Health!Waiting \in BOOLEAN /\ (agent.pc = "catchup") \in BOOLEAN
      BY DEF Health!Waiting
    <3>2. agent' = [agent EXCEPT !.raced = Health!Waiting, !.new = (agent.pc = "catchup")]
      BY <1>3 DEF Health!SetMode
    <3> QED BY <3>1, <3>2, <1>0 DEF AnAgent
  <2>3. HealthType'
    BY <2>1, <2>2, <1>0 DEF HealthType
  <2>4. PublishedOrKnown'
    BY <2>1 DEF HealthInv, PublishedOrKnown
  <2>5. WaitsItOut'
    BY <2>2 DEF WaitsItOut, Health!Waiting
  <2>6. NoneForgotten'
    BY <2>1, <1>0, RecreatedAreProbed DEF HealthInv, HealthType, NoneForgotten, Pending
  <2> QED BY <2>3, <2>4, <2>5, <2>6 DEF HealthInv
<1>4. ASSUME NEW a, Health!Provider(a) \/ Health!DaemonDies(a) \/ Health!Ages(a) PROVE HealthInv'
  <2>1. /\ UNCHANGED <<switches, proxied, round, verdicts, baseline, published, unsaved, worker,
                       passed, agent>>
        /\ (\E S : Health!Breaks(S)) \/ UNCHANGED <<broken, claimed>>
    BY <1>4 DEF Health!Provider, Health!DaemonDies, Health!Ages
  <2>2. Recreated \cap broken' \cap claimed' \subseteq broken \cap claimed
    BY <2>1 DEF Health!Breaks
  <2>3. HealthType'
    BY <2>1, <1>0 DEF HealthType
  <2>4. PublishedOrKnown' /\ WaitsItOut'
    BY <2>1 DEF HealthInv, PublishedOrKnown, WaitsItOut, Writes
  <2>5. NoneForgotten'
    BY <2>1, <2>2 DEF HealthInv, NoneForgotten, Pending
  <2> QED BY <2>3, <2>4, <2>5 DEF HealthInv
<1> QED BY <1>1, <1>2, <1>3, <1>4

LEMMA HealthStart == ASSUME Health!Init PROVE HealthInv
<1>1. /\ Health!NoMap \in Verdicts /\ Health!NoTick \in ARound /\ Health!NoTick.pc = "off"
      /\ Health!NoAgent \in AnAgent /\ Health!NoAgent.pc = "idle"
  BY DEF Health!NoMap, Health!NoTick, Health!NoAgent, Verdicts, ARound, AnAgent
<1> HIDE DEF Health!NoMap, Health!NoTick, Health!NoAgent
<1>2. HealthType
  BY <1>1 DEF Health!Init, HealthType
<1> QED BY <1>1, <1>2 DEF Health!Init, HealthInv, PublishedOrKnown, NoneForgotten, WaitsItOut

LEMMA HealthEnough == ASSUME HealthInv PROVE RecoveryRecreates
<1>1. ASSUME NEW a \in Health!Overlooked PROVE passed[a] # {}
  <2>1. /\ a \in Recreated \cap broken \cap claimed
        /\ round.pc = "read" /\ worker[a] = "none" /\ \E m \in baseline : m[a] = "ok"
    BY DEF Health!Overlooked
  <2> QED BY <2>1 DEF HealthInv, NoneForgotten, Pending
<1>2. agent.pc = "launched" /\ ~agent.late /\ ~agent.raced => Awaited \in proxied
  <2>1. agent.new \in BOOLEAN
    BY DEF HealthInv, HealthType, AnAgent
  <2> QED BY <2>1 DEF HealthInv, WaitsItOut, Writes
<1> QED BY <1>1, <1>2 DEF RecoveryRecreates, Health!RecoveryRecreates

(* A switch found to work again has its services recreated, whatever       *)
(* happens meanwhile and however often the supervisor ends, but for the    *)
(* cases the property names; and an agent that waited is launched behind   *)
(* a proxy that has its switch on (supervisor.py reconcile_once, box.py    *)
(* _await_proxy).                                                          *)
THEOREM RecoveriesAreSeenTo == Health!Spec => []RecoveryRecreates
<1>1. HealthInv /\ [Health!Next]_Health!vars => HealthInv'
  <2>1. ASSUME HealthInv, Health!Next PROVE HealthInv'
    BY <2>1, TicksKept, OthersKept, AxesKept DEF Health!Next
  <2>2. ASSUME HealthInv, UNCHANGED Health!vars PROVE HealthInv'
    <3>1. UNCHANGED <<switches, proxied, round, verdicts, baseline, published, unsaved, worker,
                      passed, broken, claimed, agent>>
      BY <2>2 DEF Health!vars, Health!healthVars
    <3>2. HealthType'
      BY <3>1, <2>2 DEF HealthInv, HealthType
    <3> QED
      BY <3>1, <3>2, <2>2 DEF HealthInv, PublishedOrKnown, NoneForgotten, Pending, WaitsItOut, Writes
  <2> QED BY <2>1, <2>2
<1> QED BY <1>1, HealthStart, HealthEnough, PTL DEF Health!Spec
=============================================================================
