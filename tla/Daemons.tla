------------------------------ MODULE Daemons ------------------------------
(***************************************************************************)
(* What one supervisor runs: tick by tick it reads what the worktrees with *)
(* a box, or about to get one, demand, stops and starts its children, hands *)
(* them their live settings, and publishes how each is doing.  Boxes come  *)
(* and go, the operator changes postures, strangers take ports, daemons die *)
(* or stall, and the supervisor is stopped, or killed and started again,   *)
(* which leaves its children behind.                                       *)
(***************************************************************************)
EXTENDS Naturals, FiniteSets

CONSTANTS
  Names,       \* daemons, by name: the proxy and the minter of each worktree
  Main,        \* the main checkout
  Home,        \* the worktree of each daemon
  Proxies,     \* the daemons that are asked whether they answer
  Postures,    \* what the operator may ask for: a spec for each name, or None
  Pids,        \* processes
  None,
  MaxEvents,   \* bound: changes of boxes, launches and postures
  MaxMishaps   \* bound: deaths, stalls, failed reads and writes, strangers, kills

Worktrees == {Home[n] : n \in Names}
Specs == {q[n] : q \in Postures, n \in Names} \ {None}
Ports == {s.port : s \in Specs}
Lives == {s.live : s \in Specs}

ASSUME NamesAssumption == IsFiniteSet(Names) /\ Proxies \subseteq Names /\ Main \in Worktrees
ASSUME SpecsAssumption == \A s \in Specs : DOMAIN s = {"cmd", "port", "live", "needs"} /\ s.needs \in BOOLEAN
ASSUME CommandNamesThePort == \A s, t \in Specs : s.cmd = t.cmd => s.port = t.port
ASSUME PostureAssumption == \A q \in Postures : DOMAIN q = Names
Daemon == [name : Names, port : Ports, at : {"starting", "serving"}]
Child == [pid : Pids, spec : Specs, young : BOOLEAN, raced : BOOLEAN]
LivenessMisses == 2
Misses == [pid : Pids, run : 1..LivenessMisses]

ASSUME NoneAssumption == None \notin Daemon \cup Child \cup Misses
ASSUME BoundsAssumption == MaxEvents \in Nat /\ MaxMishaps \in Nat

VARIABLES
  boxes,      \* worktrees whose box is up
  launching,  \* worktrees a `fy up' is bringing up
  posture,    \* what the operator asks for
  secrets,    \* host.env has what some daemons need
  strangers,  \* ports other programs listen on
  daemon,     \* the processes: their name, their port and where they are
  stalled,    \* processes that no longer answer
  sup,        \* what the supervisor does: "off" or a step of its tick
  env,        \* the supervisor's own environment has what some daemons need
  blind,      \* the engine did not answer this tick
  want,       \* what this tick found demanded
  shared,     \* names that give way on their port
  todo,       \* names this tick has yet to deal with
  child,      \* the supervisor's children
  live,       \* each daemon's file of live settings
  gate,       \* what held each daemon back this tick
  misses,     \* each daemon's run of missed answers
  said,       \* processes the log last said have stopped answering (history)
  slain,      \* a supervisor was killed (history)
  events, mishaps

world == <<boxes, launching, posture, secrets, strangers>>
tick == <<blind, want, shared, todo, gate>>
told == <<misses, said>>
vars == <<world, daemon, stalled, sup, env, tick, child, live, told, slain, events, mishaps>>

Alive(d, p) == d[p] # None
Serving(d, p) == Alive(d, p) /\ d[p].at = "serving"
Stopping(d, gone) == [p \in Pids |-> IF p \in gone THEN None ELSE d[p]]
Runs(n) == child[n] # None /\ Alive(daemon, child[n].pid)
Listening(d, port) == {p \in Pids : Serving(d, p) /\ d[p].port = port}
PidsOf(c) == {c[n].pid : n \in {m \in Names : c[m] # None}}

EventsLeft == events < MaxEvents
MishapsLeft == mishaps < MaxMishaps
Event == EventsLeft /\ events' = events + 1 /\ UNCHANGED mishaps
Mishap == MishapsLeft /\ mishaps' = mishaps + 1 /\ UNCHANGED events
Calm == UNCHANGED <<events, mishaps>>

Init ==
  /\ boxes = Worktrees
  /\ launching = {}
  /\ posture \in Postures
  /\ secrets = FALSE
  /\ strangers = {}
  /\ daemon = [p \in Pids |-> None]
  /\ stalled = {} /\ sup = "off" /\ env = FALSE /\ blind = FALSE
  /\ want = [n \in Names |-> None]
  /\ shared = {} /\ todo = {}
  /\ child = [n \in Names |-> None]
  /\ live = [n \in Names |-> None]
  /\ gate = [n \in Names |-> "none"]
  /\ misses = [n \in Names |-> None]
  /\ said = {} /\ slain = FALSE /\ events = 0 /\ mishaps = 0

-----------------------------------------------------------------------------
(* The world the supervisor watches.                                       *)
Quiet == UNCHANGED <<sup, env, tick, live, told, slain>>

BoxMoves(w) ==
  /\ boxes' = IF w \in boxes THEN boxes \ {w} ELSE boxes \cup {w}
  /\ Event /\ Quiet
  /\ UNCHANGED <<launching, posture, secrets, strangers, daemon, stalled, child>>

LaunchMoves(w) ==
  /\ launching' = IF w \in launching THEN launching \ {w} ELSE launching \cup {w}
  /\ Event /\ Quiet
  /\ UNCHANGED <<boxes, posture, secrets, strangers, daemon, stalled, child>>

Operator ==
  /\ \E q \in Postures \ {posture} : posture' = q
  /\ Event /\ Quiet
  /\ UNCHANGED <<boxes, launching, secrets, strangers, daemon, stalled, child>>

Captured ==
  /\ ~secrets /\ secrets' = TRUE
  /\ Event /\ Quiet
  /\ UNCHANGED <<boxes, launching, posture, strangers, daemon, stalled, child>>

(* Somebody takes a free port: a child that has not bound it yet has lost  *)
(* the race.                                                               *)
Outrun(port, winner) ==
  child' = [n \in Names |->
              IF child[n] = None \/ child[n].spec.port # port \/ child[n].pid = winner THEN child[n]
              ELSE [child[n] EXCEPT !.raced = TRUE]]

Strange(port) ==
  /\ port \notin strangers
  /\ Listening(daemon, port) = {}
  /\ strangers' = strangers \cup {port}
  /\ Outrun(port, None)
  /\ Mishap /\ Quiet
  /\ UNCHANGED <<boxes, launching, posture, secrets, daemon, stalled>>

StrangerLeaves(port) ==
  /\ strangers' = strangers \ {port} /\ port \in strangers
  /\ Event /\ Quiet
  /\ UNCHANGED <<boxes, launching, posture, secrets, daemon, stalled, child>>

(* A started daemon binds its port, or exits because it cannot.            *)
Bind(p) ==
  /\ Alive(daemon, p) /\ ~Serving(daemon, p)
  /\ IF daemon[p].port \in strangers \/ Listening(daemon, daemon[p].port) # {}
     THEN daemon' = Stopping(daemon, {p}) /\ UNCHANGED child
     ELSE daemon' = [daemon EXCEPT ![p].at = "serving"] /\ Outrun(daemon[p].port, p)
  /\ UNCHANGED <<world, stalled>> /\ Calm /\ Quiet

Dies(p) ==
  /\ Alive(daemon, p)
  /\ daemon' = Stopping(daemon, {p}) /\ stalled' = stalled \ {p}
  /\ UNCHANGED <<world, child>> /\ Mishap /\ Quiet

Stalls(p) ==
  /\ Serving(daemon, p) /\ p \notin stalled
  /\ stalled' = stalled \cup {p}
  /\ UNCHANGED <<world, daemon, child>> /\ Mishap /\ Quiet

Recovers(p) ==
  /\ stalled' = stalled \ {p} /\ p \in stalled
  /\ UNCHANGED <<world, daemon, child>> /\ Calm /\ Quiet

(* A child's first ten seconds are over: RESTART_BACKOFF and               *)
(* DAEMON_WARMUP_SECONDS are the same.  One still not bound then is late.  *)
Ages(n) ==
  /\ child[n] # None /\ child[n].young
  /\ child' = [child EXCEPT ![n].young = FALSE]
  /\ IF Runs(n) /\ ~Serving(daemon, child[n].pid) THEN Mishap ELSE Calm
  /\ UNCHANGED <<world, daemon, stalled>> /\ Quiet

-----------------------------------------------------------------------------
(* The supervisor starts with no children and no secret of host.env's.     *)
Boot ==
  /\ sup = "off" /\ sup' = "read"
  /\ env' = FALSE
  /\ misses' = [n \in Names |-> None]
  /\ UNCHANGED <<world, daemon, stalled, tick, child, live, said, slain>> /\ Calm

(* The demands of the worktrees it serves: those with a box up, as far as  *)
(* the engine says, those a launch brings up, and then the main checkout   *)
(* too; the main checkout alone if there are none.                         *)
Active(up) ==
  LET served == up \cup launching \cup (IF launching = {} THEN {} ELSE {Main})
  IN IF served = {} THEN {Main} ELSE served

Demands(up) == [n \in Names |-> IF Home[n] \in Active(up) THEN posture[n] ELSE None]

Read ==
  /\ sup = "read" /\ sup' = "prune"
  /\ env' = (env \/ secrets)
  /\ \/ want' = Demands(boxes) /\ blind' = FALSE /\ Calm
     \/ want' = Demands({}) /\ blind' = TRUE /\ Mishap
  /\ UNCHANGED <<world, daemon, stalled, shared, todo, gate, child, live, told, slain>>

(* _port_sharers: of the names that want one port the one that serves it   *)
(* keeps it; if none does, the first by name.                              *)
OnPort(n, port) == Runs(n) /\ child[n].spec.port = port
Wanting(port) == {m \in Names : want[m] # None /\ want[m].port = port}
Keeper(port) ==
  LET on == {m \in Wanting(port) : OnPort(m, port)}
  IN CHOOSE m \in (IF on = {} THEN Wanting(port) ELSE on) : TRUE
Sharers == {n \in Names : want[n] # None /\ n # Keeper(want[n].port)}

Undesired == {n \in Names : want[n] = None /\ child[n] # None}

Prune ==
  /\ sup = "prune" /\ sup' = "each"
  /\ LET pids == {child[n].pid : n \in Undesired}
     IN /\ child' = [n \in Names |-> IF n \in Undesired THEN None ELSE child[n]]
        /\ daemon' = Stopping(daemon, pids)
        /\ stalled' = stalled \ pids
  /\ shared' = Sharers
  /\ todo' = {n \in Names : want[n] # None}
  /\ UNCHANGED <<world, env, blind, want, gate, live, misses, said, slain>> /\ Calm

(* _sync_live: the settings are in the file before the daemon is dealt with. *)
(* Mutant: settings are written for a daemon that is yet to start.         *)
SyncLive_BeforeSpawn(n, done) ==
  live' = IF done /\ child[n] = None THEN [live EXCEPT ![n] = want[n].live] ELSE live
SyncLive(n, done) == live' = IF done THEN [live EXCEPT ![n] = want[n].live] ELSE live

(* _child_step.                                                            *)
ChildStep(n) ==
  IF child[n] = None THEN "spawn"
  ELSE IF child[n].spec.cmd # want[n].cmd THEN "restart"
  ELSE IF Runs(n) THEN "keep"
  ELSE IF child[n].young THEN "backoff"
  ELSE "respawn"

(* reap_orphan_listener: nobody's child on the port is stopped, unless a   *)
(* stranger or a child of this supervisor's is there.                      *)
Reapable(d, c, port) == Listening(d, port) \ PidsOf(c)
PortFreed(d, c, port) == port \notin strangers /\ Listening(d, port) = Reapable(d, c, port)

Fresh(d, c) == {p \in Pids : ~Alive(d, p) /\ p \notin PidsOf(c) \cup PidsOf(misses) \cup said}

(* _spawn_child, with what the step before it left of daemons and children: *)
(* a secret is missing, the port is somebody's, or the daemon starts.  (A   *)
(* command that cannot be run is held back as a port that is taken is.)    *)
SpawnChild(n, d, c) ==
  IF want[n].needs /\ ~env
  THEN gate' = [gate EXCEPT ![n] = "secret"] /\ child' = c /\ daemon' = d
  ELSE IF ~PortFreed(d, c, want[n].port)
  THEN gate' = [gate EXCEPT ![n] = "port"] /\ child' = c /\ daemon' = d
  ELSE LET free == Stopping(d, Reapable(d, c, want[n].port))
           p == CHOOSE q \in Fresh(free, c) : TRUE
       IN /\ Fresh(free, c) # {}
          /\ gate' = gate
          /\ child' = [c EXCEPT ![n] = [pid |-> p, spec |-> want[n], young |-> TRUE, raced |-> FALSE]]
          /\ daemon' = [free EXCEPT ![p] = [name |-> n, port |-> want[n].port, at |-> "starting"]]

Without(n) == [child EXCEPT ![n] = None]
(* Mutant: a child is replaced without being stopped.                      *)
Stopped_Not(n) == daemon
Stopped(n) == IF child[n] = None THEN daemon ELSE Stopping(daemon, {child[n].pid})

GivesWay(n) ==
  /\ n \in shared
  /\ child' = Without(n) /\ daemon' = Stopped(n)
  /\ gate' = [gate EXCEPT ![n] = "shared"]
  /\ UNCHANGED live /\ Calm

Dealt(n) ==
  /\ n \notin shared
  /\ \/ SyncLive(n, TRUE) /\ Calm
     \/ SyncLive(n, FALSE) /\ live[n] # want[n].live /\ Mishap
  /\ CASE ChildStep(n) \in {"keep", "backoff"} -> UNCHANGED <<child, daemon, gate>>
       [] ChildStep(n) = "restart" -> SpawnChild(n, Stopped(n), Without(n))
       [] OTHER -> SpawnChild(n, daemon, Without(n))

Each(n) ==
  /\ sup = "each" /\ n \in todo
  /\ todo' = todo \ {n}
  /\ GivesWay(n) \/ Dealt(n)
  /\ stalled' = {p \in stalled : Alive(daemon', p)}
  /\ UNCHANGED <<world, sup, env, blind, want, shared, misses, said, slain>>

(* check_liveness: LIVENESS_MISSES in a row by one process are said once,  *)
(* and so is the answer that ends them; more are not counted here.         *)
Kept(n) == IF misses[n] # None /\ Runs(n) THEN misses[n] ELSE None
Due(n) == n \in Proxies /\ want[n] # None /\ Runs(n) /\ ~child[n].young
Answers(n) == Serving(daemon, child[n].pid) /\ child[n].pid \notin stalled
Run(n) == IF Kept(n) = None \/ Kept(n).pid # child[n].pid THEN 0 ELSE Kept(n).run
Missed(n) ==
  IF ~Due(n) THEN Kept(n)
  ELSE IF Answers(n) THEN None
  ELSE [pid |-> child[n].pid, run |-> IF Run(n) < LivenessMisses THEN Run(n) + 1 ELSE LivenessMisses]

StoppedAnswering == {child[n].pid : n \in {m \in Names : Due(m) /\ ~Answers(m) /\ Run(m) + 1 = LivenessMisses}}
AnsweringAgain == {child[n].pid : n \in {m \in Names : Due(m) /\ Answers(m) /\ Run(m) = LivenessMisses}}

(* _daemon_job.                                                            *)
PortAnswers(port) == port \in strangers \/ Listening(daemon, port) # {}
Job(n) ==
  IF want[n] = None THEN "none"
  ELSE IF gate[n] # "none" THEN "blocked"
  ELSE IF child[n] # None /\ ~Runs(n) THEN "failing"
  ELSE IF child[n] = None \/ ~PortAnswers(want[n].port) THEN "starting"
  ELSE "up"

Publish ==
  /\ sup = "each" /\ todo = {} /\ sup' = "read"
  /\ misses' = [n \in Names |-> Missed(n)]
  /\ said' = {p \in said \cup StoppedAnswering : Alive(daemon, p)} \ AnsweringAgain
  /\ want' = [n \in Names |-> None] /\ shared' = {} /\ gate' = [n \in Names |-> "none"] /\ blind' = FALSE
  /\ UNCHANGED <<world, daemon, stalled, env, todo, child, live, slain>> /\ Calm

(* main's last act: every child is stopped and nothing is said to run.     *)
ShutDown ==
  /\ sup = "read" /\ sup' = "off"
  /\ daemon' = Stopping(daemon, PidsOf(child)) /\ stalled' = stalled \ PidsOf(child)
  /\ child' = [n \in Names |-> None]
  /\ Event
  /\ UNCHANGED <<world, env, tick, live, misses, said, slain>>

Kill ==
  /\ sup # "off" /\ sup' = "off"
  /\ child' = [n \in Names |-> None]
  /\ slain' = TRUE
  /\ want' = [n \in Names |-> None] /\ shared' = {} /\ todo' = {} /\ blind' = FALSE
  /\ gate' = [n \in Names |-> "none"]
  /\ Mishap
  /\ UNCHANGED <<world, daemon, stalled, env, live, told>>

-----------------------------------------------------------------------------
World ==
  \/ \E w \in Worktrees : BoxMoves(w) \/ LaunchMoves(w)
  \/ Operator \/ Captured
  \/ \E port \in Ports : Strange(port) \/ StrangerLeaves(port)
  \/ \E p \in Pids : Bind(p) \/ Dies(p) \/ Stalls(p) \/ Recovers(p)
  \/ \E n \in Names : Ages(n)
Tick == Read \/ Prune \/ (\E n \in Names : Each(n)) \/ Publish
Next == World \/ Boot \/ Tick \/ ShutDown \/ Kill

Spec == Init /\ [][Next]_vars
LiveSpec ==
  /\ Spec /\ WF_vars(Tick)
  /\ \A p \in Pids : WF_vars(Bind(p))
  /\ \A n \in Names : WF_vars(Ages(n))

-----------------------------------------------------------------------------
TypeOK ==
  /\ boxes \in SUBSET Worktrees /\ launching \in SUBSET Worktrees
  /\ posture \in Postures /\ secrets \in BOOLEAN /\ strangers \in SUBSET Ports
  /\ daemon \in [Pids -> {None} \cup Daemon]
  /\ stalled \in SUBSET Pids
  /\ sup \in {"off", "read", "prune", "each"} /\ env \in BOOLEAN /\ blind \in BOOLEAN
  /\ want \in [Names -> Specs \cup {None}] /\ shared \in SUBSET Names /\ todo \in SUBSET Names
  /\ child \in [Names -> {None} \cup Child]
  /\ live \in [Names -> Lives \cup {None}]
  /\ gate \in [Names -> {"none", "shared", "secret", "port"}]
  /\ misses \in [Names -> {None} \cup Misses]
  /\ said \in SUBSET Pids /\ slain \in BOOLEAN /\ events \in 0..MaxEvents /\ mishaps \in 0..MaxMishaps

(* A daemon is a child of the supervisor that runs, unless a supervisor was *)
(* killed: no restart, give-way or shutdown leaves one behind.             *)
NoneLeftBehind == slain \/ \A p \in Pids : Alive(daemon, p) => p \in PidsOf(child)

(* Once the world rests and a supervisor runs, a port somebody's posture   *)
(* demands is served as demanded, whatever was there, swapped, shared or   *)
(* dead before, unless a stranger has it or its secret is missing.         *)
Demanded(n) == Demands(boxes)[n] # None
Claims(port) == {n \in Names : Demanded(n) /\ posture[n].port = port}
Servable(port) ==
  Claims(port) # {} /\ port \notin strangers /\ \A n \in Claims(port) : posture[n].needs => secrets
AsDemanded(n) ==
  Runs(n) /\ child[n].spec.cmd = posture[n].cmd /\ Serving(daemon, child[n].pid) /\ live[n] = posture[n].live
PostureServed ==
  \A port \in Ports : <>[](sup # "off" /\ Servable(port)) => <>[](\E n \in Claims(port) : AsDemanded(n))

Running(n) == \E p \in Pids : Alive(daemon, p) /\ daemon[p].name = n

(* The successor reaps what a killed supervisor left listening (ADR-0006). *)
SuccessorReaps ==
  \A n \in Names : <>[](sup # "off" /\ ~Demanded(n)) => <>[]~Running(n)
=============================================================================
