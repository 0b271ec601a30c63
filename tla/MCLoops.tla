------------------------------ MODULE MCLoops ------------------------------
(* The two loops that the concurrent modules use as one step each, the     *)
(* expiry cascade of the switches and the allocation of port offsets, the  *)
(* files the second of them works on, and the allow-store under operators  *)
(* that overlap and die.  A behaviour runs one of the four; the others are *)
(* at rest for good.                                                       *)
EXTENDS SettleLoop, AllocateLoop, TLC

CONSTANTS
  Commanders, launcher, sv, Grantable, GrantLevels, GrantScopes, Lifetimes, Openings, EnforceSeed,
  MaxTime, MaxCalls, MaxDeaths,
  Runs, Torn, NoFile, MaxChanges, MaxAsks, MaxRepins, MaxKills

VARIABLES
  registry, tmp, offsets, pins, run, locked, told, raced, changes, asks, repins, kills

fileVars ==
  <<registry, tmp, offsets, pins, run, locked, told, raced, changes, asks, repins, kills>>

VARIABLES
  now, store, effective, live, proc, sup, supDeny, offering,
  asked, overlapped, answers, unseen, late, calls, opKills, supKills

storeVars ==
  <<now, store, effective, live, proc, sup, supDeny, offering,
    asked, overlapped, answers, unseen, late, calls, opKills, supKills>>

(* Every command of the operators, one of whom may be a launch.            *)
Store == INSTANCE AllowStore
           WITH Operators <- Commanders, Launchers <- {launcher}, Supervisor <- sv,
                Hosts <- Grantable,
                Kinds <- {"grant", "revoke", "decline", "launch", "restart", "wall", "learn",
                          "review", "seed"},
                Levels <- GrantLevels, Scopes <- GrantScopes,
                TTLs <- Lifetimes, WindowTTLs <- Openings, SeedEnforce <- EnforceSeed,
                OperatorKills <- MaxDeaths, SupervisorKills <- MaxDeaths, raced <- overlapped

ASSUME LaunchersAssumption == launcher \in Commanders /\ sv \notin Commanders
ASSUME NoneIsNoGrant == None \notin Store!Grants

(* Two names on the last slot, and a third on the first.                   *)
FileHash == [n \in Names |-> IF n = 3 THEN 1 ELSE MaxSlot]
FilePinnings == {NoOffsets, [NoOffsets EXCEPT ![1] = 1]}

(* An unreadable file, and none, are not what a file may hold.             *)
ASSUME FilesAssumption ==
  /\ Torn # NoFile
  /\ \A s \in SUBSET Names : s # Torn /\ s # NoFile
  /\ \A t \in Offsets : t # Torn

Files == INSTANCE WorktreeOffsets
           WITH Registrars <- Runs, Pinnings <- FilePinnings, Hash <- FileHash

RunSymmetry == Permutations(Runs)

(* Three switches, two of them with a third level, under every set of at   *)
(* most three rows drawn from a pool that has chains, mutual requirements, *)
(* a default level that satisfies a row, one that can never be met, and a  *)
(* row on a switch that is not loaded.                                     *)
MCAxes == {"cred", "dep", "llm"}
MCRungs == {"local", "off", "on", "user"}
MCLevels == [a \in MCAxes |-> IF a = "llm" THEN {"local", "on"} ELSE {"off", "on", "user"}]
MCDefault == [a \in MCAxes |-> IF a = "llm" THEN "local" ELSE "off"]
MCEmergency == [a \in MCAxes |-> IF a = "cred" THEN {"user"} ELSE {}]
MCRank == [a \in MCAxes |-> CASE a = "cred" -> 0 [] a = "dep" -> 1 [] OTHER -> 2]

Row(o, w, n, acc) == [owner |-> o, when |-> w, needs |-> n, accepts |-> acc]

Pool ==
  { Row("dep", {"on"}, "cred", {"user"}),
    Row("dep", {"on", "user"}, "llm", {"on"}),
    Row("llm", {"on"}, "dep", {"on", "user"}),
    Row("llm", {"on"}, "cred", {"on", "user"}),
    Row("cred", {"user"}, "llm", {"local"}),
    Row("cred", {"on"}, "absent", {"on"}),
    Row("cred", {"on", "user"}, "dep", {"user"}),
    Row("dep", {"off"}, "cred", {"user"}),
    Row("llm", {"local"}, "dep", {"on"}) }

MCRowSets == {s \in SUBSET Pool : Cardinality(s) <= 3}

(* Three names and three slots: enough for two to collide, for a third to  *)
(* be in the mover's way, and, with a pin, for one to be left out.         *)
MCRecordings == 1..(MaxSlot + 1)
MCPinnings == {NoOffsets} \cup {[NoOffsets EXCEPT ![1] = s] : s \in Slots}
                          \cup {[NoOffsets EXCEPT ![3] = s] : s \in {1, 2}}
MCHashes == {h \in [Names -> Slots] : h[1] = 1}

Settled0 ==
  /\ rows = {} /\ start = Default /\ current = Default
  /\ flips = {} /\ done = TRUE

Allocated0 ==
  /\ names = {} /\ recorded = NoOffsets /\ pinned = NoOffsets /\ hash = [n \in Names |-> 1]
  /\ pass = "done" /\ todo = {} /\ got = NoOffsets /\ held = {}

FilesAtRest == Files!Init /\ pins = NoOffsets
StoreAtRest == Store!Init /\ sup = "dead"

LoopInit ==
  \/ Init /\ Allocated0 /\ FilesAtRest /\ StoreAtRest
  \/ Settled0 /\ AllocInit /\ FilesAtRest /\ StoreAtRest
  \/ Settled0 /\ Allocated0 /\ Files!Init /\ StoreAtRest
  \/ Settled0 /\ Allocated0 /\ FilesAtRest /\ Store!Init

LoopNext ==
  \/ Next /\ UNCHANGED <<allocVars, fileVars, storeVars>>
  \/ AllocNext /\ UNCHANGED <<vars, fileVars, storeVars>>
  \/ /\ Settled0 /\ Allocated0 /\ StoreAtRest
     /\ Files!Next /\ UNCHANGED <<vars, allocVars, storeVars>>
  \/ /\ Settled0 /\ Allocated0 /\ FilesAtRest
     /\ Store!Next /\ UNCHANGED <<vars, allocVars, fileVars>>

LoopSpec == LoopInit /\ [][LoopNext]_<<vars, allocVars, fileVars, storeVars>>

(* Two worktrees are not given one port while no two runs overlap.         *)
UnracedNoPortTwice == Files!UnracedNoPortTwice

(* The allow-store's own.                                                  *)
AnswersReachTheBox == Store!AnswersReachTheBox

=============================================================================
