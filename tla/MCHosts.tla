-------------------------------- MODULE MCHosts -------------------------------
(* The virtual machine the box runs in and what watches and names its      *)
(* traffic from the host: components that share no state with another      *)
(* module, each with a small instance.  A behaviour is one of them; the    *)
(* others are at rest for good.                                            *)
EXTENDS Integers, Sequences, FiniteSets

CONSTANTS
  Inodes, MaxSpaces, MaxMisses,       \* of the follower
  MaxRequests, MaxDials,              \* of the forwarder
  Containers, SnapshotEvery, SnapshotsMax, MaxChanges, MaxPolls, MaxFailures,     \* of attribution
  Terminals, Configs, Verbs, MaxVerbs, MaxMishaps      \* of the machine

ASSUME InodesAssumption == Inodes \subseteq Nat \ {0}

ASSUME ContainersAssumption == "" \notin Containers

(* A wall's number is the hash of its script, 0 that of none; the forwarder *)
(* is asked for or not.                                                    *)
ASSUME ConfigsAssumption ==
  /\ Configs # {}
  /\ Configs \subseteq [wall : Nat, monitor : Nat, forwarder : {0, 1}, host : BOOLEAN]

VARIABLES
  part,
  spool, sealed, live, cat, cursor, pull, saved, hook, round, heard,
  unseen, dropped, faults,
  space, spaces, loaded, server, follower, file, misses,
  conn, key,
  holder, running, known, holds, changes, polls, poll, memory, rotated,
  snapshots, row, failures,
  adopted, vm, booted, guest, disk, boots, computer, cmd, commands, events

monitorVars ==
  <<spool, sealed, live, cat, cursor, pull, saved, hook, round, heard,
    unseen, dropped, faults>>
followerVars == <<space, spaces, loaded, server, follower, file, misses>>
forwarderVars == <<conn, key>>
attributionVars ==
  <<holder, running, known, holds, changes, polls, poll, memory, rotated,
    snapshots, row, failures>>
machineVars ==
  <<adopted, vm, booted, guest, disk, boots, computer, cmd, commands,
    events>>
vars == <<part, monitorVars, followerVars, forwarderVars, attributionVars, machineVars>>

(* Three records an older foldyard has stored, a crossing among them, then *)
(* one more event and snapshot of that boot and a restarted VM's first.    *)
R(k, b, who, x) == [k |-> k, boot |-> b, who |-> who, crosses |-> x]

MCStream ==
  << R("ev", "b1", "container", FALSE), R("ev", "b1", "vm", TRUE), R("scopes", "b1", "", FALSE),
     R("ev", "b1", "vm", FALSE), R("scopes", "b1", "", FALSE),
     R("ev", "b2", "container", FALSE) >>

(* Configs that differ in each of the things a boot applies.               *)
Config(w, m, f, h) == [wall |-> w, monitor |-> m, forwarder |-> f, host |-> h]
MCConfigs == {Config(0, 0, 0, TRUE), Config(1, 0, 1, FALSE), Config(2, 1, 1, FALSE)}

Monitor == INSTANCE MonitorPipeline
             WITH Stream <- MCStream, Older <- {3}, SpoolMax <- 2, FetchMax <- 2, SegmentMax <- 1,
                  StoreMax <- 2, ReadMax <- 2, BatchMax <- 1, MaxAttempts <- 2, MaxFaults <- 1

Follow == INSTANCE Follower
            WITH MaxFaults <- MaxMisses, faults <- misses

Forward == INSTANCE Forwarder

Origin == INSTANCE Attribution
             WITH Every <- SnapshotEvery, FileMax <- SnapshotsMax, MaxEvents <- MaxChanges,
                  MaxFaults <- MaxFailures, events <- changes, faults <- failures

Machine == INSTANCE Machine
             WITH Commands <- Terminals, Ops <- Verbs, MaxCommands <- MaxVerbs,
                  MaxEvents <- MaxMishaps

MonitorAtRest == Monitor!Init /\ saved = Monitor!NewHook
MachineAtRest == Machine!Init /\ adopted = Config(0, 0, 0, TRUE) /\ vm = Machine!NoVM

Init ==
  /\ part \in {"monitor", "follower", "forwarder", "attribution", "machine"}
  /\ IF part = "monitor" THEN Monitor!Init ELSE MonitorAtRest
  /\ Follow!Init
  /\ Forward!Init
  /\ Origin!Init
  /\ IF part = "machine" THEN Machine!Init ELSE MachineAtRest

NextMonitor ==
  /\ part = "monitor" /\ Monitor!Next
  /\ UNCHANGED <<part, followerVars, forwarderVars, attributionVars, machineVars>>

NextFollow ==
  /\ part = "follower" /\ Follow!Next
  /\ UNCHANGED <<part, monitorVars, forwarderVars, attributionVars, machineVars>>

NextForward ==
  /\ part = "forwarder" /\ Forward!Next
  /\ UNCHANGED <<part, monitorVars, followerVars, attributionVars, machineVars>>

NextOrigin ==
  /\ part = "attribution" /\ Origin!Next
  /\ UNCHANGED <<part, monitorVars, followerVars, forwarderVars, machineVars>>

NextMachine ==
  /\ part = "machine" /\ Machine!Next
  /\ UNCHANGED <<part, monitorVars, followerVars, forwarderVars, attributionVars>>

Next == NextMonitor \/ NextFollow \/ NextForward \/ NextOrigin \/ NextMachine

Spec == Init /\ [][Next]_vars

(* The properties, of the part they are about.                             *)
NothingPassedInSilence == Monitor!NothingPassedInSilence
CrossingsOpen == Monitor!CrossingsOpen
UpOnlyOnTheRecorded == Machine!UpOnlyOnTheRecorded
SupervisorOutlivesVM == Machine!SupervisorOutlivesVM

(* A logged row names the one who sent it: the follower listens in the     *)
(* namespace the boxes are in, whenever it holds one (fwd.py), and what    *)
(* the relay stamps is what the proxy logs.                                *)
SenderIsNamed == Follow!UnslippedInodes /\ Forward!RowsNameTheSender

HostFirstGetsNoFin == Forward!HostFirstGetsNoFin
NotAnothers == Origin!NotAnothers
=============================================================================
