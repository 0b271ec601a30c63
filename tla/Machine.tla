-------------------------------- MODULE Machine --------------------------------
(* The life of a project's VM on the Lima backend: `fy up` (ensure), `fy    *)
(* machine stop | delete | recreate | host-firewall`, run in any number of  *)
(* terminals with no lock between them; the boot provisioning that the      *)
(* computer records and the guest's root applies at the next boot; and the  *)
(* checks that refuse a VM whose boot did not apply it.                     *)
EXTENDS Integers, Sequences, FiniteSets

CONSTANTS
  Commands,     \* the terminals
  Configs,      \* the configs that may be adopted: [wall, monitor, forwarder, host]
  Ops,          \* the verbs that are run
  MaxCommands, MaxEvents      \* bounds of a behaviour

VARIABLES
  adopted,      \* the config a verb that starts now loads
  vm,           \* Lima's record of the instance
  booted,       \* the recordings the current boot was given
  guest,        \* what the current boot has done so far
  disk,         \* what earlier boots left on the guest's disk
  boots,        \* how often the guest has booted
  computer,     \* the user slice, the table root loaded, the supervisor
  cmd,          \* where each terminal's verb is
  commands, events

vars == <<adopted, vm, booted, guest, disk, boots, computer, cmd, commands, events>>

(* What is recorded into the stopped instance, in ensure's order.           *)
Recorded == <<"mounts", "wall", "monitor", "forwarder", "proxyenv">>
Kinds == {Recorded[i] : i \in 1..Len(Recorded)}
Unrecorded == -1

(* The recording a config asks for.  A wall's number stands for the hash of *)
(* the whole rendered script; 0 is the script that takes the wall down.     *)
Want(c, k) ==
  CASE k = "mounts" -> 1
    [] k = "proxyenv" -> IF c.wall = 0 THEN 1 ELSE 0
    [] OTHER -> c[k]

(* What the boot reports of itself: the wall and its ports, not the hash.   *)
Report(wall) == IF wall = 0 THEN "off" ELSE "on"

Drifted(c, k) ==
  /\ vm.rec[k] # Want(c, k)
  /\ k \in {"monitor", "forwarder"} => Want(c, k) # 0 \/ vm.rec[k] # Unrecorded

Created ==
  [status |-> "stopped", socket |-> FALSE, scoped |-> FALSE, agent |-> FALSE,
   rec |-> [k \in Kinds |-> IF k \in {"mounts", "proxyenv"} THEN 1 ELSE Unrecorded]]

NoVM == [Created EXCEPT !.status = "none"]
NoGuest == [phase |-> "off", wall |-> 0, narrow |-> FALSE, report |-> "none", forwarder |-> "none"]
FreshDisk == [wall |-> 0, masked |-> FALSE]

Idle == [op |-> "none", pc |-> "idle", cfg |-> CHOOSE c \in Configs : TRUE, at |-> 0,
         boot |-> 0, blind |-> FALSE, over |-> FALSE]

Init ==
  /\ adopted \in Configs
  /\ vm \in {NoVM, [Created EXCEPT !.rec.mounts = 0]}
  /\ booted = vm.rec /\ guest = NoGuest /\ disk = FreshDisk /\ boots = 0
  /\ computer = [slice |-> FALSE, table |-> FALSE, supervisor |-> FALSE]
  /\ cmd = [s \in Commands |-> Idle]
  /\ commands = 0 /\ events = 0

At(s, pc) == cmd[s].pc = pc
Goto(s, pc) == cmd' = [cmd EXCEPT ![s].pc = pc]
Fail(s) == Goto(s, "failed") /\ UNCHANGED <<vm, booted, guest, disk, boots, computer>>
Fixed == UNCHANGED <<adopted, commands, events>>

Begin(s) ==
  /\ At(s, "idle") /\ commands < MaxCommands
  /\ \E op \in Ops :
       cmd' = [cmd EXCEPT ![s] = [Idle EXCEPT !.op = op, !.cfg = adopted,
                !.pc = CASE op = "up" -> "exists" [] op = "recreate" -> "halt"
                         [] op = "firewall" -> "slice" [] OTHER -> "look"]]
  /\ commands' = commands + 1
  /\ UNCHANGED <<adopted, vm, booted, guest, disk, boots, computer, events>>

-----------------------------------------------------------------------------
(* `fy up`: create, record, start or revive, check.                         *)

(* A clone of the base VM or the template, or neither.                      *)
Create(s) ==
  /\ Fixed
  /\ \/ /\ vm.status = "none"
        /\ vm' = Created /\ disk' = FreshDisk
        /\ cmd' = [cmd EXCEPT ![s].pc = "record", ![s].at = IF cmd[s].op = "up" THEN 1 ELSE 2]
        /\ UNCHANGED <<booted, guest, boots, computer>>
     \/ Fail(s)

Recreate(s) == At(s, "create") /\ Create(s)

Exists(s) ==
  \/ At(s, "exists") /\ vm.status = "none" /\ Create(s)
  \/ /\ At(s, "exists") /\ vm.status # "none"
     /\ cmd' = [cmd EXCEPT ![s].pc = "record", ![s].at = 1]
     /\ Fixed /\ UNCHANGED <<vm, booted, guest, disk, boots, computer>>

NextRecording(s) ==
  IF cmd[s].at < Len(Recorded) THEN [cmd[s] EXCEPT !.at = @ + 1]
  ELSE [cmd[s] EXCEPT !.pc = IF cmd[s].op = "up" THEN "state" ELSE "start"]

(* A recording of another script replaces the one a verb under way made.    *)
Overtaken(s, c) ==
  [t \in Commands |->
     IF t # s /\ cmd[t].pc # "idle" /\ cmd[t].cfg.wall # c.wall
       THEN [cmd[t] EXCEPT !.over = TRUE] ELSE cmd[t]]

(* `limactl edit` refuses a running instance, and so does ensure before it: *)
(* but for the proxy env, whose drift is a warning.                         *)
Refuses(k) == vm.status = "running" /\ k # "proxyenv"

Record(s) ==
  LET c == cmd[s].cfg
      k == Recorded[cmd[s].at]
  IN
  /\ At(s, "record") /\ Fixed
  /\ \/ /\ ~Drifted(c, k) \/ (vm.status = "running" /\ ~Refuses(k))
        /\ cmd' = [cmd EXCEPT ![s] = NextRecording(s)]
        /\ UNCHANGED <<vm, booted, guest, disk, boots, computer>>
     \/ /\ Drifted(c, k) /\ vm.status \in {"stopped", "broken"}
        /\ vm' = [vm EXCEPT !.rec[k] = Want(c, k)]
        /\ cmd' = [(IF k = "wall" THEN Overtaken(s, c) ELSE cmd) EXCEPT ![s] = NextRecording(s)]
        /\ UNCHANGED <<booted, guest, disk, boots, computer>>
     \/ Drifted(c, k) /\ (k # "proxyenv" \/ vm.status # "running") /\ Fail(s)

Look(s) ==
  /\ At(s, "state") /\ Fixed
  /\ Goto(s, IF vm.status # "running" THEN "start" ELSE IF vm.socket THEN "hostwall" ELSE "revive")
  /\ UNCHANGED <<vm, booted, guest, disk, boots, computer>>

Stopped == [vm EXCEPT !.status = "stopped", !.socket = FALSE, !.scoped = FALSE, !.agent = FALSE]

(* The graceful stop, then --force when a process it knew of is still there. *)
StopVM ==
  /\ vm' = IF vm.status = "none" THEN vm ELSE Stopped
  /\ guest' = NoGuest
  /\ UNCHANGED <<booted, disk, boots, computer>>

Revive(s) ==
  /\ At(s, "revive") /\ Fixed
  /\ Goto(s, "start")
  /\ StopVM \/ UNCHANGED <<vm, booted, guest, disk, boots, computer>>

(* The guest at power-on: the wall unit of an earlier boot comes up, the     *)
(* image's own sudo grant is back, and /run is empty.                       *)
PowerOn(rec) ==
  [NoGuest EXCEPT !.phase = "lima", !.wall = disk.wall,
                  !.forwarder = IF rec.forwarder = 1 THEN "starting" ELSE "none"]

(* A broken instance is forced down first and a lingering host agent waited *)
(* out; `limactl start` does nothing to an instance that runs.              *)
Start(s) ==
  /\ At(s, "start") /\ Fixed
  /\ cmd[s].cfg.host => computer.slice
  /\ vm.status # "none"
  /\ Goto(s, "starting")
  /\ IF vm.status = "running" THEN UNCHANGED <<vm, booted, guest, boots>>
     ELSE /\ vm' = [Stopped EXCEPT !.status = "running", !.scoped = cmd[s].cfg.host]
          /\ booted' = vm.rec
          /\ guest' = PowerOn(vm.rec)
          /\ boots' = boots + 1
  /\ UNCHANGED <<disk, computer>>

NoStart(s) == At(s, "start") /\ Fixed /\ Fail(s)

(* The socket is there, or the wait for it (or for Lima) is over.           *)
Started(s) ==
  /\ At(s, "starting") /\ Fixed
  /\ \/ /\ vm.status = "running" /\ vm.socket
        /\ Goto(s, "hostwall")
        /\ UNCHANGED <<vm, booted, guest, disk, boots, computer>>
     \/ Fail(s)

(* The probe connects from inside the VM's slice.                           *)
Enforcing == vm.scoped /\ computer.table

CheckHostWall(s) ==
  /\ At(s, "hostwall") /\ Fixed
  /\ IF cmd[s].cfg.host => Enforcing
       THEN Goto(s, "guest") /\ UNCHANGED <<vm, booted, guest, disk, boots, computer>>
       ELSE Fail(s)

(* Mutant: only what the listing says of the VM is looked at.               *)
Applied_Running(c) == vm.status = "running"

Applied(c) ==
  /\ vm.status = "running"
  /\ guest.report = Report(c.wall)
  /\ c.wall > 0 => guest.wall > 0 /\ disk.masked

CheckGuest(s) ==
  /\ At(s, "guest") /\ Fixed
  /\ IF Applied(cmd[s].cfg)
       THEN /\ cmd' = [cmd EXCEPT ![s].pc = "forwarder", ![s].boot = boots]
            /\ UNCHANGED <<vm, booted, guest, disk, boots, computer>>
       ELSE Fail(s)

Serving(c) ==
  c.forwarder = 1 => vm.status = "running" /\ booted.forwarder = 1 /\ guest.forwarder = "serving"

(* A forwarder that is starting is waited for, for fifteen seconds.         *)
CheckForwarder(s) ==
  /\ At(s, "forwarder") /\ Fixed
  /\ IF Serving(cmd[s].cfg)
       THEN Goto(s, "ok") /\ UNCHANGED <<vm, booted, guest, disk, boots, computer>>
       ELSE Fail(s)

(* The verb is over; after ensure, `fy up` starts the supervisor.           *)
End(s) ==
  /\ cmd[s].pc \in {"ok", "failed"} /\ Fixed
  /\ cmd' = [cmd EXCEPT ![s] = Idle]
  /\ computer' = [computer EXCEPT !.supervisor = @ \/ (At(s, "ok") /\ cmd[s].op = "up")]
  /\ UNCHANGED <<vm, booted, guest, disk, boots>>

-----------------------------------------------------------------------------
(* `fy machine stop | delete | recreate | host-firewall`.                   *)

(* What a verb sees: a listing that fails looks like no instance at all.    *)
LookFirst(s) ==
  /\ At(s, "look") /\ UNCHANGED <<adopted, commands>>
  /\ \/ /\ cmd' = [cmd EXCEPT ![s].boot = boots,
            ![s].pc = IF vm.status = "running" THEN "halt"
                      ELSE IF cmd[s].op = "delete" /\ vm.status # "none" THEN "remove" ELSE "supervisor"]
        /\ UNCHANGED events
     \/ /\ events < MaxEvents /\ events' = events + 1
        /\ cmd' = [cmd EXCEPT ![s].pc = "supervisor", ![s].blind = TRUE]
  /\ UNCHANGED <<vm, booted, guest, disk, boots, computer>>

Halt_GoesOn(s) ==
  /\ At(s, "halt") /\ Fixed
  /\ cmd' = [cmd EXCEPT ![s].boot = boots,
        ![s].pc = IF cmd[s].op = "stop" THEN "supervisor" ELSE "remove"]
  /\ StopVM \/ UNCHANGED <<vm, booted, guest, disk, boots, computer>>

Halt(s) ==
  /\ At(s, "halt") /\ Fixed
  /\ \/ /\ StopVM
        /\ cmd' = [cmd EXCEPT ![s].boot = boots,
             ![s].pc = IF cmd[s].op = "stop" THEN "supervisor" ELSE "remove"]
     \/ cmd[s].op = "stop" /\ Fail(s)
     \/ /\ cmd[s].op # "stop" /\ Goto(s, "remove")
        /\ UNCHANGED <<vm, booted, guest, disk, boots, computer>>

Remove(s) ==
  /\ At(s, "remove") /\ Fixed
  /\ \/ /\ vm' = NoVM /\ guest' = NoGuest
        /\ cmd' = [cmd EXCEPT ![s].boot = boots,
             ![s].pc = IF cmd[s].op = "delete" THEN "supervisor" ELSE "create"]
        /\ UNCHANGED <<booted, disk, boots, computer>>
     \/ cmd[s].op = "delete" /\ Fail(s)
     \/ /\ cmd[s].op = "recreate" /\ Goto(s, "create")
        /\ UNCHANGED <<vm, booted, guest, disk, boots, computer>>

StopSupervisor(s) ==
  /\ At(s, "supervisor") /\ Fixed
  /\ \/ /\ computer' = [computer EXCEPT !.supervisor = FALSE]
        /\ Goto(s, "ok")
        /\ UNCHANGED <<vm, booted, guest, disk, boots>>
     \/ Fail(s)

(* The user slice is foldyard's to make; the table is printed for root.     *)
EnsureSlice(s) ==
  /\ At(s, "slice") /\ Fixed
  /\ \/ /\ cmd[s].cfg.host => computer' = [computer EXCEPT !.slice = TRUE]
        /\ ~cmd[s].cfg.host => UNCHANGED computer
        /\ Goto(s, "ok")
        /\ UNCHANGED <<vm, booted, guest, disk, boots>>
     \/ Fail(s)

-----------------------------------------------------------------------------
(* The guest's boot, as root, from the recording.                           *)

Phase(p, q) == guest.phase = p /\ guest' = [guest EXCEPT !.phase = q]

(* Lima's own scripts, among them the podman install: then its socket.      *)
LimaScripts ==
  /\ Phase("lima", "ours") /\ vm' = [vm EXCEPT !.socket = TRUE] /\ UNCHANGED disk

(* Step 1: the sudo grant is narrowed to shutdown.                          *)
NarrowSudo ==
  /\ guest.phase = "ours" /\ booted.wall # Unrecorded
  /\ guest' = [guest EXCEPT !.phase = "granted", !.narrow = TRUE] /\ UNCHANGED <<vm, disk>>

(* install: the rootful socket is masked before a rule is written.          *)
MaskRootful ==
  /\ Phase("granted", "masked") /\ UNCHANGED vm
  /\ disk' = [disk EXCEPT !.masked = @ \/ booted.wall > 0]

(* install writes the new rules, enabled for the next boot too, and only    *)
(* then restarts the unit on them; uninstall takes both away.               *)
WriteRules ==
  /\ booted.wall > 0 /\ Phase("masked", "written")
  /\ disk' = [disk EXCEPT !.wall = booted.wall] /\ UNCHANGED vm

RestartUnit ==
  /\ guest.phase = "written" /\ UNCHANGED <<vm, disk>>
  /\ guest' = [guest EXCEPT !.phase = "ruled", !.wall = booted.wall]

Uninstall ==
  /\ booted.wall = 0 /\ guest.phase = "masked" /\ UNCHANGED vm
  /\ guest' = [guest EXCEPT !.phase = "ruled", !.wall = 0]
  /\ disk' = [disk EXCEPT !.wall = 0]

(* Step 4, last: the report.                                                *)
ReportState ==
  /\ guest.phase = "ruled"
  /\ guest' = [guest EXCEPT !.phase = "done", !.report = Report(booted.wall)]
  /\ UNCHANGED <<vm, disk>>

(* set -e: whatever fails ends the script.                                  *)
BootFails ==
  /\ guest.phase \in {"ours", "granted", "masked", "written", "ruled"}
  /\ guest' = [guest EXCEPT !.phase = "done"] /\ UNCHANGED <<vm, disk>>

ForwarderBoots ==
  /\ guest.phase # "lima" /\ guest.forwarder = "starting"
  /\ \E up \in {"serving", "failed"} : guest' = [guest EXCEPT !.forwarder = up]
  /\ UNCHANGED <<vm, disk>>

Boot ==
  /\ \/ LimaScripts \/ NarrowSudo \/ MaskRootful \/ WriteRules \/ RestartUnit
     \/ Uninstall \/ ReportState \/ BootFails \/ ForwarderBoots
  /\ Fixed /\ UNCHANGED <<booted, boots, computer, cmd>>

-----------------------------------------------------------------------------
(* What happens to the VM, the computer and the terminals.                  *)

Event(A) == events < MaxEvents /\ events' = events + 1 /\ A /\ UNCHANGED commands

(* The flag stays "running" but nothing serves the socket; or the host      *)
(* agent stops answering; or the driver dies, its agent lingering or not.   *)
VMFails ==
  /\ vm.status = "running"
  /\ \/ vm' = [vm EXCEPT !.socket = FALSE] /\ UNCHANGED guest
     \/ vm' = [vm EXCEPT !.status = "broken", !.socket = FALSE] /\ UNCHANGED guest
     \/ \E agent \in BOOLEAN : vm' = [Stopped EXCEPT !.agent = agent] /\ guest' = NoGuest
  /\ UNCHANGED <<adopted, booted, disk, boots, computer, cmd>>

GuestReboots ==
  /\ vm.status = "running"
  /\ guest' = PowerOn(booted) /\ vm' = [vm EXCEPT !.socket = FALSE] /\ boots' = boots + 1
  /\ UNCHANGED <<adopted, booted, disk, computer, cmd>>

(* A reboot gives the slice a new identity: the table may match the old one. *)
HostReboots ==
  /\ vm' = IF vm.status = "none" THEN vm ELSE Stopped
  /\ guest' = NoGuest
  /\ \E t \in {FALSE, computer.table} :
       computer' = [computer EXCEPT !.table = t, !.supervisor = FALSE]
  /\ cmd' = [s \in Commands |-> Idle]
  /\ UNCHANGED <<adopted, booted, disk, boots>>

RootLoads ==
  /\ computer.slice
  /\ computer' = [computer EXCEPT !.table = ~@]
  /\ UNCHANGED <<adopted, vm, booted, guest, disk, boots, cmd>>

Adopt ==
  /\ \E c \in Configs \ {adopted} : adopted' = c
  /\ UNCHANGED <<vm, booted, guest, disk, boots, computer, cmd>>

Killed ==
  /\ \E s \in Commands : ~At(s, "idle") /\ cmd' = [cmd EXCEPT ![s] = Idle]
  /\ UNCHANGED <<adopted, vm, booted, guest, disk, boots, computer>>

Happens ==
  \/ Event(VMFails) \/ Event(GuestReboots) \/ Event(HostReboots)
  \/ Event(RootLoads) \/ Event(Adopt) \/ Event(Killed)

Command(s) ==
  \/ Begin(s) \/ Exists(s) \/ Recreate(s) \/ Record(s) \/ Look(s) \/ Revive(s)
  \/ Start(s) \/ NoStart(s) \/ Started(s) \/ CheckHostWall(s) \/ CheckGuest(s) \/ CheckForwarder(s) \/ End(s)
  \/ LookFirst(s) \/ Halt(s) \/ Remove(s) \/ StopSupervisor(s) \/ EnsureSlice(s)

Next == Boot \/ Happens \/ \E s \in Commands : Command(s)

Spec == Init /\ [][Next]_vars

-----------------------------------------------------------------------------
(* A `fy up` or `fy machine recreate` that went through left a VM whose boot *)
(* applied what that verb's config records - the sudo grant narrowed, the   *)
(* rootful socket masked, the wall of its own rendering and not of an older *)
(* one - for as long as that boot lasts, unless a verb with another config  *)
(* recorded its own meanwhile (machine.py ensure; the report names the wall *)
(* and its ports, never the script's hash).                                 *)
UpOnlyOnTheRecorded ==
  \A s \in Commands :
    At(s, "ok") /\ cmd[s].op \in {"up", "recreate"} /\ vm.status = "running" /\ boots = cmd[s].boot =>
      /\ guest.narrow
      /\ cmd[s].cfg.wall > 0 => disk.masked /\ guest.wall > 0
      /\ cmd[s].over \/ guest.wall = cmd[s].cfg.wall
      /\ cmd[s].cfg.forwarder = 1 => booted.forwarder = 1

(* A machine verb stops the supervisor (the only way out of the VM) only     *)
(* when the VM is down: unless it was started again since the verb looked,  *)
(* or the verb's listing failed (machine.py _stop_host_supervisor).         *)
SupervisorOutlivesVM ==
  [][ \A s \in Commands :
        At(s, "supervisor") /\ computer.supervisor /\ ~computer'.supervisor /\ cmd'[s].pc = "ok" =>
          vm.status # "running" \/ boots # cmd[s].boot \/ cmd[s].blind ]_vars
=============================================================================
