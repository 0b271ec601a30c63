---------------------------- MODULE Transcripts -----------------------------
(***************************************************************************)
(* Agents' transcripts on the host: the legacy tree in the checkout, which *)
(* the next new box moves into its slot and into the archive, and the      *)
(* copiers that bring slot and tree into the archive while the box writes. *)
(* A path is named for its kind: of the checkout's own project folder, of  *)
(* another's, or below the depth a walk goes to.                           *)
(***************************************************************************)
EXTENDS Integers

CONSTANTS
  Paths,        \* among "own", "foreign", "deep"
  Ups, Hands,   \* terminals: of `fy box up', and of what copies to the archive
  MaxWrites, MaxCommands, MaxFaults   \* bounds

VARIABLES
  tree,         \* "legacy", "slot", "archive" -> path -> file
  box,          \* none, one that writes the legacy tree, one that writes its slot
  job,          \* who copies -> what it is at
  wrote,        \* path -> lines ever written
  clock,        \* when the last of them was
  slipped,      \* paths of which a copier put an older file over a newer one in the slot
  commands, faults

vars == <<tree, box, job, wrote, clock, slipped, commands, faults>>

Sweep == "sweep"
Jobs == Ups \cup Hands \cup {Sweep}
NoFile == [lines |-> 0, mtime |-> 0]
Idle == [pc |-> "idle", stage |-> 1, todo |-> {}, path |-> "", file |-> NoFile, bad |-> {}]

Init ==
  /\ tree = [t \in {"legacy", "slot", "archive"} |-> [p \in Paths |-> NoFile]]
  /\ box = "old"
  /\ job = [j \in Jobs |-> Idle]
  /\ wrote = [p \in Paths |-> 0] /\ clock = 0
  /\ slipped = {} /\ commands = 0 /\ faults = 0

NamesIn(t) == {p \in Paths : tree[t][p] # NoFile}
Goes(j, to) == job' = [job EXCEPT ![j] = to]
MayFail == faults < MaxFaults /\ faults' = faults + 1
Commands == commands < MaxCommands /\ commands' = commands + 1

-----------------------------------------------------------------------------
(* migrate_legacy() copies the tree twice; a sync reads slot and tree.     *)
From(j) == IF j \in Ups \/ job[j].stage = 2 THEN "legacy" ELSE "slot"
To(j) == IF j \in Ups /\ job[j].stage = 1 THEN "slot" ELSE "archive"

(* _mirror(): of a tree that goes to the archive only the checkout's own   *)
(* project folder.                                                         *)
Held(j, p) == To(j) = "archive" /\ p = "foreign"

(* Mutant: what the archive has is never copied again.                     *)
Newer_Missing(f, held) == held = NoFile

(* _copy_file(): none there, an older one, or one of another size.         *)
Newer(f, held) ==
  \/ held = NoFile
  \/ f.mtime > held.mtime
  \/ f.mtime = held.mtime /\ f.lines # held.lines

(* Mutant: the failed copies do not keep the legacy tree.                  *)
Whole_Errors(bad) == bad \subseteq {"error"}

(* What keeps the legacy tree: a file not copied, gone, or too deep.       *)
Whole(bad) == bad = {}

(* _open_source(), then the listing of the tree.                           *)
Lists(c, stage, t) == [c EXCEPT !.pc = "walk", !.stage = stage, !.todo = NamesIn(t)]

(* box up, with no box there.                                              *)
StartUp(j) ==
  /\ job[j].pc = "idle" /\ box = "none" /\ Commands
  /\ Goes(j, IF NamesIn("legacy") = {} THEN [Idle EXCEPT !.pc = "run"]
             ELSE Lists(Idle, 1, "legacy"))
  /\ UNCHANGED <<tree, box, wrote, clock, slipped, faults>>

(* fy transcripts, a command's sync_current(), and the supervisor's sweep  *)
(* of a box that is up.                                                    *)
StartHand(j) ==
  /\ job[j].pc = "idle" /\ Commands
  /\ Goes(j, Lists(Idle, 1, "slot"))
  /\ UNCHANGED <<tree, box, wrote, clock, slipped, faults>>
StartSweep ==
  /\ job[Sweep].pc = "idle" /\ box # "none"
  /\ Goes(Sweep, Lists(Idle, 1, "slot"))
  /\ UNCHANGED <<tree, box, wrote, clock, slipped, commands, faults>>

(* An entry of the walk: opened, its size and time read, and what the      *)
(* destination holds looked at.                                            *)
Look(j) ==
  LET c == job[j]
  IN  /\ c.pc = "walk"
      /\ \E p \in c.todo :
           LET f == tree[From(j)][p]
               on == [c EXCEPT !.todo = @ \ {p}]
           IN  IF Held(j, p) THEN Goes(j, on)
               ELSE IF f = NoFile THEN Goes(j, [on EXCEPT !.bad = @ \cup {"vanished"}])
               ELSE IF p = "deep"
               THEN Goes(j, [on EXCEPT !.bad = IF To(j) = "slot" THEN @ \cup {"deep"} ELSE @])
               ELSE IF Newer(f, tree[To(j)][p])
               THEN Goes(j, [on EXCEPT !.pc = "write", !.path = p, !.file = f])
               ELSE Goes(j, on)
      /\ UNCHANGED <<tree, box, wrote, clock, slipped, commands, faults>>

(* _write_into(): as much as the file's time belongs to, stamped with it,  *)
(* then renamed over the name; or no room, or an error.                    *)
Write(j) ==
  LET c == job[j]
      on == [c EXCEPT !.pc = "walk", !.path = "", !.file = NoFile]
  IN  /\ c.pc = "write"
      /\ \/ /\ tree' = [tree EXCEPT ![To(j)][c.path] = c.file]
            /\ slipped' = IF To(j) = "slot" /\ tree["slot"][c.path].mtime > c.file.mtime
                          THEN slipped \cup {c.path} ELSE slipped
            /\ Goes(j, on) /\ UNCHANGED faults
         \/ MayFail /\ Goes(j, [on EXCEPT !.bad = @ \cup {"error"}]) /\ UNCHANGED <<tree, slipped>>
      /\ UNCHANGED <<box, wrote, clock, commands>>

(* The end of a walk: the second one, or what follows both.                *)
Walked(j) ==
  LET c == job[j]
  IN  /\ c.pc = "walk" /\ c.todo = {}
      /\ Goes(j, IF c.stage = 1 THEN Lists(c, 2, "legacy")
                 ELSE IF j \notin Ups THEN Idle
                 ELSE IF Whole(c.bad) THEN [c EXCEPT !.pc = "remove"]
                 ELSE [Idle EXCEPT !.pc = "run"])
      /\ UNCHANGED <<tree, box, wrote, clock, slipped, commands, faults>>

(* _remove_legacy(), a file at a time.                                     *)
Remove(j) ==
  /\ job[j].pc = "remove"
  /\ \/ \E p \in NamesIn("legacy") :
          /\ tree' = [tree EXCEPT !["legacy"][p] = NoFile]
          /\ UNCHANGED <<job, faults>>
     \/ /\ IF NamesIn("legacy") = {} THEN UNCHANGED faults ELSE MayFail
        /\ Goes(j, [Idle EXCEPT !.pc = "run"]) /\ UNCHANGED tree
  /\ UNCHANGED <<box, wrote, clock, slipped, commands>>

(* podman run, of a name only one box has.                                 *)
Run(j) ==
  /\ job[j].pc = "run" /\ Goes(j, Idle)
  /\ box' = IF box = "none" THEN "new" ELSE box
  /\ UNCHANGED <<tree, wrote, clock, slipped, commands, faults>>

Kill(j) ==
  /\ job[j].pc # "idle" /\ MayFail /\ Goes(j, Idle)
  /\ UNCHANGED <<tree, box, wrote, clock, slipped, commands>>

Down ==
  /\ box # "none" /\ Commands /\ box' = "none"
  /\ UNCHANGED <<tree, job, wrote, clock, slipped, faults>>

(* The box: a line on a session it has, or on one nobody ever had.         *)
Line(p) ==
  LET t == IF box = "old" THEN "legacy" ELSE "slot"
  IN  /\ box # "none" /\ clock < MaxWrites
      /\ tree[t][p] # NoFile \/ wrote[p] = 0
      /\ wrote' = [wrote EXCEPT ![p] = @ + 1] /\ clock' = clock + 1
      /\ tree' = [tree EXCEPT ![t][p] = [lines |-> @.lines + 1, mtime |-> clock + 1]]
      /\ UNCHANGED <<box, job, slipped, commands, faults>>

Step(j) == Look(j) \/ Write(j) \/ Walked(j)
Next ==
  \/ \E j \in Ups : StartUp(j) \/ Remove(j) \/ Run(j) \/ Kill(j)
  \/ \E j \in Hands : StartHand(j) \/ Kill(j)
  \/ StartSweep
  \/ \E j \in Jobs : Step(j)
  \/ Down
  \/ \E p \in Paths : Line(p)

(* The supervisor goes on sweeping; nobody waits for a command.            *)
Spec == Init /\ [][Next]_vars /\ WF_vars(StartSweep) /\ WF_vars(Step(Sweep))

-----------------------------------------------------------------------------
(* Every line an agent wrote is in the box's slot or still in the legacy   *)
(* tree, however a migration fails, is killed or meets another: the tree   *)
(* goes only after whole copies.  Two `up's that overlap may still put an  *)
(* old copy over what the new box has written since.                       *)
NoLineLost ==
  \A p \in Paths \ slipped :
    wrote[p] \in {tree["legacy"][p].lines, tree["slot"][p].lines}

(* With a box that stays up, the archive comes to hold the newest copy of  *)
(* the checkout's own sessions and keeps it, whatever other copiers left   *)
(* there meanwhile.                                                        *)
ArchiveCatchesUp ==
  <>[](box = "new")
    => <>[](\A p \in Paths \cap {"own"} :
              tree["archive"][p].lines = wrote[p] \/ p \in slipped)

(* "nothing there is removed or overwritten by an older copy"              *)
(* (transcripts.py:17), which holds for one copier and not for two.        *)
NeverOlder ==
  [][\A p \in Paths : tree["archive"][p].mtime <= tree'["archive"][p].mtime]_vars
=============================================================================
