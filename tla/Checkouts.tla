----------------------------- MODULE Checkouts -----------------------------
(* The worktrees of a project and its dev boxes: `fy worktree add` and     *)
(* `remove` (worktree.py), `fy box up` and `down` (box.py), the masks a    *)
(* box has over the dependency directories of the other checkouts          *)
(* (crossmask.py, crossinject.py) and the archive its transcripts are      *)
(* copied to before they are deleted (transcripts.py, boxmounts.py).       *)
(*                                                                         *)
(* A checkout is main or a worktree; its box has its name.  A box bakes in *)
(* the masks its creation asked for and can be given more while it runs;   *)
(* those a restart drops, and one over a checkout that is deleted stays on *)
(* the deleted directory.  An item is one piece of uncommitted work or one *)
(* transcript, a number never used twice.                                  *)
EXTENDS Integers, FiniteSets

CONSTANTS
  Names,       \* the worktrees there can be
  Main,        \* the primary checkout
  Sessions,    \* the operator's terminals
  MaxItems,    \* pieces of work and transcripts ever written
  MaxCommands, \* commands ever given
  MaxFaults    \* steps that fail, commands killed, boxes restarted

Owners == Names \cup {Main}

VARIABLES
  tree,      \* each worktree's checkout: none, unfilled, whole, or orphan: git lost track of it
  work,      \* the uncommitted work in each checkout
  parked,    \* the work kept on a ref
  reg,       \* the worktrees the computer may act on
  localstate,\* the worktrees with a mode, editor state or adopted config
  slot,      \* the transcripts in each worktree's from-box slot
  archived,  \* the transcripts the durable archive has
  vols,      \* the worktrees whose box has volumes
  box,       \* each box: its state, the masks baked in and those in force
  told,      \* <<b, n>>: the operator was told box b does not mask n
  session,   \* the command each terminal runs
  items, commands, faults,
  exempt,    \* <<b, n>> of which nothing is promised for now
  lost       \* what a removal deleted unsaved, unasked

vars == <<tree, work, parked, reg, localstate, slot, archived, vols, box, told, session,
          items, commands, faults, exempt, lost>>

NoBox == [state |-> "none", baked |-> {}, live |-> {}]

Idle == [pc |-> "idle", n |-> Main, force |-> FALSE, discard |-> FALSE, orphaned |-> FALSE,
         excused |-> FALSE, names |-> {}, asof |-> MaxItems, unsynced |-> FALSE]

Init ==
  /\ tree = [n \in Names |-> "none"]
  /\ work = [n \in Names |-> {}] /\ slot = [n \in Names |-> {}]
  /\ parked = {} /\ archived = {} /\ lost = {}
  /\ reg = {} /\ localstate = {} /\ vols = {}
  /\ box = [b \in Owners |-> NoBox]
  /\ told = {} /\ exempt = {}
  /\ session = [s \in Sessions |-> Idle]
  /\ items = 0 /\ commands = 0 /\ faults = 0

(***************************************************************************)
(* The terminals.  Two commands that are ever under way together are each  *)
(* excused: it is not held to what it would have left alone.               *)
(***************************************************************************)
At(s, pc) == session[s].pc = pc

Busy == {s \in Sessions : ~At(s, "idle")}

Start(s, pc, n, rec) ==
  /\ At(s, "idle") /\ commands < MaxCommands
  /\ commands' = commands + 1
  /\ session' = [t \in Sessions |->
       IF t = s THEN [rec EXCEPT !.pc = pc, !.n = n, !.excused = Busy # {}]
       ELSE IF t \in Busy THEN [session[t] EXCEPT !.excused = TRUE] ELSE session[t]]

Step(s, pc) == session' = [session EXCEPT ![s].pc = pc]

End(s) == session' = [session EXCEPT ![s] = Idle]

(* A step that may fail: everything outside foldyard can.                  *)
Fault == faults < MaxFaults /\ faults' = faults + 1
Fine == UNCHANGED faults

treeVars == <<tree, work, parked>>
hostVars == <<reg, localstate>>
slotVars == <<slot, archived>>
boxVars == <<vols, box, told, exempt>>
countVars == <<items, commands>>

Here(b) == IF b = Main THEN TRUE ELSE tree[b] # "none"

(* crossmask.registered and targets: every registered checkout but its own *)
Registered == reg \cup {Main}
MaskTargets(b) == {n \in Registered : n # b /\ Here(n)}

(* What a running box lacks: of the masks it should have, those not in     *)
(* force.  The box's kernel shows them; if the VM does not answer, what    *)
(* the engine recorded when the box was made is believed.                  *)
Gaps(b) == MaskTargets(b) \ box[b].live
RecordedGaps(b) == MaskTargets(b) \ box[b].baked

(* crossinject.inject: into a box that runs, mount over mount.  What it    *)
(* cannot place it says why, and the caller tells.                         *)
Injected(b, ns) == [box EXCEPT ![b].live = @ \cup ns]
Told(b, ns) == told \cup {<<b, n>> : n \in ns}

(* What is promised of a pair <<b, n>>, that box b masks n or that it was   *)
(* said not to, a command about b or n that was killed or ran beside       *)
(* another takes back, and so does a checkout's removal that left its box, *)
(* or a look that believed the record of a mask which is no longer there;  *)
(* a look over b, or a new b, gives again.                                 *)
OfBox(b) == {<<b, n>> : n \in Owners}
OfName(n) == {<<b, n>> : b \in Owners}
Believed(b) == {<<b, n>> : n \in box[b].baked \ box[b].live}
LookedOver(s, b) == IF session[s].excused THEN exempt \cup OfBox(b) ELSE exempt \ OfBox(b)

(* Checkout n's directory is deleted: a mask over it is pinned to what was *)
(* there, and what was said of it is of no use for the next n.             *)
Unpinned(n) ==
  /\ box' = [b \in Owners |-> [box[b] EXCEPT !.live = @ \ {n}]]
  /\ told' = told \ OfName(n)

(***************************************************************************)
(* `fy box up`.  A box that runs is only looked over: what it lacks is     *)
(* injected, or said.  Else any stopped one is removed, the image is made  *)
(* (or the command ends), the masks are worked out, and only then,         *)
(* after the certificate and the network, is the box run.  For a worktree  *)
(* that is not registered the computer does nothing.                       *)
(***************************************************************************)
UpStart(s, b) ==
  /\ b \in Registered /\ Here(b) /\ Start(s, "up", b, Idle)
  /\ UNCHANGED <<treeVars, hostVars, slotVars, boxVars, items, faults, lost>>

UpRunning(s) ==
  LET b == session[s].n IN
  /\ At(s, "up") /\ box[b].state = "up"
  /\ \/ Fine /\ box' = Injected(b, Gaps(b)) /\ UNCHANGED told /\ exempt' = LookedOver(s, b)
     \/ /\ Fault /\ Gaps(b) # {} /\ told' = Told(b, Gaps(b)) /\ UNCHANGED box
        /\ exempt' = LookedOver(s, b)
     \/ /\ Fault /\ told' = Told(b, RecordedGaps(b)) /\ UNCHANGED box
        /\ exempt' = LookedOver(s, b) \cup Believed(b)
  /\ End(s)
  /\ UNCHANGED <<treeVars, hostVars, slotVars, countVars, vols, lost>>

UpBuild(s) ==
  LET b == session[s].n IN
  /\ At(s, "up") /\ box[b].state # "up"
  /\ box' = [box EXCEPT ![b] = NoBox]
  /\ told' = {p \in told : p[1] # b}
  /\ \/ Fine /\ Step(s, "masks")
     \/ Fault /\ End(s)
  /\ UNCHANGED <<treeVars, hostVars, slotVars, countVars, vols, exempt, lost>>

UpMasks(s) ==
  /\ At(s, "masks")
  /\ session' = [session EXCEPT ![s].pc = "run", ![s].names = MaskTargets(session[s].n)]
  /\ UNCHANGED <<treeVars, hostVars, slotVars, countVars, boxVars, faults, lost>>

(* `podman run`: a box of that name fails it.  Without the note's volume   *)
(* no mask is placed, which is said before.                                *)
UpRun(s) ==
  LET b == session[s].n
      names == session[s].names
  IN
  /\ At(s, "run") /\ End(s)
  /\ \/ /\ box[b].state # "none" /\ Fine
        /\ UNCHANGED boxVars
     \/ /\ box[b].state = "none" /\ Fine
        /\ box' = [box EXCEPT ![b] = [state |-> "up", baked |-> names, live |-> names]]
        /\ vols' = vols \cup {b}
        /\ exempt' = LookedOver(s, b) /\ UNCHANGED told
     \/ /\ box[b].state = "none" /\ Fault
        /\ box' = [box EXCEPT ![b] = [NoBox EXCEPT !.state = "up"]]
        /\ told' = Told(b, names)
        /\ vols' = vols \cup {b}
        /\ exempt' = LookedOver(s, b)
     \/ /\ box[b].state = "none" /\ Fault
        /\ UNCHANGED boxVars
  /\ UNCHANGED <<treeVars, hostVars, slotVars, countVars, lost>>

(***************************************************************************)
(* `fy box down`: the transcripts are archived, whatever comes of it, and  *)
(* the box is removed.                                                     *)
(***************************************************************************)
(* What cannot be copied, or changes while it is, fails the archiving: one *)
(* that does not fail has everything.  (Entries that are not plain files,  *)
(* another project's folders and what lies too deep are left out here.)    *)
Mirrored(n) == archived \cup slot[n]
Archive(n) == archived' = Mirrored(n)

DownStart(s, b) ==
  /\ box[b].state # "none" /\ Start(s, "down", b, Idle)
  /\ UNCHANGED <<treeVars, hostVars, slotVars, boxVars, items, faults, lost>>

DownSync(s) ==
  /\ At(s, "down") \/ At(s, "remdown")
  /\ Step(s, IF At(s, "down") THEN "rm" ELSE "remrm")
  /\ \/ Fine /\ IF session[s].n = Main THEN UNCHANGED archived ELSE Archive(session[s].n)
     \/ Fault /\ UNCHANGED archived
  /\ UNCHANGED <<treeVars, hostVars, slot, countVars, boxVars, lost>>

(* A failure to remove it goes unnoticed.                                  *)
DownRm(s) ==
  LET b == session[s].n
      next == IF At(s, "rm") THEN Idle ELSE [session[s] EXCEPT !.pc = "vols"]
  IN
  /\ At(s, "rm") \/ At(s, "remrm")
  /\ \/ /\ Fine
        /\ session' = [session EXCEPT ![s] = next]
        /\ box' = [box EXCEPT ![b] = NoBox] /\ told' = {p \in told : p[1] # b}
     \/ /\ Fault
        /\ session' = [session EXCEPT ![s] = [next EXCEPT !.excused = At(s, "remrm")]]
        /\ UNCHANGED <<box, told>>
  /\ UNCHANGED <<treeVars, hostVars, slotVars, countVars, vols, exempt, lost>>

(***************************************************************************)
(* `fy worktree add`.  A directory that is there is registered when git    *)
(* knows it and the operator agrees.  Else the adoption an earlier         *)
(* worktree of that name left is dropped, git makes the worktree without   *)
(* its files, the VM fills it in, or it is undone; it is registered, its   *)
(* configuration offered, and the boxes that run already are told of it.   *)
(***************************************************************************)
AddExisting(s, n) ==
  /\ tree[n] \in {"unfilled", "whole"} /\ n \notin reg
  /\ Start(s, "say", n, Idle)
  /\ reg' = reg \cup {n}
  /\ UNCHANGED <<treeVars, localstate, slotVars, boxVars, items, faults, lost>>

AddNew(s, n) ==
  /\ tree[n] = "none" /\ Start(s, "git", n, Idle)
  /\ localstate' = localstate \ {n}
  /\ UNCHANGED <<treeVars, reg, slotVars, boxVars, items, faults, lost>>

AddGit(s) ==
  LET n == session[s].n IN
  /\ At(s, "git")
  /\ \/ /\ tree[n] = "none" /\ Fine
        /\ tree' = [tree EXCEPT ![n] = "unfilled"] /\ Step(s, "checkout")
     \/ /\ tree[n] # "none" /\ Fine
        /\ End(s) /\ UNCHANGED tree
  /\ UNCHANGED <<work, parked, hostVars, slotVars, countVars, boxVars, lost>>

(* The VM writes the files over whatever is there by now, and an undone    *)
(* worktree goes with what is in it.                                       *)
AddCheckout(s) ==
  LET n == session[s].n
      Emptied == [work EXCEPT ![n] = {}]
  IN
  /\ At(s, "checkout")
  /\ \/ /\ tree[n] \in {"unfilled", "whole"} /\ Fine
        /\ tree' = [tree EXCEPT ![n] = "whole"] /\ Step(s, "register")
        /\ work' \in {work, Emptied}
        /\ UNCHANGED <<box, told>>
     \/ tree[n] = "none" /\ Fine /\ End(s) /\ UNCHANGED <<tree, work, box, told>>
     \/ /\ Fault /\ End(s)
        /\ tree' = [tree EXCEPT ![n] = "none"] /\ work' = Emptied /\ Unpinned(n)
  /\ lost' = IF session[s].excused THEN lost ELSE lost \cup (work[n] \ work'[n])
  /\ UNCHANGED <<parked, hostVars, slotVars, countVars, vols, exempt>>

AddRegister(s) ==
  LET n == session[s].n IN
  /\ At(s, "register")
  /\ IF tree[n] = "none" THEN End(s) /\ UNCHANGED reg
     ELSE Step(s, "adopt") /\ reg' = reg \cup {n}
  /\ UNCHANGED <<treeVars, localstate, slotVars, countVars, boxVars, faults, lost>>

AddAdopt(s) ==
  /\ At(s, "adopt") /\ Step(s, "sayfresh")
  /\ localstate' = localstate \cup {session[s].n}
  /\ UNCHANGED <<treeVars, reg, slotVars, countVars, boxVars, faults, lost>>

(* Mutant: only the boxes of worktrees are looked at.                      *)
Late_Worktrees(n, masked) ==
  {b \in reg \ {n} : box[b].state = "up" /\ n \in MaskTargets(b) \ masked[b]}

(* _late_boxes: of the boxes of registered checkouts that run now, those   *)
(* that should mask n and do not.                                          *)
Late(n, masked) ==
  {b \in Registered \ {n} : box[b].state = "up" /\ n \in MaskTargets(b) \ masked[b]}

(* A checkout just made is masked in no box, whatever the box shows; of    *)
(* another each box is asked.                                              *)
AddSay(s) ==
  LET n == session[s].n
      none == [b \in Owners |-> {}]
      shown == [b \in Owners |-> box[b].live]
      recorded == [b \in Owners |-> box[b].baked]
      Say(late) == session' = [session EXCEPT ![s].pc = "inject", ![s].names = late]
  IN
  /\ \/ At(s, "sayfresh") /\ Fine /\ Say(Late(n, none)) /\ UNCHANGED exempt
     \/ At(s, "say") /\ Fine /\ Say(Late(n, shown)) /\ UNCHANGED exempt
     \/ /\ At(s, "say") /\ Fault /\ Say(Late(n, recorded))
        /\ exempt' = exempt \cup (OfName(n) \cap UNION {Believed(b) : b \in Owners})
  /\ UNCHANGED <<treeVars, hostVars, slotVars, countVars, vols, box, told, lost>>

(* One box at a time: one that stopped meanwhile refuses.                  *)
AddInject(s) ==
  LET n == session[s].n IN
  /\ At(s, "inject")
  /\ \/ \E b \in session[s].names :
          /\ session' = [session EXCEPT ![s].names = @ \ {b}]
          /\ \/ Fine /\ box[b].state = "up" /\ box' = Injected(b, {n}) /\ UNCHANGED told
             \/ Fine /\ box[b].state # "up" /\ told' = Told(b, {n}) /\ UNCHANGED box
             \/ Fault /\ told' = Told(b, {n}) /\ UNCHANGED box
          /\ UNCHANGED exempt
     \/ /\ session[s].names = {} /\ End(s) /\ Fine
        /\ exempt' = IF session[s].excused THEN exempt \cup OfName(n) ELSE exempt
        /\ UNCHANGED <<box, told>>
  /\ UNCHANGED <<treeVars, hostVars, slotVars, countVars, vols, lost>>

(***************************************************************************)
(* `fy worktree remove`.  Without a checkout only what it left behind is   *)
(* removed.  Else: the box down, its volumes and the stack's; the          *)
(* transcripts archived, or it ends, without --force; then the work: the   *)
(* VM looks for uncommitted work, which ends the removal or, forced, is    *)
(* kept on a ref; git removes the checkout; then the local state and the   *)
(* slot.                                                                   *)
(***************************************************************************)
RemStart(s, n, force, discard) ==
  LET orphaned == tree[n] = "orphan" IN
  /\ tree[n] # "none" /\ (orphaned => force)
  /\ Start(s, "remdown", n,
           [Idle EXCEPT !.force = force, !.discard = discard, !.orphaned = orphaned])
  /\ UNCHANGED <<treeVars, hostVars, slotVars, boxVars, items, faults, lost>>

(* Mutant: `down` has archived the transcripts already.                    *)
RemVols_Archived(s) ==
  LET n == session[s].n IN
  /\ At(s, "vols") /\ Step(s, "check")
  /\ vols' = IF box[n].state = "none" THEN vols \ {n} ELSE vols
  /\ archived' \in {archived, Mirrored(n)}
  /\ UNCHANGED <<treeVars, hostVars, slot, countVars, box, told, exempt, faults, lost>>

(* `fy nuke` archives too, where there is a stack to nuke.                 *)
RemVols(s) ==
  LET n == session[s].n IN
  /\ At(s, "vols") /\ Step(s, "sync")
  /\ vols' = IF box[n].state = "none" THEN vols \ {n} ELSE vols
  /\ archived' \in {archived, Mirrored(n)}
  /\ UNCHANGED <<treeVars, hostVars, slot, countVars, box, told, exempt, faults, lost>>

RemSync(s) ==
  LET next == IF At(s, "sync") THEN "check" ELSE "leftslot" IN
  /\ At(s, "sync") \/ At(s, "leftsync")
  /\ \/ Fine /\ Archive(session[s].n) /\ Step(s, next)
     \/ Fault /\ ~session[s].force /\ End(s) /\ UNCHANGED archived
     \/ /\ Fault /\ session[s].force
        /\ session' = [session EXCEPT ![s].pc = next, ![s].unsynced = TRUE]
        /\ UNCHANGED archived
  /\ UNCHANGED <<treeVars, hostVars, slot, countVars, boxVars, lost>>

(* A checkout gone, with the work in it that is on no ref.  Nobody asked   *)
(* to lose what was there when it was last looked for.                     *)
Gone(s, n) ==
  /\ tree' = [tree EXCEPT ![n] = "none"]
  /\ work' = [work EXCEPT ![n] = {}]
  /\ Unpinned(n)
  /\ lost' = IF session[s].discard \/ session[s].orphaned THEN lost
             ELSE lost \cup {i \in work[n] \ parked : i <= session[s].asof}

Verdict(s) ==
  LET n == session[s].n IN
  IF session[s].discard THEN "clean" ELSE IF work[n] = {} THEN "clean"
  ELSE IF session[s].force THEN "saved" ELSE "dirty"

RemCheck(s) ==
  LET n == session[s].n
      looked == [session[s] EXCEPT !.asof = items]
  IN
  /\ At(s, "check") /\ ~session[s].orphaned
  /\ \/ Fault /\ ~session[s].discard /\ End(s)
     \/ Fine /\ tree[n] = "none" /\ End(s)
     \/ Fine /\ tree[n] # "none" /\ Verdict(s) = "dirty" /\ End(s)
     \/ /\ Fine /\ tree[n] # "none" /\ Verdict(s) = "clean"
        /\ session' = [session EXCEPT ![s] = [looked EXCEPT !.pc = "gitrm"]]
     \/ /\ Fine /\ tree[n] # "none" /\ Verdict(s) = "saved"
        /\ session' = [session EXCEPT ![s] = [looked EXCEPT !.pc = "park", !.names = work[n]]]
  /\ UNCHANGED <<treeVars, hostVars, slotVars, countVars, boxVars, lost>>

RemPark(s) ==
  /\ At(s, "park")
  /\ \/ Fine /\ parked' = parked \cup session[s].names /\ Step(s, "gitrm")
     \/ Fault /\ End(s) /\ UNCHANGED parked
  /\ UNCHANGED <<tree, work, hostVars, slotVars, countVars, boxVars, lost>>

RemGit(s) ==
  LET n == session[s].n IN
  /\ At(s, "gitrm")
  /\ \/ tree[n] \in {"unfilled", "whole"} /\ Fine /\ Gone(s, n) /\ Step(s, "local")
     \/ tree[n] \in {"none", "orphan"} /\ Fine /\ End(s) /\ UNCHANGED <<tree, work, box, told, lost>>
     \/ Fault /\ End(s) /\ UNCHANGED <<tree, work, box, told, lost>>
  /\ UNCHANGED <<parked, hostVars, slotVars, countVars, vols, exempt>>

RemOrphan(s) ==
  /\ At(s, "check") /\ session[s].orphaned
  /\ \/ Fine /\ Gone(s, session[s].n) /\ Step(s, "local")
     \/ Fault /\ End(s) /\ UNCHANGED <<tree, work, box, told, lost>>
  /\ UNCHANGED <<parked, hostVars, slotVars, countVars, vols, exempt>>

(* unregister, then the adoption and the directories, any of which can     *)
(* fail to go; only then is the slot left.                                 *)
RemLocal(s) ==
  LET n == session[s].n IN
  /\ At(s, "local") \/ At(s, "leftlocal")
  /\ reg' = reg \ {n}
  /\ exempt' = IF box[n].state = "none" THEN exempt ELSE exempt \cup OfBox(n)
  /\ \/ /\ Fine /\ localstate' = localstate \ {n}
        /\ IF At(s, "local") THEN Step(s, "slot")
           ELSE Step(s, IF slot[n] # {} THEN "leftsync" ELSE "leftvols")
     \/ Fault /\ End(s) /\ UNCHANGED localstate
  /\ UNCHANGED <<treeVars, slotVars, countVars, vols, box, told, lost>>

RemSlot(s) ==
  LET n == session[s].n IN
  /\ At(s, "slot") \/ At(s, "leftslot")
  /\ \/ /\ Fine /\ slot' = [slot EXCEPT ![n] = {}]
        /\ IF At(s, "slot") THEN End(s) ELSE Step(s, "leftvols")
        /\ lost' = IF session[s].excused \/ session[s].unsynced THEN lost
                   ELSE lost \cup (slot[n] \ archived)
     \/ Fault /\ End(s) /\ UNCHANGED <<slot, lost>>
  /\ UNCHANGED <<treeVars, hostVars, archived, countVars, boxVars>>

(* What an earlier removal, or a checkout deleted by hand, left behind.    *)
RemLeftovers(s, n, force) ==
  /\ tree[n] = "none"
  /\ Start(s, IF n \in reg \cup localstate THEN "leftlocal"
              ELSE IF slot[n] # {} THEN "leftsync" ELSE "leftvols", n,
           [Idle EXCEPT !.force = force, !.unsynced = box[n].state = "up"])
  /\ n \in reg \cup localstate \/ slot[n] # {} \/ n \in vols
  /\ UNCHANGED <<treeVars, hostVars, slotVars, boxVars, items, faults, lost>>

RemLeftVols(s) ==
  LET n == session[s].n IN
  /\ At(s, "leftvols") /\ End(s)
  /\ vols' = IF box[n].state = "none" THEN vols \ {n} ELSE vols
  /\ UNCHANGED <<treeVars, hostVars, slotVars, countVars, box, told, exempt, faults, lost>>


(***************************************************************************)
(* Around them: a command is killed; a box stops, or is restarted with     *)
(* the masks it was made with; the supervisor archives transcripts as they *)
(* are written; work is written in any checkout and committed; git loses   *)
(* track of a worktree.                                                    *)
(***************************************************************************)
Kill(s) ==
  /\ s \in Busy /\ Fault /\ End(s)
  /\ exempt' = exempt \cup OfBox(session[s].n) \cup OfName(session[s].n)
  /\ UNCHANGED <<treeVars, hostVars, slotVars, countVars, vols, box, told, lost>>

BoxStops(b) ==
  /\ box[b].state = "up" /\ Fault
  /\ box' = [box EXCEPT ![b].state = "stopped"]
  /\ UNCHANGED <<treeVars, hostVars, slotVars, countVars, vols, told, exempt, session, lost>>

BoxRestarts(b) ==
  /\ box[b].state = "up" /\ Fault
  /\ box' = [box EXCEPT ![b].live = box[b].baked]
  /\ exempt' = exempt \cup OfBox(b)
  /\ UNCHANGED <<treeVars, hostVars, slotVars, countVars, vols, told, session, lost>>

Sweep(n) ==
  /\ n \in reg /\ ~(slot[n] \subseteq archived)
  /\ Archive(n)
  /\ UNCHANGED <<treeVars, hostVars, slot, countVars, boxVars, session, faults, lost>>

NewItem == items < MaxItems /\ items' = items + 1

WriteWork(n) ==
  /\ tree[n] = "whole" /\ NewItem
  /\ work' = [work EXCEPT ![n] = @ \cup {items'}]
  /\ UNCHANGED <<tree, parked, hostVars, slotVars, commands, boxVars, session, faults, lost>>

Commit(n) ==
  /\ work[n] # {} /\ work' = [work EXCEPT ![n] = {}]
  /\ UNCHANGED <<tree, parked, hostVars, slotVars, countVars, boxVars, session, faults, lost>>

Speak(n) ==
  /\ box[n].state = "up" /\ NewItem
  /\ slot' = [slot EXCEPT ![n] = @ \cup {items'}]
  /\ UNCHANGED <<treeVars, hostVars, archived, commands, boxVars, session, faults, lost>>

LoseTrack(n) ==
  /\ tree[n] = "whole" /\ Fault
  /\ tree' = [tree EXCEPT ![n] = "orphan"]
  /\ UNCHANGED <<work, parked, hostVars, slotVars, countVars, boxVars, session, lost>>

Up(s) == UpRunning(s) \/ UpBuild(s) \/ UpMasks(s) \/ UpRun(s)
Down(s) == DownSync(s) \/ DownRm(s)
Add(s) == AddGit(s) \/ AddCheckout(s) \/ AddRegister(s) \/ AddAdopt(s) \/ AddSay(s) \/ AddInject(s)
Remove(s) ==
  \/ RemVols(s) \/ RemSync(s) \/ RemCheck(s) \/ RemPark(s) \/ RemGit(s) \/ RemOrphan(s)
  \/ RemLocal(s) \/ RemSlot(s) \/ RemLeftVols(s)

Command(s) ==
  \/ \E b \in Owners : UpStart(s, b) \/ DownStart(s, b)
  \/ \E n \in Names :
       \/ AddExisting(s, n) \/ AddNew(s, n)
       \/ \E force, discard \in BOOLEAN : RemStart(s, n, force, discard)
       \/ \E force \in BOOLEAN : RemLeftovers(s, n, force)

Around ==
  \/ \E b \in Owners : BoxStops(b) \/ BoxRestarts(b)
  \/ \E n \in Names : Sweep(n) \/ WriteWork(n) \/ Commit(n) \/ Speak(n) \/ LoseTrack(n)

Next ==
  \/ \E s \in Sessions : Command(s) \/ Up(s) \/ Down(s) \/ Add(s) \/ Remove(s) \/ Kill(s)
  \/ Around

Spec == Init /\ [][Next]_vars

(***************************************************************************)
(* A registered checkout's running box has over every other registered     *)
(* checkout's dependency directories a mask, or the operator was told that *)
(* it has not -- once no command is under way, and unless one that made    *)
(* the box or registered the checkout was killed or ran beside another, or *)
(* the box restarted or outlived its own checkout's removal.               *)
(***************************************************************************)
MasksOrSaid ==
  Busy = {} =>
    \A b \in Registered : box[b].state = "up" =>
      \A n \in MaskTargets(b) : n \in box[b].live \/ <<b, n>> \in told \/ <<b, n>> \in exempt

(***************************************************************************)
(* A removal deletes nothing that is in no other place and that it was not *)
(* told to lose: no uncommitted work there was when it looked, and, when   *)
(* no other command ran beside it and the box was really gone, no          *)
(* transcript at all, whatever failed or was killed before.  Nor does an   *)
(* `add` that runs alone and is undone.                                    *)
(***************************************************************************)
NothingLostUnasked == lost = {}
=============================================================================
