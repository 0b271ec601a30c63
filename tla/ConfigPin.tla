----------------------------- MODULE ConfigPin -----------------------------
(***************************************************************************)
(* The config the host runs.  Anything that can write a checkout can write *)
(* its two config files, so the host runs the copy an operator adopted: a  *)
(* generation, written whole beside the older ones, that the pin's marker  *)
(* names.  Sessions review and adopt, revert, share a host, add and remove *)
(* worktrees; the box writes the trees meanwhile; the supervisor reads the *)
(* pins file by file; a session may be killed between any two steps.       *)
(***************************************************************************)
EXTENDS Naturals, FiniteSets, Sequences

CONSTANTS
  Checkouts, Main,
  Files,       \* PINNED_FILES
  FileOrder,   \* the order they are read and put back in
  Shared,      \* the one the whole team shares, foldyard.toml
  Contents, Absent,
  Sessions,    \* operators' commands and dialogs
  Agendas,     \* what operators may set out to do, in order: kinds of sessions and checkouts
  Nothing,     \* no file set: nothing adopted, nothing shown
  Trees,       \* what the checkouts may hold at first
  MaxEdits,    \* bound: writes of the box
  MaxKills     \* bound: sessions killed

ASSUME CheckoutsAssumption == Main \in Checkouts
ASSUME FilesAssumption ==
  /\ Shared \in Files /\ IsFiniteSet(Files)
  /\ FileOrder \in Seq(Files) /\ \A f \in Files : \E i \in DOMAIN FileOrder : FileOrder[i] = f
ASSUME BoundsAssumption == MaxEdits \in Nat /\ MaxKills \in Nat

Bytes == Contents \cup {Absent}
FileSet == [Files -> Bytes]
NoFiles == [f \in Files |-> Absent]
ASSUME TreesAssumption == Trees \subseteq [Checkouts -> FileSet]
ASSUME NothingAssumption == Nothing \notin FileSet

Kinds == {"gate", "explicit", "revert", "share", "add", "remove"}
Task == [kind : Kinds, at : Checkouts]
ASSUME AgendasAssumption == Agendas \subseteq Seq(Task)
ASSUME OnlyWorktreesGo ==
  \A a \in Agendas : \A i \in DOMAIN a : a[i].kind \in {"add", "remove"} => a[i].at # Main

VARIABLES
  tree,      \* each checkout's files
  marker,    \* the generation each pin's marker names, 0 for no marker
  gens,      \* each pin's generations, those being deleted included
  minted,    \* the last generation made
  sess,      \* the sessions
  tick,      \* the supervisor's reading of one checkout's pin
  agenda,    \* what operators have yet to set out to do
  adopted,   \* the file sets each pin's marker ever named (history)
  crossed,   \* pins that were switched while another generation waited (history)
  edits, kills

pins == <<marker, gens, minted>>
history == <<adopted, crossed>>
vars == <<tree, pins, sess, tick, agenda, history, edits, kills>>

-----------------------------------------------------------------------------
(* A generation's files, as far as they are still there.                   *)
View(gn) == [f \in Files |-> IF f \in gn.left THEN gn.files[f] ELSE Absent]
Selected(c) == marker[c] \in DOMAIN gens[c]
PinOf(c) == IF Selected(c) THEN View(gens[c][marker[c]]) ELSE Nothing
Youngest(c) == {g \in DOMAIN gens[c] : \A h \in DOMAIN gens[c] : gens[c][h].mtime <= gens[c][g].mtime}
Now(c) == IF DOMAIN gens[c] = {} THEN 1 ELSE 1 + gens[c][CHOOSE g \in Youngest(c) : TRUE].mtime

Steps == {"idle", "inspect", "read", "measure", "ask", "reinspect", "reread", "check", "publish",
          "mark", "prune", "delete", "restore", "forget", "raze", "checkout"}

Idle == [pc |-> "idle", kind |-> "gate", at |-> Main, pinned |-> Nothing, tree |-> NoFiles,
         todo |-> <<>>, shown |-> Nothing, base |-> Nothing, gen |-> 0, doomed |-> {}]

Resting == [pc |-> "idle", at |-> Main, gen |-> 0, todo |-> <<>>, cfg |-> NoFiles, moves |-> 0,
            misled |-> FALSE]

(* Nothing is adopted at first, or every checkout as it stands.            *)
Earlier(files) ==
  [files |-> files, left |-> {f \in Files : files[f] # Absent}, mtime |-> 1, named |-> TRUE,
   shown |-> files, unasked |-> FALSE]

Init ==
  /\ tree \in Trees
  /\ \E held \in {{}, {c \in Checkouts : tree[c] # NoFiles}} :
       /\ marker = [c \in Checkouts |-> IF c \in held THEN 1 ELSE 0]
       /\ gens = [c \in Checkouts |-> [g \in (IF c \in held THEN {1} ELSE {}) |-> Earlier(tree[c])]]
       /\ adopted = [c \in Checkouts |-> IF c \in held THEN {tree[c]} ELSE {}]
  /\ minted = 1
  /\ sess = [s \in Sessions |-> Idle]
  /\ tick = Resting
  /\ agenda \in Agendas
  /\ crossed = {}
  /\ edits = 0 /\ kills = 0

(* The box, a branch switch, an editor.                                    *)
BoxWrites(c, f) ==
  /\ edits < MaxEdits
  /\ \E b \in Bytes \ {tree[c][f]} : tree' = [tree EXCEPT ![c][f] = b]
  /\ edits' = edits + 1
  /\ UNCHANGED <<pins, sess, tick, agenda, history, kills>>

-----------------------------------------------------------------------------
(* Session s's checkout, and its next record.                              *)
At(s) == sess[s].at
Becomes(s, r) == sess' = [sess EXCEPT ![s] = r]
Goes(s, pc) == Becomes(s, [sess[s] EXCEPT !.pc = pc])
Ends(s) == Becomes(s, Idle)

(* A worktree is added where there is none.                                *)
Start(s) ==
  LET t == Head(agenda)
  IN  /\ sess[s].pc = "idle" /\ agenda # <<>>
      /\ (t.kind = "add") <=> (t.at # Main /\ tree[t.at] = NoFiles)
      /\ Becomes(s, [Idle EXCEPT !.kind = t.kind, !.at = t.at,
                       !.pc = CASE t.kind = "explicit"             -> "reinspect"
                                [] t.kind \in {"add", "remove"}    -> "forget"
                                [] OTHER                           -> "inspect"])
      /\ agenda' = Tail(agenda)
      /\ UNCHANGED <<tree, pins, tick, history, edits, kills>>

(* inspect(): the pin, then the tree file by file; once to show it and     *)
(* once more to adopt it.                                                  *)
Inspect(s) ==
  /\ sess[s].pc \in {"inspect", "reinspect"}
  /\ Becomes(s, [sess[s] EXCEPT !.tree = NoFiles, !.todo = FileOrder,
                   !.pinned = IF sess[s].pc = "inspect" THEN PinOf(At(s)) ELSE Nothing,
                   !.pc = IF @ = "inspect" THEN "read" ELSE "reread"])
  /\ UNCHANGED <<tree, pins, tick, agenda, history, edits, kills>>

(* The tree is read: to be checked, or shown, or put back.                 *)
AllRead(r) ==
  CASE r.pc = "reread" -> [r EXCEPT !.pc = "check"]
    [] r.pc = "read" /\ r.kind # "revert" -> [r EXCEPT !.pc = "measure"]
    [] r.pc = "read" /\ r.kind = "revert" ->
         IF r.pinned = Nothing THEN Idle ELSE [r EXCEPT !.pc = "restore", !.todo = FileOrder]

ReadTree(s) ==
  LET r == sess[s]
      f == Head(r.todo)
      seen == [r EXCEPT !.tree[f] = tree[At(s)][f], !.todo = Tail(@)]
  IN  /\ r.pc \in {"read", "reread"}
      /\ Becomes(s, IF seen.todo # <<>> THEN seen ELSE AllRead(seen))
      /\ UNCHANGED <<tree, pins, tick, agenda, history, edits, kills>>

(* main_baseline(): a worktree's first adoption is shown as what it adds   *)
(* to the config main runs.                                                *)
Baseline(c) == IF c = Main THEN Nothing ELSE PinOf(Main)

Measure(s) ==
  /\ sess[s].pc = "measure"
  /\ Becomes(s, [sess[s] EXCEPT !.pc = "ask",
                   !.base = IF sess[s].pinned = Nothing THEN Baseline(At(s)) ELSE Nothing])
  /\ UNCHANGED <<tree, pins, tick, agenda, history, edits, kills>>

(* A new worktree whose config is main's adopted one is adopted unasked;   *)
(* any other is inspected again, to be shown.                              *)
AdoptUnasked(s) ==
  LET r == sess[s]
  IN  /\ r.pc = "ask" /\ r.kind = "add"
      /\ IF r.pinned = Nothing /\ r.base = r.tree
           THEN Becomes(s, [r EXCEPT !.pc = "reinspect", !.shown = r.tree])
           ELSE Becomes(s, [r EXCEPT !.pc = "inspect", !.kind = "gate"])
      /\ UNCHANGED <<tree, pins, tick, agenda, history, edits, kills>>

(* The operator reads what is shown, for as long as it takes.              *)
Clean(s) == sess[s].pinned # Nothing /\ sess[s].tree = sess[s].pinned

SaysAdopt(s) ==
  LET r == sess[s]
  IN  /\ r.pc = "ask" /\ r.kind = "gate" /\ ~Clean(s)
      /\ Becomes(s, [r EXCEPT !.pc = "reinspect", !.shown = r.tree])
      /\ UNCHANGED <<tree, pins, tick, agenda, history, edits, kills>>

SaysRevert(s) ==
  /\ sess[s].pc = "ask" /\ sess[s].kind = "gate" /\ ~Clean(s) /\ sess[s].pinned # Nothing
  /\ Becomes(s, [sess[s] EXCEPT !.pc = "inspect", !.kind = "revert"])
  /\ UNCHANGED <<tree, pins, tick, agenda, history, edits, kills>>

(* Nothing to ask about, no, ignore, or no terminal to ask on.             *)
Leaves(s) ==
  /\ sess[s].pc = "ask" /\ sess[s].kind \in {"gate", "share"}
  /\ Ends(s)
  /\ UNCHANGED <<tree, pins, tick, agenda, history, edits, kills>>

(* _share(): the operator's own edit goes into the shared file, unless it  *)
(* changed meanwhile, and is adopted with what was adopted before.         *)
SaysShare(s) ==
  LET r == sess[s]
  IN  /\ r.pc = "ask" /\ r.kind = "share" /\ tree[At(s)][Shared] = r.tree[Shared]
      /\ \E b \in Contents \ {r.tree[Shared]} :
           LET edited == [r.tree EXCEPT ![Shared] = b]
           IN  /\ tree' = [tree EXCEPT ![At(s)][Shared] = b]
               /\ IF Clean(s) THEN Becomes(s, [r EXCEPT !.pc = "reinspect", !.shown = edited])
                              ELSE Ends(s)
      /\ UNCHANGED <<pins, tick, agenda, history, edits, kills>>

-----------------------------------------------------------------------------
(* Mutant: the tree may move after it was shown.                           *)
Stale_OnlyMain(s) == sess[s].base # Nothing /\ Baseline(At(s)) # sess[s].base

(* adopt(): stale if the tree is not what was shown, or main's pin not     *)
(* what it was measured against.  `fy config adopt' shows nothing: asking  *)
(* for it is the decision.                                                 *)
Stale(s) ==
  LET r == sess[s]
  IN  \/ r.shown # Nothing /\ r.tree # r.shown
      \/ r.base # Nothing /\ Baseline(At(s)) # r.base

Check(s) ==
  LET r == sess[s]
  IN  /\ r.pc = "check"
      /\ IF ~Stale(s) THEN Goes(s, "publish")
         ELSE IF r.kind = "add" THEN Becomes(s, [Idle EXCEPT !.at = r.at, !.pc = "inspect"])
         ELSE Ends(s)
      /\ UNCHANGED <<tree, pins, tick, agenda, history, edits, kills>>

(* The generation is staged where nobody looks and renamed into place.     *)
(* History: what it was shown as, and whether anybody was asked.           *)
Generation(r) ==
  [files |-> r.tree, left |-> {f \in Files : r.tree[f] # Absent}, mtime |-> Now(r.at), named |-> FALSE,
   shown |-> IF r.kind = "explicit" THEN r.tree ELSE r.shown, unasked |-> r.kind = "add"]

Publish(s) ==
  LET c == At(s)
      new == minted + 1
  IN  /\ sess[s].pc = "publish"
      /\ minted' = new
      /\ gens' = [gens EXCEPT ![c] = [g \in DOMAIN @ \cup {new} |->
                     IF g = new THEN Generation(sess[s]) ELSE @[g]]]
      /\ Becomes(s, [Idle EXCEPT !.pc = "mark", !.at = c, !.gen = new])
      /\ UNCHANGED <<tree, marker, tick, agenda, history, edits, kills>>

(* History: an adoption crosses another's path if a generation waits for   *)
(* its marker while this one's is written, or if the marker has moved on   *)
(* or a generation waits when this one prunes.                             *)
Waiting(c) == {g \in DOMAIN gens[c] : ~gens[c][g].named}
Crossing(c, alone) == IF alone THEN crossed ELSE crossed \cup {c}

(* The marker is replaced in one rename.                                   *)

Mark(s) ==
  LET c == At(s)
      g == sess[s].gen
  IN  /\ sess[s].pc = "mark"
      /\ marker' = [marker EXCEPT ![c] = g]
      /\ IF g \in DOMAIN gens[c]
           THEN /\ gens' = [gens EXCEPT ![c][g].named = TRUE]
                /\ adopted' = [adopted EXCEPT ![c] = @ \cup {gens[c][g].files}]
           ELSE UNCHANGED <<gens, adopted>>
      /\ crossed' = Crossing(c, Waiting(c) = {g})
      /\ tick' = IF tick.at = c /\ tick.pc # "idle" /\ tick.moves < 2
                   THEN [tick EXCEPT !.moves = @ + 1] ELSE tick
      /\ Goes(s, "prune")
      /\ UNCHANGED <<tree, minted, agenda, edits, kills>>

(* All but the own generation and the youngest other one are deleted.      *)
Superseded(c, keep) ==
  LET others == DOMAIN gens[c] \ {keep}
  IN  {g \in others : \E h \in others : gens[c][h].mtime > gens[c][g].mtime}

(* History: a deletion that was cut short makes its generation the         *)
(* youngest, and a later adoption keeps that one.                          *)
Whole(gn) == gn.left = {f \in Files : gn.files[f] # Absent}
Misled(c, keep) ==
  \E g \in (DOMAIN gens[c] \ {keep}) \ Superseded(c, keep) : ~Whole(gens[c][g])

Prune(s) ==
  LET c == At(s)
      keep == sess[s].gen
  IN  /\ sess[s].pc = "prune"
      /\ Becomes(s, [sess[s] EXCEPT !.pc = "delete", !.doomed = Superseded(c, keep)])
      /\ crossed' = Crossing(c, marker[c] = keep /\ Waiting(c) = {})
      /\ tick' = IF tick.at = c /\ tick.pc # "idle" /\ Misled(c, keep)
                   THEN [tick EXCEPT !.misled = TRUE] ELSE tick
      /\ UNCHANGED <<tree, pins, agenda, adopted, edits, kills>>

(* rmtree, file by file, then the directory.                               *)
Unlink(c, g) ==
  \/ \E f \in gens[c][g].left :
       gens' = [gens EXCEPT ![c][g] = [gens[c][g] EXCEPT !.left = gens[c][g].left \ {f}, !.mtime = Now(c)]]
  \/ /\ gens[c][g].left = {}
     /\ gens' = [gens EXCEPT ![c] = [h \in DOMAIN @ \ {g} |-> @[h]]]

Delete(s) ==
  /\ sess[s].pc \in {"delete", "raze"}
  /\ \E g \in sess[s].doomed \cap DOMAIN gens[At(s)] : Unlink(At(s), g)
  /\ UNCHANGED <<tree, marker, minted, sess, tick, agenda, history, edits, kills>>

Deleted(s) == sess[s].doomed \cap DOMAIN gens[At(s)] = {}

Adopted(s) ==
  /\ sess[s].pc = "delete" /\ Deleted(s)
  /\ Ends(s)
  /\ UNCHANGED <<tree, pins, tick, agenda, history, edits, kills>>

-----------------------------------------------------------------------------
(* revert(): file by file, what differed when it was read; a file the pin  *)
(* does not have is moved aside.                                           *)
Restore(s) ==
  LET r == sess[s]
      f == Head(r.todo)
  IN  /\ r.pc = "restore"
      /\ tree' = IF r.tree[f] = r.pinned[f] THEN tree ELSE [tree EXCEPT ![At(s)][f] = r.pinned[f]]
      /\ IF Tail(r.todo) = <<>> THEN Ends(s) ELSE Becomes(s, [r EXCEPT !.todo = Tail(@)])
      /\ UNCHANGED <<pins, tick, agenda, history, edits, kills>>

(* Mutant: the marker goes with the rest.                                  *)
Forget_MarkerStays(s) ==
  LET c == At(s)
  IN  /\ sess[s].pc = "forget"
      /\ tree' = [tree EXCEPT ![c] = NoFiles]
      /\ Becomes(s, [sess[s] EXCEPT !.pc = "raze", !.doomed = DOMAIN gens[c]])
      /\ tick' = IF tick.at = c /\ tick.pc # "idle" THEN [tick EXCEPT !.moves = 2] ELSE tick
      /\ crossed' = Crossing(c, Waiting(c) = {})
      /\ UNCHANGED <<marker, gens, minted, agenda, adopted, edits, kills>>

(* forget(): the marker first, then everything.  A worktree's files are    *)
(* gone by then, or not made yet.                                          *)
Forget(s) ==
  LET c == At(s)
  IN  /\ sess[s].pc = "forget"
      /\ tree' = [tree EXCEPT ![c] = NoFiles]
      /\ marker' = [marker EXCEPT ![c] = 0]
      /\ Becomes(s, [sess[s] EXCEPT !.pc = "raze", !.doomed = DOMAIN gens[c]])
      /\ tick' = IF tick.at = c /\ tick.pc # "idle" THEN [tick EXCEPT !.moves = 2] ELSE tick
      /\ crossed' = Crossing(c, Waiting(c) = {})
      /\ UNCHANGED <<gens, minted, agenda, adopted, edits, kills>>

(* The pin is gone, unless another adoption has filled it meanwhile.  A    *)
(* new worktree is checked out.                                            *)
Razed(s) ==
  LET c == At(s)
      gone == marker[c] = 0 /\ DOMAIN gens[c] = {}
  IN  /\ sess[s].pc = "raze" /\ Deleted(s)
      /\ IF gone /\ sess[s].kind = "add" THEN Goes(s, "checkout") ELSE Ends(s)
      /\ UNCHANGED <<tree, pins, tick, agenda, history, edits, kills>>

CheckOut(s) ==
  /\ sess[s].pc = "checkout"
  /\ \E files \in [Files -> Contents] : tree' = [tree EXCEPT ![At(s)] = files]
  /\ Goes(s, "inspect")
  /\ UNCHANGED <<pins, tick, agenda, history, edits, kills>>

(* Killed before it has changed anything, a session might as well not have *)
(* begun.                                                                  *)
Killed(s) ==
  /\ kills < MaxKills /\ sess[s].pc \in {"mark", "prune", "delete", "restore", "raze", "checkout"}
  /\ kills' = kills + 1
  /\ Ends(s)
  /\ UNCHANGED <<tree, pins, tick, agenda, history, edits>>

-----------------------------------------------------------------------------
(* The supervisor's turn for a checkout: the marker, the generation's      *)
(* directory, its files; then the look that tells whether anything is      *)
(* adopted at all.  With nothing adopted the config is empty.              *)
TickBegins(c) ==
  /\ tick.pc = "idle"
  /\ tick' = [Resting EXCEPT !.pc = "dir", !.at = c, !.gen = marker[c]]
  /\ UNCHANGED <<tree, pins, sess, agenda, history, edits, kills>>

TickOpens ==
  /\ tick.pc = "dir"
  /\ tick' = IF tick.gen \in DOMAIN gens[tick.at] THEN [tick EXCEPT !.pc = "files", !.todo = FileOrder]
                                                  ELSE [tick EXCEPT !.pc = "report"]
  /\ UNCHANGED <<tree, pins, sess, agenda, history, edits, kills>>

TickReads ==
  LET f == Head(tick.todo)
      there == tick.gen \in DOMAIN gens[tick.at]
  IN  /\ tick.pc = "files"
      /\ tick' = [tick EXCEPT !.cfg[f] = IF there THEN View(gens[tick.at][tick.gen])[f] ELSE Absent,
                              !.todo = Tail(@), !.pc = IF Tail(tick.todo) = <<>> THEN "report" ELSE @]
      /\ UNCHANGED <<tree, pins, sess, agenda, history, edits, kills>>

(* _report_config_drift() lets the turn go on, or not.                     *)
TickReports ==
  /\ tick.pc = "report"
  /\ tick' = IF Selected(tick.at) THEN [tick EXCEPT !.pc = "runs", !.gen = 0] ELSE Resting
  /\ UNCHANGED <<tree, pins, sess, agenda, history, edits, kills>>

TickEnds ==
  /\ tick.pc = "runs"
  /\ tick' = Resting
  /\ UNCHANGED <<tree, pins, sess, agenda, history, edits, kills>>

Session(s) ==
  \/ Start(s) \/ Inspect(s) \/ ReadTree(s) \/ Measure(s)
  \/ AdoptUnasked(s) \/ SaysAdopt(s) \/ SaysRevert(s) \/ SaysShare(s) \/ Leaves(s)
  \/ Check(s) \/ Publish(s) \/ Mark(s) \/ Prune(s) \/ Delete(s) \/ Adopted(s)
  \/ Restore(s) \/ Forget(s) \/ Razed(s) \/ CheckOut(s) \/ Killed(s)

Tick == (\E c \in Checkouts : TickBegins(c)) \/ TickOpens \/ TickReads \/ TickReports \/ TickEnds

Next ==
  \/ \E c \in Checkouts, f \in Files : BoxWrites(c, f)
  \/ \E s \in Sessions : Session(s)
  \/ Tick

Spec == Init /\ [][Next]_vars

-----------------------------------------------------------------------------
GenSet == [files : FileSet, left : SUBSET Files, mtime : Nat, named : BOOLEAN,
           shown : FileSet, unasked : BOOLEAN]
Sess == [pc : Steps, kind : Kinds, at : Checkouts,
         pinned : FileSet \cup {Nothing}, tree : FileSet, todo : Seq(Files),
         shown : FileSet \cup {Nothing}, base : FileSet \cup {Nothing}, gen : Nat, doomed : SUBSET Nat]

(* Every variable has its type, generations are numbered up to the last    *)
(* one made, and whoever has files left to read or to put back is doing so. *)
TypeOK ==
  /\ tree \in [Checkouts -> FileSet]
  /\ marker \in [Checkouts -> Nat]
  /\ DOMAIN gens = Checkouts
  /\ \A c \in Checkouts : DOMAIN gens[c] \subseteq 1..minted
       /\ \A g \in DOMAIN gens[c] : gens[c][g] \in GenSet
  /\ minted \in Nat
  /\ sess \in [Sessions -> Sess]
  /\ \A s \in Sessions : sess[s].pc \in {"read", "reread", "restore"} => sess[s].todo # <<>>
  /\ \A s \in Sessions : sess[s].pc = "restore" => sess[s].pinned # Nothing
  /\ tick \in [pc : {"idle", "dir", "files", "report", "runs"}, at : Checkouts, gen : Nat,
               todo : Seq(Files), cfg : FileSet, moves : 0..2,
               misled : BOOLEAN]
  /\ tick.pc = "files" => tick.todo # <<>>
  /\ agenda \in Seq(Task)
  /\ adopted \in [Checkouts -> SUBSET FileSet]
  /\ crossed \subseteq Checkouts
  /\ edits \in 0..MaxEdits /\ kills \in 0..MaxKills

(* adopt(): what a pin holds is byte for byte what was put to an operator, *)
(* or asked for, or compared with main's; no edit that lands between the   *)
(* review and the answer, or after it, gets in.                            *)
PinIsWhatWasShown ==
  \A c \in Checkouts : Selected(c) => gens[c][marker[c]].files = gens[c][marker[c]].shown

(* GENERATIONS: short of adoptions that cross, and whoever is killed, what *)
(* the host runs for a checkout is switched whole, in one step, by an      *)
(* adoption, and dropped only by forgetting it; no deletion of older       *)
(* generations, and no session cut short, shows through.                   *)
Promise == INSTANCE AdoptedConfig
  WITH runs <- [c \in Checkouts |-> IF c \in crossed THEN Nothing ELSE PinOf(c)],
       was <- [c \in Checkouts |-> IF c \in crossed THEN {} ELSE adopted[c]], lost <- crossed

PinSwitchesWhole == Promise!Spec

(* _prune_generations(): a turn of the supervisor runs a file set that was *)
(* adopted, whole, or an empty config, as long as the pin moved at most    *)
(* once under it, no adoptions crossed there, and the adoption that moved  *)
(* it did not keep the remains of a deletion in place of what it replaced. *)
TicksRunWhole ==
  tick.pc = "runs" /\ tick.moves < 2 /\ ~tick.misled /\ tick.at \notin crossed =>
    tick.cfg \in adopted[tick.at] \cup {NoFiles}

(* A turn of the supervisor runs one set of files, whole, and that set was *)
(* shown to the operator (configpin.py's adopt and _prune_generations).    *)
RunsWhatWasShown == PinIsWhatWasShown /\ TicksRunWhole

(* inspect(): so does every turn, whatever happens under it.               *)
EveryTickRunsWhole == tick.pc = "runs" => tick.cfg \in adopted[tick.at] \cup {NoFiles}
=============================================================================
