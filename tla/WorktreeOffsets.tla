--------------------------- MODULE WorktreeOffsets --------------------------
(***************************************************************************)
(* The host's registry of worktrees and the port offset recorded for each: *)
(* two files, any number of `fy' runs.  The registry is read and replaced  *)
(* without a lock, through one temporary file all runs share.  The record  *)
(* of offsets is read without its lock, and read again and rewritten in    *)
(* place under it -- with the names as they were before the lock.          *)
(***************************************************************************)
EXTENDS Allocation

CONSTANTS
  Runs,       \* the `fy' runs
  Registrars, \* those that may add or remove a worktree
  Pinnings,   \* the tables of pins the adopted config may hold
  Hash,       \* the slot each name hashes to
  Torn,       \* a file that is empty, or not JSON
  NoFile,     \* there is no such file
  MaxChanges, \* bound: registrations and removals
  MaxAsks,    \* bound: requests for the offsets
  MaxRepins,  \* bound: changes of the pins
  MaxKills    \* bound: runs killed

VARIABLES
  registry,   \* the registry: the registered names
  tmp,        \* its temporary file
  offsets,    \* the recorded offsets
  pins,       \* the pins
  run,        \* the run's place and what it has read
  locked,     \* the run that holds the lock on the offsets, or None
  told,       \* name -> the offset last given for it (history)
  raced,      \* two runs have overlapped, or one was killed (history)
  changes, asks, repins, kills

registryFiles == <<registry, tmp>>
bounds == <<changes, asks, repins, kills>>
vars == <<registryFiles, offsets, pins, run, locked, told, raced, bounds>>

AtRest == [pc |-> "idle", name |-> None, names |-> {}, pinned |-> NoOffsets, on |-> "tmp",
           next |-> NoOffsets]

Busy(r) == run[r].pc # "idle"
Goto(r, from, to) == run[r].pc = from /\ run' = [run EXCEPT ![r].pc = to]
Enter(r, started) ==
  /\ ~Busy(r)
  /\ run' = [run EXCEPT ![r] = started]
  /\ raced' = (raced \/ \E q \in Runs : Busy(q))

(* _load and _read_offsets: a damaged file reads as nothing.               *)
Load == IF registry \in {Torn, NoFile} THEN {} ELSE registry
ReadOffsets == IF offsets = Torn THEN NoOffsets ELSE offsets

Init ==
  /\ registry = NoFile /\ tmp = NoFile
  /\ offsets = NoOffsets
  /\ pins \in Pinnings
  /\ run = [r \in Runs |-> AtRest]
  /\ locked = None
  /\ told = NoOffsets
  /\ raced = FALSE
  /\ changes = 0 /\ asks = 0 /\ repins = 0 /\ kills = 0

-----------------------------------------------------------------------------
(* register and unregister, behind `fy worktree add' and `remove'.         *)
Change(r, n, names) ==
  /\ r \in Registrars
  /\ changes < MaxChanges
  /\ changes' = changes + 1
  /\ names # Load
  /\ Enter(r, [AtRest EXCEPT !.pc = "open", !.name = n, !.names = names])
  /\ UNCHANGED <<registryFiles, offsets, pins, locked, told, asks, repins, kills>>

Register(r, n) == Change(r, n, Load \cup {n})

Unregister(r, n) == Change(r, n, Load \ {n})

(* _save: open the temporary file, which truncates it, ...                 *)
Open(r) ==
  /\ Goto(r, "open", "fill")
  /\ tmp' = Torn
  /\ UNCHANGED <<registry, offsets, pins, locked, told, raced, bounds>>

(* ... write to whatever file that has become by now, ...                  *)
Fill(r) ==
  /\ Goto(r, "fill", "replace")
  /\ \E content \in {run[r].names, Torn} :
       LET file == IF run[r].on = "tmp" THEN tmp ELSE registry IN
       /\ content = Torn => file # Torn
       /\ IF run[r].on = "tmp" THEN tmp' = content /\ UNCHANGED registry
          ELSE registry' = content /\ UNCHANGED tmp
  /\ UNCHANGED <<offsets, pins, locked, told, raced, bounds>>

(* ... and move it over the registry, together with whoever has it open.   *)
(* If another run has moved it, this one fails.                            *)
Replace(r) ==
  /\ run[r].pc = "replace"
  /\ IF tmp = NoFile THEN UNCHANGED registryFiles ELSE registry' = tmp /\ tmp' = NoFile
  /\ run' = [q \in Runs |->
               IF q = r THEN AtRest
               ELSE IF tmp # NoFile /\ run[q].pc = "fill" THEN [run[q] EXCEPT !.on = "store"]
               ELSE run[q]]
  /\ told' = [n \in Names |-> IF registry' \in {Torn, NoFile} \/ n \in registry'
                              THEN told[n] ELSE None]
  /\ UNCHANGED <<offsets, pins, locked, raced, bounds>>

-----------------------------------------------------------------------------
(* offsets(), behind every verb that needs a port.                         *)

(* Mutant: a worktree is told the hash of its name.                        *)
Offset_Hash(n, pinned, got) == IF pinned[n] # None THEN pinned[n] ELSE Hash[n]

(* stack._offset: the pin, else the offset, else the hash.                 *)
Offset(n, pinned, got) ==
  IF pinned[n] # None THEN pinned[n] ELSE IF got[n] # None THEN got[n] ELSE Hash[n]

(* A run for worktree n reads the pins and the names, ...                  *)
Ask(r, n) ==
  /\ asks < MaxAsks
  /\ asks' = asks + 1
  /\ n \in Load
  /\ Enter(r, [AtRest EXCEPT !.pc = "look", !.name = n, !.names = Load, !.pinned = pins])
  /\ UNCHANGED <<registryFiles, offsets, pins, locked, told, changes, repins, kills>>

Allocated(r) == Allocate(run[r].names, ReadOffsets, run[r].pinned, Hash)

Return(r, got) ==
  /\ told' = [told EXCEPT ![run[r].name] = Offset(run[r].name, run[r].pinned, got)]
  /\ run' = [run EXCEPT ![r] = AtRest]

(* ... then the record, without the lock: nearly always there is nothing   *)
(* to write.                                                               *)
Look(r) ==
  /\ run[r].pc = "look"
  /\ IF Allocated(r) = ReadOffsets THEN Return(r, ReadOffsets)
     ELSE Goto(r, "look", "lock") /\ UNCHANGED told
  /\ UNCHANGED <<registryFiles, offsets, pins, locked, raced, bounds>>

(* Under the lock it is read and allocated again.  If another run has      *)
(* written the same, there is nothing left to write; else it is truncated  *)
(* first.                                                                  *)
Lock(r) ==
  /\ run[r].pc = "lock"
  /\ locked = None
  /\ IF Allocated(r) = ReadOffsets
     THEN Return(r, ReadOffsets) /\ UNCHANGED <<offsets, locked>>
     ELSE /\ locked' = r
          /\ offsets' = Torn
          /\ run' = [run EXCEPT ![r].pc = "dump", ![r].next = Allocated(r)]
          /\ UNCHANGED told
  /\ UNCHANGED <<registryFiles, pins, raced, bounds>>

Dump(r) ==
  /\ run[r].pc = "dump"
  /\ offsets' = run[r].next
  /\ locked' = None
  /\ Return(r, run[r].next)
  /\ UNCHANGED <<registryFiles, pins, raced, bounds>>

-----------------------------------------------------------------------------
(* The operator adopts other pins: ports move, on purpose.                 *)
Repin ==
  /\ repins < MaxRepins
  /\ repins' = repins + 1
  /\ \A r \in Runs : ~Busy(r)
  /\ pins' \in Pinnings \ {pins}
  /\ told' = NoOffsets
  /\ UNCHANGED <<registryFiles, offsets, run, locked, raced, changes, asks, kills>>

(* A run dies; its lock goes with it.                                      *)
Kill(r) ==
  /\ kills < MaxKills
  /\ kills' = kills + 1
  /\ Busy(r)
  /\ run' = [run EXCEPT ![r] = AtRest]
  /\ locked' = IF locked = r THEN None ELSE locked
  /\ raced' = TRUE
  /\ UNCHANGED <<registryFiles, offsets, pins, told, changes, asks, repins>>

Start(r) == \E n \in Names : Ask(r, n) \/ Register(r, n) \/ Unregister(r, n)
GoOn(r) == Open(r) \/ Fill(r) \/ Replace(r) \/ Look(r) \/ Lock(r) \/ Dump(r)

Next ==
  \/ \E r \in Runs : Start(r) \/ GoOn(r) \/ Kill(r)
  \/ Repin

Spec == Init /\ [][Next]_vars /\ \A r \in Runs : WF_vars(GoOn(r))

-----------------------------------------------------------------------------
RunStates == [pc : {"idle", "open", "fill", "replace", "look", "lock", "dump"},
              name : Names \cup {None}, names : SUBSET Names, pinned : Pinnings \cup {NoOffsets},
              on : {"tmp", "store"}, next : Offsets]

(* Every part of the state has its type.                                   *)
TypeOK ==
  /\ registry \in {Torn, NoFile} \/ registry \in SUBSET Names
  /\ tmp \in {Torn, NoFile} \/ tmp \in SUBSET Names
  /\ offsets = Torn \/ offsets \in Offsets
  /\ pins \in Pinnings
  /\ run \in [Runs -> RunStates]
  /\ locked \in Runs \cup {None}
  /\ told \in Offsets
  /\ raced \in BOOLEAN
  /\ changes \in 0..MaxChanges /\ asks \in 0..MaxAsks
  /\ repins \in 0..MaxRepins /\ kills \in 0..MaxKills

(* Whatever runs overlap or die, the record never gives one slot to two    *)
(* names.                                                                  *)
RecordDistinct ==
  \A m, n \in Names :
    m # n /\ ReadOffsets[m] # None => ReadOffsets[m] # ReadOffsets[n]

SharedBy(m, n) == m # n /\ told[m] # None /\ told[m] = told[n]

(* offsets: "so two `fy` runs can't hand one slot to two worktrees": the   *)
(* ports runs were given for two registered worktrees are not the same.    *)
NoPortTwice == \A m, n \in Load : ~SharedBy(m, n)

(* The same while runs do not overlap and none dies.                       *)
UnracedNoPortTwice == ~raced => NoPortTwice

(* worktree_registry.py:10 "Only `fy worktree add` (host-only) writes it;  *)
(* `fy worktree remove` drops the entry": nothing else does.               *)
OnlyRemoveDrops ==
  [][\A n \in Load \ Load' :
       \E r \in Runs : run[r].pc \in {"fill", "replace"} /\ run[r].name = n
                       /\ n \notin run[r].names]_vars
=============================================================================
