----------------------------- MODULE Allocation -----------------------------
(***************************************************************************)
(* Which port offset each worktree holds: worktree_registry.allocate, as a *)
(* function of its arguments.  Names are numbered as they sort; a value of *)
(* None says that a name has no record, no pin, or gets no offset.         *)
(***************************************************************************)
EXTENDS Integers, FiniteSets

CONSTANTS
  NumNames,  \* how many names there are
  MaxSlot,   \* the last slot (89)
  None       \* no record, no pin, no offset

ASSUME SizesAssumption == NumNames \in Nat /\ MaxSlot \in Nat \ {0}
ASSUME NoSlotAssumption == None \notin Int

Names == 1..NumNames
Slots == 1..MaxSlot

Offsets == [Names -> Slots \cup {None}]
NoOffsets == [n \in Names |-> None]

(* The values a table hands out.                                           *)
Held(table) == {table[n] : n \in {m \in Names : table[m] # None}}

(* The first slot that is free, going around from `start'.                 *)
FirstFree(start, held) ==
  CHOOSE s \in Slots \ held : \A t \in Slots \ held :
    (s - start) % MaxSlot <= (t - start) % MaxSlot

(* The names that keep their record: it is a slot, no pin has it, and no   *)
(* earlier name is recorded there.                                         *)
Keepers(unpinned, recorded, pinned) ==
  {n \in unpinned : /\ recorded[n] \in Slots \ Held(pinned)
                    /\ \A m \in unpinned : m < n => recorded[m] # recorded[n]}

(* Of the others, those that get the slot their name hashes to.            *)
Claimers(fresh, held, hash) ==
  {n \in fresh : hash[n] \notin held /\ \A m \in fresh : m < n => hash[m] # hash[n]}

(* The rest, in order, get the first free slot from their own.             *)
MoveOne(n, table, movers, pinned, hash) ==
  LET held == Held(pinned) \cup Held(table)
  IN  IF n \in movers /\ Slots \ held # {}
      THEN [table EXCEPT ![n] = FirstFree(hash[n], held)]
      ELSE table

Moved(table, movers, pinned, hash) ==
  LET upTo[n \in 0..NumNames] ==
        IF n = 0 THEN table ELSE MoveOne(n, upTo[n - 1], movers, pinned, hash)
  IN  upTo

(* allocate.                                                               *)
Allocate(names, recorded, pinned, hash) ==
  LET unpinned == {n \in names : pinned[n] = None}
      keepers  == Keepers(unpinned, recorded, pinned)
      kept     == [n \in Names |-> IF n \in keepers THEN recorded[n] ELSE None]
      claimers == Claimers(unpinned \ keepers, Held(pinned) \cup Held(kept), hash)
      claimed  == [n \in Names |-> IF n \in claimers THEN hash[n] ELSE kept[n]]
      movers   == unpinned \ (keepers \cup claimers)
  IN  Moved(claimed, movers, pinned, hash)[NumNames]
=============================================================================
