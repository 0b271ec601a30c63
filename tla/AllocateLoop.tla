---------------------------- MODULE AllocateLoop ----------------------------
(***************************************************************************)
(* worktree_registry.allocate as it runs: three passes over the names in   *)
(* their order, one name a step, for every registry, record, set of pins   *)
(* and hash the constants allow.                                           *)
(***************************************************************************)
EXTENDS Allocation

CONSTANTS
  Recordings,   \* the values a record may hold, a damaged one's too
  Pinnings,     \* the tables of pins
  Hashes        \* the hashes of the names

ASSUME InputsAssumption ==
  Pinnings \subseteq Offsets /\ Hashes \subseteq [Names -> Slots] /\ None \notin Recordings

VARIABLES
  names, recorded, pinned, hash,   \* the arguments
  pass,    \* "keep", "claim", "move" or "done"
  todo,    \* the names this pass has yet to visit
  got,     \* the offsets handed out
  held     \* the slots that are taken

inputs == <<names, recorded, pinned, hash>>
allocVars == <<inputs, pass, todo, got, held>>

Unpinned == {n \in names : pinned[n] = None}

AllocInit ==
  /\ names \in SUBSET Names
  /\ recorded \in [Names -> Recordings \cup {None}]
  /\ pinned \in Pinnings
  /\ hash \in Hashes
  /\ pass = "keep"
  /\ todo = Unpinned
  /\ got = NoOffsets
  /\ held = Held(pinned)

Turn(n) == n \in todo /\ \A m \in todo : n <= m

Take(n, slot) ==
  /\ got' = [got EXCEPT ![n] = slot]
  /\ held' = held \cup {slot}

Keep(n) ==
  /\ pass = "keep" /\ Turn(n)
  /\ todo' = todo \ {n}
  /\ IF recorded[n] \in Slots \ held THEN Take(n, recorded[n]) ELSE UNCHANGED <<got, held>>
  /\ UNCHANGED <<inputs, pass>>

Claim(n) ==
  /\ pass = "claim" /\ Turn(n)
  /\ todo' = todo \ {n}
  /\ IF hash[n] \notin held THEN Take(n, hash[n]) ELSE UNCHANGED <<got, held>>
  /\ UNCHANGED <<inputs, pass>>

(* With no slot free the loop is left.                                     *)
Move(n) ==
  /\ pass = "move" /\ Turn(n)
  /\ IF Slots \ held = {} THEN todo' = {} /\ UNCHANGED <<got, held>>
     ELSE todo' = todo \ {n} /\ Take(n, FirstFree(hash[n], held))
  /\ UNCHANGED <<inputs, pass>>

NextPass ==
  /\ todo = {} /\ pass # "done"
  /\ pass' = CASE pass = "keep" -> "claim" [] pass = "claim" -> "move" [] OTHER -> "done"
  /\ todo' = {n \in Unpinned : pass # "move" /\ got[n] = None}
  /\ UNCHANGED <<inputs, got, held>>

Visit(n) == Keep(n) \/ Claim(n) \/ Move(n)

AllocNext == (\E n \in Names : Visit(n)) \/ NextPass

AllocSpec == AllocInit /\ [][AllocNext]_allocVars

-----------------------------------------------------------------------------
(* Every part of the state has its type.                                   *)
AllocTypeOK ==
  /\ names \subseteq Names /\ pinned \in Pinnings /\ hash \in Hashes
  /\ recorded \in [Names -> Recordings \cup {None}]
  /\ pass \in {"keep", "claim", "move", "done"}
  /\ todo \subseteq Unpinned
  /\ got \in Offsets
  /\ held \subseteq Slots

(* No two names ever get one offset, and none gets a pinned one, whatever  *)
(* the record says (allocate: "Pinned values are never handed out").       *)
NoneShared ==
  \A n \in Names : got[n] # None =>
    got[n] \notin Held(pinned) /\ \A m \in Names \ {n} : got[m] # got[n]

=============================================================================
