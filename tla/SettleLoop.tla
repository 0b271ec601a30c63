----------------------------- MODULE SettleLoop -----------------------------
(***************************************************************************)
(* devmode.settle_incoherent, one pass of its while loop per step, for     *)
(* every starting mode and every set of requirement rows in RowSets.       *)
(* `flips' is all the caller gets: it applies those switches' defaults on  *)
(* top of the mode it passed in (Result).                                  *)
(***************************************************************************)
EXTENDS Switches

CONSTANT RowSets   \* the sets of requirement rows to settle under

ASSUME RowSetsAssumption ==
  \A rows \in RowSets : IsFiniteSet(rows) /\ \A r \in rows : r.owner \in Axes

VARIABLES
  rows,      \* the requirement rows in force
  start,     \* the mode handed in
  current,   \* the mode the loop has reached
  flips,     \* the switches lowered so far
  done       \* the loop has ended

vars == <<rows, start, current, flips, done>>

Init ==
  /\ rows \in RowSets
  /\ start \in Modes
  /\ current = start
  /\ flips = {}
  /\ done = FALSE

(* The `for' found a switch whose lowering reduces the errors.             *)
LowerFirst ==
  /\ ~done
  /\ ~Works(rows, current)
  /\ Helpful(rows, current) # {}
  /\ current' = Lower(current, FirstHelpful(rows, current))
  /\ flips' = flips \cup {FirstHelpful(rows, current)}
  /\ UNCHANGED <<rows, start, done>>

(* Mutant: give up without the all-defaults fallback.                      *)
RestAll_GivesUp ==
  /\ ~done
  /\ ~Works(rows, current)
  /\ Helpful(rows, current) = {}
  /\ done' = TRUE
  /\ UNCHANGED <<rows, start, current, flips>>

(* The `for' fell through to its else: rest everything if that works.      *)
RestAll ==
  /\ ~done
  /\ ~Works(rows, current)
  /\ Helpful(rows, current) = {}
  /\ flips' = IF Works(rows, Default)
              THEN flips \cup {a \in Axes : current[a] # Default[a]}
              ELSE flips
  /\ done' = TRUE
  /\ UNCHANGED <<rows, start, current>>

(* The `while' condition failed: no errors left.                           *)
Return ==
  /\ ~done
  /\ Works(rows, current)
  /\ done' = TRUE
  /\ UNCHANGED <<rows, start, current, flips>>

Next == LowerFirst \/ RestAll \/ Return

Spec == Init /\ [][Next]_vars

Result == [a \in Axes |-> IF a \in flips THEN Default[a] ELSE start[a]]

-----------------------------------------------------------------------------
(* Every part of the state has its type.                                   *)
TypeOK ==
  /\ rows \in RowSets
  /\ start \in Modes /\ current \in Modes
  /\ flips \subseteq Axes
  /\ done \in BOOLEAN

(* What comes out works, unless not even the all-defaults mode does: the   *)
(* docstring's "an emergency lapse always lands on a posture that WORKS    *)
(* offline" (devmode.py:402), for the cascade alone.                       *)
SettlesToWorking == done => Works(rows, Result) \/ ~Works(rows, Default)

(* Switches no requirement row names are never lowered while single steps  *)
(* suffice: an expiry leaves unrelated switches where the operator put     *)
(* them.                                                                   *)
LeavesUnrelatedAlone ==
  done /\ Works(rows, current)
    => \A a \in flips : \E r \in rows : a = r.owner \/ a = r.needs

=============================================================================
