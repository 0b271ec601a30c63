------------------------------ MODULE Switches ------------------------------
(***************************************************************************)
(* The switches a project's plugins declare, and the rules that decide     *)
(* whether a full mode can work.  The host keeps one mode per checkout: a  *)
(* level for every switch.  (In the code a switch is also an "axis" and a  *)
(* level a "rung".)                                                        *)
(*                                                                         *)
(* Data only: no state.  Every module that reads or writes a mode uses it. *)
(***************************************************************************)
EXTENDS Integers, FiniteSets

CONSTANTS
  Axes,        \* the switches of the active registry
  Rungs,       \* every level name
  Levels,      \* switch -> the levels it declares
  Default,     \* switch -> its zero-secret resting level
  Emergency,   \* switch -> the levels that carry a TTL
  Rank,        \* switch -> its place in declaration order
  Requires,    \* the requirement rows, of every switch
  Overlaps     \* sets of <<switch, level>> whose injection rules overlap

(* Switch.__post_init__ refuses a switch whose default is an emergency     *)
(* level or whose emergency levels it does not declare.                    *)
ASSUME AxesAssumption == IsFiniteSet(Axes)
ASSUME LevelsAssumption == Levels \in [Axes -> SUBSET Rungs]
ASSUME DefaultAssumption ==
  /\ Default \in [Axes -> Rungs]
  /\ \A a \in Axes : Default[a] \in Levels[a]
ASSUME EmergencyAssumption ==
  /\ Emergency \in [Axes -> SUBSET Rungs]
  /\ \A a \in Axes : Emergency[a] \subseteq Levels[a] \ {Default[a]}
ASSUME RankAssumption ==
  /\ Rank \in [Axes -> Nat]
  /\ \A a, b \in Axes : Rank[a] = Rank[b] => a = b
ASSUME RequiresAssumption ==
  IsFiniteSet(Requires) /\ \A r \in Requires : r.owner \in Axes

Modes == {m \in [Axes -> Rungs] : \A a \in Axes : m[a] \in Levels[a]}

(***************************************************************************)
(* Registry.mode_issues.  One requirement row: while `owner' is at a level *)
(* in `when', `needs' must be at a level in `accepts'; `needs' may name a  *)
(* switch that is not loaded, and the row is then unmet.  Rows of severity *)
(* "warn" never refuse and are left out.  RequireErrors is the form the    *)
(* expiry cascade asks for (overlaps=False), ModeErrors the one set_mode   *)
(* refuses on.                                                             *)
(***************************************************************************)
Unmet(r, mode) ==
  /\ mode[r.owner] \in r.when
  /\ ~(r.needs \in Axes /\ mode[r.needs] \in r.accepts)

RequireErrors(rows, mode) == {r \in rows : Unmet(r, mode)}

OverlapErrors(mode) ==
  {o \in Overlaps : \A p \in o : mode[p[1]] = p[2]}

ModeErrors(mode) == RequireErrors(Requires, mode) \cup OverlapErrors(mode)

Works(rows, mode) == RequireErrors(rows, mode) = {}

Lower(mode, a) == [mode EXCEPT ![a] = Default[a]]

Helpful(rows, mode) ==
  {a \in Axes :
     /\ mode[a] # Default[a]
     /\ Cardinality(RequireErrors(rows, Lower(mode, a)))
          < Cardinality(RequireErrors(rows, mode))}

FirstHelpful(rows, mode) ==
  CHOOSE a \in Helpful(rows, mode) :
    \A b \in Helpful(rows, mode) : Rank[a] <= Rank[b]

LowerOne(rows, mode) ==
  IF Helpful(rows, mode) = {} THEN mode ELSE Lower(mode, FirstHelpful(rows, mode))

Greedy(rows, mode) ==
  LET after[n \in 0..Cardinality(Axes)] ==
        IF n = 0 THEN mode ELSE LowerOne(rows, after[n - 1])
  IN after[Cardinality(Axes)]

(* When no single lowering helps, everything goes to rest if that works.   *)
Settled(rows, mode) ==
  IF ~Works(rows, Greedy(rows, mode)) /\ Works(rows, Default)
  THEN Default
  ELSE Greedy(rows, mode)

(* What settle_incoherent returns: the switches it moves.                  *)
SettleFlips(rows, mode) == {a \in Axes : Settled(rows, mode)[a] # mode[a]}
=============================================================================
