---------------------------- MODULE Attribution ----------------------------
(***************************************************************************)
(* Who a proxy row came from.  The stamp on it is an address, and          *)
(* addresses are reused; the supervisor takes snapshots of which container *)
(* holds which, and a reader resolves a row between the snapshot before it *)
(* and the one after.                                                      *)
(*                                                                         *)
(* One address, and one row that was logged while its sender held it.      *)
(* Time is the number of polls begun: what happens between two polls has   *)
(* an order but no clock.                                                  *)
(***************************************************************************)
EXTENDS Integers, Sequences

CONSTANTS
  Containers,    \* ids
  Every,         \* SNAPSHOT_EVERY, in polls
  FileMax,       \* MAX_BYTES, in snapshots
  MaxEvents, MaxPolls, MaxFaults      \* bounds

VARIABLES
  holder,        \* who holds the address: [ctr, hold], each holding with a number of its own
  running, known,\* the containers that run, and those the engine has
  holds, events, \* how many holdings and changes there have been
  polls,         \* how many polls were begun
  poll,          \* the poll in progress
  memory,        \* what the Snapshotter remembers
  rotated, snapshots,      \* origin-snapshots.1.jsonl and origin-snapshots.jsonl
  row,
  faults

engine == <<holder, running, known, holds, events>>
snapper == <<polls, poll, memory, rotated, snapshots>>
vars == <<engine, snapper, row, faults>>

Nobody == [ctr |-> "", hold |-> 0]
NoPoll == [pc |-> "idle", ids |-> {}, snap |-> [at |-> 0, ids |-> {}, ctr |-> "", hold |-> 0]]
NoMemory == [ids |-> {""}, described |-> 0, last |-> {}, written |-> 0]
NoRow == [at |-> 0, ctr |-> "", hold |-> 0, blurred |-> FALSE]

Fault == faults < MaxFaults /\ faults' = faults + 1
Fine == faults' = faults

Init ==
  /\ holder = Nobody /\ running = {} /\ known = {} /\ holds = 0 /\ events = 0
  /\ polls = 0 /\ poll = NoPoll /\ memory = NoMemory
  /\ rotated = <<>> /\ snapshots = <<>>
  /\ row = NoRow /\ faults = 0

-----------------------------------------------------------------------------
(* Containers come and go, with the address if it is free.                 *)

Event == events < MaxEvents /\ events' = events + 1 /\ UNCHANGED <<snapper, row, faults>>

Starts(c) ==
  /\ c \notin running /\ Event
  /\ running' = running \cup {c} /\ known' = known \cup {c}
  /\ \/ UNCHANGED <<holder, holds>>
     \/ holder = Nobody /\ holder' = [ctr |-> c, hold |-> holds + 1] /\ holds' = holds + 1

Stops(c) ==
  /\ c \in running /\ Event
  /\ running' = running \ {c}
  /\ known' \in {known, known \ {c}}
  /\ holder' = IF holder.ctr = c THEN Nobody ELSE holder
  /\ holds' = holds

(* A row of the address, logged by the proxy; `blurred' is history: a      *)
(* snapshot is being made, and its time is already past.                   *)
Logged ==
  /\ row = NoRow /\ holder # Nobody
  /\ row' = [at |-> polls, ctr |-> holder.ctr, hold |-> holder.hold,
             blurred |-> poll.pc \notin {"idle", "append"}]
  /\ UNCHANGED <<engine, snapper, faults>>

-----------------------------------------------------------------------------
(* A poll.                                                                 *)

Ends == poll' = NoPoll /\ UNCHANGED <<memory, rotated, snapshots>>
Goes(p) == poll' = p /\ UNCHANGED <<memory, rotated, snapshots>>

Begin ==
  /\ poll.pc = "idle" /\ polls < MaxPolls
  /\ polls' = polls + 1 /\ Goes([NoPoll EXCEPT !.pc = "ps"])
  /\ UNCHANGED <<engine, row, faults>>

(* The engine is not asked further while the same containers run and the   *)
(* last answer is recent.                                                  *)
Ps ==
  /\ poll.pc = "ps"
  /\ \/ /\ Fine
        /\ IF running = memory.ids /\ polls - memory.described < Every THEN Ends
           ELSE Goes([poll EXCEPT !.pc = "inspect", !.ids = running])
     \/ Fault /\ Ends
  /\ UNCHANGED <<engine, polls, row>>

(* Of the containers that ran: the networks' interfaces, then each one's   *)
(* address now.  What was described counts as done before it is written.   *)
Snap(ids) ==
  [at |-> polls, ids |-> ids, ctr |-> IF holder.ctr \in ids THEN holder.ctr ELSE "",
   hold |-> IF holder.ctr \in ids THEN holder.hold ELSE 0]
Content(snap) == {[ids |-> snap.ids, ctr |-> snap.ctr]}
Unchanged(snap) == Content(snap) = memory.last /\ polls - memory.written < Every

Inspect ==
  /\ poll.pc = "inspect"
  /\ \/ /\ poll.ids \subseteq known /\ Fine
        /\ memory' = [memory EXCEPT !.ids = poll.ids, !.described = polls]
        /\ poll' = IF Unchanged(Snap(poll.ids)) THEN NoPoll
                   ELSE [poll EXCEPT !.pc = "append", !.snap = Snap(poll.ids)]
        /\ UNCHANGED <<rotated, snapshots>>
     \/ ~(poll.ids \subseteq known) /\ Goes([poll EXCEPT !.pc = "again"]) /\ Fine
     \/ Fault /\ Ends
  /\ UNCHANGED <<engine, polls, row>>

(* One has gone since, or the engine failed: either way the poll is over.  *)
Again == poll.pc = "again" /\ Ends /\ UNCHANGED <<engine, polls, row, faults>>

Write ==
  /\ poll.pc = "append" /\ poll' = NoPoll
  /\ \/ /\ Fine
        /\ rotated' = IF Len(snapshots) >= FileMax THEN snapshots ELSE rotated
        /\ snapshots' = (IF Len(snapshots) >= FileMax THEN <<>> ELSE snapshots) \o <<poll.snap>>
        /\ memory' = [memory EXCEPT !.last = Content(poll.snap), !.written = polls]
     \/ Fault /\ UNCHANGED <<memory, rotated, snapshots>>
  /\ UNCHANGED <<engine, polls, row>>

(* The supervisor is restarted: what it remembers is gone.                 *)
Restart ==
  /\ memory # NoMemory /\ Fault /\ poll' = NoPoll /\ memory' = NoMemory
  /\ UNCHANGED <<engine, polls, rotated, snapshots, row>>

Next ==
  \/ \E c \in Containers : Starts(c) \/ Stops(c)
  \/ Logged \/ Begin \/ Ps \/ Inspect \/ Again \/ Write \/ Restart

Spec == Init /\ [][Next]_vars

-----------------------------------------------------------------------------
(* The resolver, over the two files that are left.                         *)

Kept == rotated \o snapshots
Before(at) ==
  CHOOSE i \in 0..Len(Kept) : \A j \in 1..Len(Kept) : Kept[j].at <= at <=> j <= i

(* Mutant: the snapshot before a row settles it.                           *)
Address_Before(at) ==
  LET i == Before(at)
      before == IF i > 0 THEN Kept[i].ctr ELSE ""
  IN  IF before # "" \/ i = Len(Kept) THEN before ELSE Kept[i + 1].ctr

(* The snapshot before, else the one after; two that differ are ambiguous. *)
Address(at) ==
  LET i == Before(at)
      before == IF i > 0 THEN Kept[i].ctr ELSE ""
      after == IF i < Len(Kept) THEN Kept[i + 1].ctr ELSE ""
  IN  IF before # "" /\ after # "" /\ before # after THEN "ambiguous"
      ELSE IF before # "" THEN before ELSE after

(* A row is not put down to a container that did not send it, if a kept    *)
(* snapshot saw its sender while it held the address then: unless it was   *)
(* logged between a snapshot's time and its making (attribution.py         *)
(* _address, poll).                                                        *)
NotAnothers ==
  row # NoRow /\ ~row.blurred /\ (\E i \in 1..Len(Kept) : Kept[i].hold = row.hold) =>
    Address(row.at) \in {row.ctr, "ambiguous"}
=============================================================================
