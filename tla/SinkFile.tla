------------------------------ MODULE SinkFile ------------------------------
(***************************************************************************)
(* The file sink of a monitor hook: each batch a signed line that names    *)
(* the line before it, how far the chain has come in the hook's state,     *)
(* which is saved at the end of a round, and `fy monitor check'.           *)
(***************************************************************************)
EXTENDS Integers, SequencesExt

CONSTANTS
  Paths,               \* files a hook can be pointed at
  BATCH_MAX, ROUND_BATCHES,
  MaxEvents, MaxCommands, MaxFaults   \* bounds

VARIABLES
  hook,      \* where the hooks file points the hook
  file,      \* path -> its lines
  saved,     \* the hook's state on disk
  round,     \* the supervisor's round
  events,    \* settled events so far
  check,     \* an operator's check
  damaged,   \* paths that somebody else cut or tore
  broken,    \* paths whose chain the sink itself began again
  commands, faults

vars == <<hook, file, saved, round, events, check, damaged, broken, commands, faults>>

(* A line is the chain up to it: its mac covers its batch and the mac of   *)
(* the line before, and its seq is the chain's length.                     *)
NoPath == ""
Torn == <<>>
HookState == [last |-> 0, file |-> NoPath, mac |-> <<>>]
NoRound == [pc |-> "idle", st |-> HookState, file |-> NoPath, sent |-> 0]
NoCheck == [pc |-> "idle", path |-> NoPath, data |-> <<>>, then |-> HookState, st |-> HookState, ok |-> TRUE]

Init ==
  /\ hook \in Paths /\ file = [p \in Paths |-> <<>>]
  /\ saved = HookState /\ round = NoRound /\ check = NoCheck
  /\ damaged = {} /\ broken = {}
  /\ events = 0 /\ commands = 0 /\ faults = 0

Fault == faults < MaxFaults /\ faults' = faults + 1
Command == commands < MaxCommands /\ commands' = commands + 1

-----------------------------------------------------------------------------
(* verify(): each line continues the chain, or is the line before it       *)
(* re-sent: the same seq, from the same `prev'.                            *)
Before(lines, i) == IF i = 1 THEN <<>> ELSE lines[i - 1]
Follows(line, mac) ==
  /\ line # Torn
  /\ \/ Front(line) = mac
     \/ mac # <<>> /\ Front(line) = Front(mac)
Chain(lines) == \A i \in DOMAIN lines : Follows(lines[i], Before(lines, i))

(* Mutant: the end is not held against the hook's state.                   *)
Ends_Anywhere(mac, want) == TRUE

Ends(mac, want) == Len(mac) > Len(want) \/ mac = want
Verifies(path, lines, st) ==
  Chain(lines) /\ st.file = path /\ Ends(Before(lines, Len(lines) + 1), st.mac)

-----------------------------------------------------------------------------
Arrives ==
  /\ events < MaxEvents /\ events' = events + 1
  /\ UNCHANGED <<hook, file, saved, round, check, damaged, broken, commands, faults>>

(* round_once(): the hooks file and the states, read once.                 *)
Begin ==
  /\ round.pc = "idle" /\ hook # NoPath /\ saved.last < events
  /\ round' = [pc |-> "deliver", st |-> saved, file |-> hook, sent |-> 0]
  /\ UNCHANGED <<hook, file, saved, events, check, damaged, broken, commands, faults>>

(* signed_line(), append(): chained to what this file's state holds.       *)
Chained(st, path) == IF st.file = path THEN st ELSE [st EXCEPT !.file = path, !.mac = <<>>]
BatchOf(st) ==
  [from |-> st.last + 1, to |-> IF st.last + BATCH_MAX < events THEN st.last + BATCH_MAX ELSE events]

(* A path the sink will not touch, or a write that fails and is cut off.   *)
Refused == Fault

(* _to_file(), deliver(): one batch; a failure ends the round.  The chain  *)
(* of a file that had lines is begun again, the batch written or not.      *)
Deliver ==
  LET st == Chained(round.st, round.file)
      batch == BatchOf(st)
      line == Append(st.mac, batch)
      again == /\ round.st.file \notin {NoPath, round.file}
               /\ file[round.file] # <<>> \/ round.file \in damaged
  IN  /\ round.pc = "deliver" /\ round.st.last < events /\ round.sent < ROUND_BATCHES
      /\ \/ /\ file' = [file EXCEPT ![round.file] = Append(@, line)]
            /\ round' = [round EXCEPT !.st = [st EXCEPT !.last = batch.to, !.mac = line],
                                      !.sent = @ + 1]
            /\ UNCHANGED faults
         \/ /\ Refused
            /\ round' = [round EXCEPT !.st = st, !.pc = "save"]
            /\ UNCHANGED file
      /\ broken' = IF again THEN broken \cup {round.file} ELSE broken
      /\ UNCHANGED <<hook, saved, events, check, damaged, commands>>

(* _save_state(), at the end of a round: caught up, enough batches, or     *)
(* enough time.                                                            *)
SaveState ==
  /\ round.pc = "save" \/ (round.pc = "deliver" /\ round.sent > 0)
  /\ saved' = round.st /\ round' = NoRound
  /\ UNCHANGED <<hook, file, events, check, damaged, broken, commands, faults>>

Kill ==
  /\ round.pc # "idle" /\ Fault /\ round' = NoRound
  /\ broken' = IF round.sent > 1 THEN broken \cup {round.file} ELSE broken
  /\ UNCHANGED <<hook, file, saved, events, check, damaged, commands>>

(* hook add, of a name no hook has; hook remove, which keeps the state of  *)
(* the name.                                                               *)
HookAdd(p) ==
  /\ hook = NoPath /\ Command /\ hook' = p
  /\ UNCHANGED <<file, saved, round, events, check, damaged, broken, faults>>
HookRemove ==
  /\ hook # NoPath /\ Command /\ hook' = NoPath
  /\ UNCHANGED <<file, saved, round, events, check, damaged, broken, faults>>

(* check(): the file, then the hook's state.                               *)
CheckRead(p) ==
  /\ check.pc = "idle" /\ Command /\ file[p] # <<>>
  /\ check' = [NoCheck EXCEPT !.pc = "state", !.path = p, !.data = file[p], !.then = saved]
  /\ UNCHANGED <<hook, file, saved, round, events, damaged, broken, faults>>
CheckState ==
  /\ check.pc = "state"
  /\ check' = [check EXCEPT !.pc = "said", !.st = saved,
                            !.ok = Verifies(check.path, check.data, saved)]
  /\ UNCHANGED <<hook, file, saved, round, events, damaged, broken, commands, faults>>
CheckEnds ==
  /\ check.pc = "said" /\ check' = NoCheck
  /\ UNCHANGED <<hook, file, saved, round, events, damaged, broken, commands, faults>>

(* Somebody else's editor, a full disk, a file restored: a line is gone,   *)
(* or the last one is torn.                                                *)
Damage(p) ==
  /\ Fault /\ file[p] # <<>>
  /\ \/ \E i \in DOMAIN file[p] : file' = [file EXCEPT ![p] = RemoveAt(@, i)]
     \/ file' = [file EXCEPT ![p] = Append(Front(@), Torn)]
  /\ damaged' = damaged \cup {p}
  /\ UNCHANGED <<hook, saved, round, events, check, broken, commands>>

Round == Begin \/ Deliver \/ SaveState \/ Kill
Next ==
  \/ Arrives \/ Round \/ HookRemove \/ CheckState \/ CheckEnds
  \/ \E p \in Paths : HookAdd(p) \/ CheckRead(p) \/ Damage(p)
Spec == Init /\ [][Next]_vars

-----------------------------------------------------------------------------
Covered(line) == UNION {line[i].from..line[i].to : i \in DOMAIN line}

(* A check that passes has seen every event that the state says was sent   *)
(* to the file.  One that fails of a file only the sink wrote was told     *)
(* nothing of it by the state, or a state newer than the file it read.     *)
(* Not so once the sink has begun the chain again: a hook pointed back, or *)
(* a supervisor killed with two lines of a round unrecorded.               *)
CheckIsRight ==
  (check.pc = "said" /\ check.path \notin broken) =>
     IF check.ok
     THEN Covered(check.st.mac) \subseteq UNION {Covered(check.data[i]) : i \in DOMAIN check.data}
     ELSE check.path \in damaged \/ check.st.file # check.path \/ check.st # check.then

(* A line written but not recorded before the supervisor stopped "is NOT   *)
(* tampering, and passes with a note" (monitorsink.py:317).  A round       *)
(* writes up to twenty before it records any.                              *)
ResentPasses ==
  \A p \in Paths \ damaged : saved.file = p => Verifies(p, file[p], saved)
=============================================================================
