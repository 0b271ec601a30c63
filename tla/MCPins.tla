-------------------------------- MODULE MCPins --------------------------------
(* Adoptions of the main checkout and of a worktree.  Beside them, two     *)
(* other things that several terminals and one supervisor step through     *)
(* together: the agents' sessions of a box, and a hook's signed file.  A   *)
(* behaviour is one of the three; the others are at rest for good.         *)
EXTENDS ConfigPin, TLC

(* The main checkout and a worktree, a shared file and a local overlay.    *)
CONSTANTS main, feat, toml, overlay, shipped, amended, s1, s2, s3

(* Of the agents' sessions.                                                *)
CONSTANTS Names, Operators, MaxIds, MaxCommands, MaxEvents

(* Of the signed file.                                                     *)
CONSTANTS HookFiles, BATCH_MAX, ROUND_BATCHES, MaxSettled, MaxAsked, MaxFaults

MCFiles == {toml, overlay}
MCFileOrder == <<toml, overlay>>
(* The worktree's branch has main's config, or its own, or is not there.   *)
MCTrees ==
  LET same == [f \in MCFiles |-> shipped]
  IN  {[c \in {main, feat} |-> IF c = main THEN same ELSE t] :
         t \in {same, [same EXCEPT ![toml] = amended], [f \in MCFiles |-> Absent]}}

Do(kind, c) == [kind |-> kind, at |-> c]
MCAgendas ==
  {<<Do("explicit", main), Do("gate", main)>>, <<Do("add", feat), Do("explicit", main)>>,
   <<Do("gate", feat), Do("remove", feat)>>, <<Do("remove", feat), Do("add", feat)>>,
   <<Do("share", main), Do("revert", main)>>}

(* Two adoptions of the main checkout.                                     *)
MCReadoptions == {<<Do("explicit", main), Do("gate", main)>>}

Interchangeable == Permutations(Sessions)

-----------------------------------------------------------------------------
VARIABLES
  part,
  sessions, convs, ids, cmd, slain, commands, events,
  hook, file, saved, round, arrived, check, damaged, broken, asked, faults

agentsVars == <<sessions, convs, ids, cmd, slain, commands, events>>
sinkVars ==
  <<hook, file, saved, round, arrived, check, damaged, broken, asked,
    faults>>
allVars == <<part, vars, agentsVars, sinkVars>>


Agent == INSTANCE AgentSessions

Sink == INSTANCE SinkFile
          WITH events <- arrived, commands <- asked, Paths <- HookFiles,
               MaxEvents <- MaxSettled, MaxCommands <- MaxAsked
ASSUME HookAssumption == Sink!NoPath \notin HookFiles /\ BATCH_MAX \in Nat \ {0}

PinAtRest ==
  /\ tree = [c \in Checkouts |-> [f \in MCFiles |-> shipped]]
  /\ agenda = <<Do("explicit", main), Do("gate", main)>>
  /\ marker = [c \in Checkouts |-> 0]
  /\ Init
AgentAtRest == sessions = {} /\ Agent!Init
SinkAtRest == hook = (CHOOSE p \in HookFiles : TRUE) /\ Sink!Init

AnyInit ==
  /\ part \in {"pin", "agents", "sink"}
  /\ IF part = "pin" THEN Init ELSE PinAtRest
  /\ IF part = "agents" THEN Agent!Init ELSE AgentAtRest
  /\ IF part = "sink" THEN Sink!Init ELSE SinkAtRest

NextPin ==
  /\ part = "pin" /\ Next
  /\ UNCHANGED <<part, agentsVars, sinkVars>>

NextAgent ==
  /\ part = "agents" /\ Agent!Next
  /\ UNCHANGED <<part, vars, sinkVars>>

NextSink ==
  /\ part = "sink" /\ Sink!Next
  /\ UNCHANGED <<part, vars, agentsVars>>

AnyNext == NextPin \/ NextAgent \/ NextSink

PinsSpec == AnyInit /\ [][AnyNext]_allVars

(* The properties of the parts beside the pins.                            *)
SessionsContinue == Agent!SessionsContinue
CheckIsRight == Sink!CheckIsRight
=============================================================================
