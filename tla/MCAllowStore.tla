----------------------------- MODULE MCAllowStore -----------------------------
(* One operator, a supervisor that stays up, and every command on the      *)
(* allowlist's store.  Beside it, the transcripts a supervisor's sweeps    *)
(* bring into the archive.  A behaviour is one of the two; the other is at *)
(* rest for good.                                                          *)
EXTENDS AllowStore, TLC, Integers, Sequences, FiniteSets

CONSTANTS
  o1, h1,
  Terminals, Copiers, MaxWrites, MaxCommands, MaxFaults      \* of the transcripts

ASSUME TerminalsAssumption ==
  Terminals \cap Copiers = {} /\ "sweep" \notin Terminals \cup Copiers

VARIABLES
  part,
  tree, box, job, wrote, clock, slipped, begun, faults

transcriptsVars == <<tree, box, job, wrote, clock, slipped, begun, faults>>
allVars == <<part, vars, transcriptsVars>>

OneOperator == {o1}
OneHost == {h1}
OneTTL == {1}
AllKinds == {"grant", "revoke", "decline", "launch", "restart", "wall", "learn", "review", "seed"}

Archive == INSTANCE Transcripts
             WITH commands <- begun, Paths <- {"own", "foreign", "deep"}, Ups <- Terminals,
                  Hands <- Copiers

AllowStoreAtRest == Init /\ sup = "dead"

AnyInit ==
  /\ part \in {"allow", "transcripts"}
  /\ IF part = "allow" THEN Init ELSE AllowStoreAtRest
  /\ Archive!Init

NextAllowStore ==
  /\ part = "allow" /\ Next
  /\ UNCHANGED <<part, transcriptsVars>>

NextArchive ==
  /\ part = "transcripts" /\ Archive!Next
  /\ UNCHANGED <<part, vars>>

AnyNext == NextAllowStore \/ NextArchive

(* Each part's fairness, in the behaviours that are that part's.           *)
Stores(A) == part = "allow" /\ A /\ UNCHANGED <<part, transcriptsVars>>
Sweeps(A) == part = "transcripts" /\ A /\ UNCHANGED <<part, vars>>

FairSpec ==
  /\ AnyInit /\ [][AnyNext]_allVars
  /\ \A p \in Processes : WF_allVars(Stores(GoOn(p)))
  /\ WF_allVars(Stores(SupervisorStep))
  /\ WF_allVars(Stores(Pass))
  /\ WF_allVars(Sweeps(Archive!StartSweep))
  /\ WF_allVars(Sweeps(Archive!Step(Archive!Sweep)))

(* The properties of the transcripts.                                      *)
NoLineLost == Archive!NoLineLost
ArchiveCatchesUp == Archive!ArchiveCatchesUp
=============================================================================
