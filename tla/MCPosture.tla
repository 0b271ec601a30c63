------------------------------ MODULE MCPosture -----------------------------
(* The writers of one checkout's mode.  Beside them, the launches of a     *)
(* supervisor, two at once, with nothing killed, hung or upgraded: does    *)
(* the one that is launched come to serve?  A behaviour is one of the two; *)
(* the other is at rest for good.                                          *)
EXTENDS Posture, TLC

CONSTANTS Launchers, Supers, None      \* of the launches

VARIABLES
  part,
  lock, meta, beat, record, pidfile, code, proc, daemon, wedged, stopping,
  slain, unlucky, kills

launchVars ==
  <<lock, meta, beat, record, pidfile, code, proc, daemon, wedged, stopping,
    slain, unlucky, kills>>
allVars == <<part, vars, launchVars>>

Launch == INSTANCE Singleton
            WITH Verbs <- {"up"}, MaxCode <- 1, MaxKills <- 0, MaxWedges <- 0, MaxMishaps <- 0

(* A project with an emergency credential and a switch that needs it.      *)
MCAxes == {"cred", "dep"}
MCRungs == {"off", "on", "user"}
MCLevels == [a \in MCAxes |-> IF a = "cred" THEN {"off", "user"} ELSE {"off", "on"}]
MCDefault == [a \in MCAxes |-> "off"]
MCEmergency == [a \in MCAxes |-> IF a = "cred" THEN {"user"} ELSE {}]
MCRank == [a \in MCAxes |-> IF a = "cred" THEN 0 ELSE 1]
MCRequires ==
  {[owner |-> "dep", when |-> {"on"}, needs |-> "cred", accepts |-> {"user"}]}

AnyInit ==
  /\ part \in {"posture", "launch"}
  /\ IF part = "posture" THEN Init ELSE Init /\ boxUp = FALSE
  /\ IF part = "launch" THEN Launch!Init ELSE Launch!Init /\ lock = None

NextPosture ==
  /\ part = "posture" /\ Next
  /\ UNCHANGED <<part, launchVars>>

NextLaunch ==
  /\ part = "launch" /\ Launch!Next
  /\ UNCHANGED <<part, vars>>

AnyNext == NextPosture \/ NextLaunch

(* The launches' fairness, in the behaviours that are theirs.              *)
Goes(A) == part = "launch" /\ A /\ UNCHANGED <<part, vars>>

FairSpec ==
  /\ AnyInit /\ [][AnyNext]_allVars
  /\ \A l \in Launchers : WF_allVars(Goes(Launch!LaunchStep(l)))
  /\ \A s \in Supers : WF_allVars(Goes(Launch!BootStep(s))) /\ WF_allVars(Goes(Launch!Tick(s)))
  /\ \A p \in Launchers \cup Supers : WF_allVars(Goes(Launch!Judging(p)))

LaunchServes == Launch!LaunchServes
=============================================================================
