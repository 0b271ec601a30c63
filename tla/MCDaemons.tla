------------------------------- MODULE MCDaemons ------------------------------
(* The proxies of the main checkout and of a worktree, and an operator who *)
(* swaps their ports, pins both onto one, changes live settings, and turns *)
(* a switch on that needs a secret.  Beside them, the other things that    *)
(* follow a mode and share no state with them: the running stack, the      *)
(* credentials' health, and the gate of the image builds.  A behaviour is  *)
(* one of the four; the others are at rest for good.                       *)
EXTENDS Daemons, TLC, Integers, Sequences, FiniteSets

CONSTANTS
  proxy, proxyW, main, w, d1, d2, d3, d4, d5,
  NoEntry, Empty, Garbage, NoMirror, Down,
  Terminals, Answering, Wants, MaxAttempts, MaxBuilds, MaxEdits,
  Probed, Minted, Recreated, Awaited, MaxLapses

VARIABLES
  part,
  real, skew, file, mirror, boxUp, call, turn, served, granted, calls,
  kills, stack, services, jobs, fyUp, stale, raced, ups, failures,
  switches, mirrored, proxied, chain, minter, round, verdicts, baseline,
  published, unsaved, worker, broken, claimed, passed, agent, lapses,
  tokens, expired, tokenlock, building, orphaned, grants, yardfiles, pin,
  reviewed, issued, edits

stackVars ==
  <<real, skew, file, mirror, boxUp, call, turn, served, granted, calls,
    kills, stack, services, jobs, fyUp, stale, raced, ups, failures>>
healthVars ==
  <<switches, mirrored, proxied, chain, minter, round, verdicts, baseline,
    published, unsaved, worker, broken, claimed, passed, agent, lapses>>
buildsVars ==
  <<tokens, expired, tokenlock, building, orphaned, grants, yardfiles, pin,
    reviewed, issued, edits>>
allVars == <<part, vars, stackVars, healthVars, buildsVars>>

MCNames == {proxy, proxyW}
MCHome == (proxy :> main) @@ (proxyW :> w)
MCPids == {d1, d2, d3, d4, d5}

On(port, rules, keyed) == [cmd |-> <<port, keyed>>, port |-> port, live |-> rules, needs |-> keyed]
Ask(p, pw) == (proxy :> p) @@ (proxyW :> pw)
Plain == Ask(On(1, 1, FALSE), On(2, 1, FALSE))

MCPostures == {Plain, Ask(On(2, 1, FALSE), On(1, 1, FALSE)), Ask(On(1, 1, TRUE), On(1, 2, FALSE))}

(* One switch, which shapes the stack and asks for one posture service.    *)
StackAxes == {"gcp"}
MCServices == {[name |-> "metadata-emulator", switch |-> "gcp", levels |-> {"on"}]}

Stack == INSTANCE PostureStack
          WITH tick <- turn, mishaps <- kills,
               Axes <- StackAxes, Rungs <- {"off", "on"}, Levels <- [a \in StackAxes |-> {"off", "on"}],
               Default <- [a \in StackAxes |-> "off"], Emergency <- [a \in StackAxes |-> {}],
               Rank <- [a \in StackAxes |-> 0], Requires <- {}, Overlaps <- {},
               Operators <- {"tui"}, Supervisor <- "sup", TTLs <- {1}, MaxTTL <- 1, MaxReal <- 0,
               MaxSkew <- 0, MaxCalls <- 2, MaxMishaps <- 1, MaxEvents <- 2, MaxAtOnce <- 1,
               Tuis <- {"tui"}, Services <- MCServices, MaxUps <- 1, MaxFailures <- 1

Health == INSTANCE Capabilities
          WITH on <- switches, mirror <- mirrored, proxy <- proxied, daemon <- minter,
               tick <- round, cache <- verdicts, base <- baseline, seen <- claimed,
               events <- lapses, Axes <- Probed, Daemoned <- Minted, Listed <- Recreated,
               Agent <- Awaited, MaxEvents <- MaxLapses

(* A switch that is not probed has nothing to recover from.                *)
ASSUME RecreatedAreProbed == Recreated \subseteq Probed

Builds == INSTANCE BuildGate
          WITH lock <- tokenlock, gate <- building, tree <- yardfiles, events <- edits,
               Builds <- Terminals, Asking <- Answering, Needs <- Wants, MaxEvents <- MaxEdits

(* A terminal is not "", which stands for a lock nobody holds.             *)
ASSUME TerminalsAreNamed == "" \notin Terminals

MCWants == [b \in {"b1", "b2"} |-> <<"h">>]

DaemonsAtRest == Init /\ posture = Plain
StackAtRest == Stack!StackInit /\ boxUp = FALSE /\ stack = Down
BuildsAtRest ==
  /\ tokens = {} /\ expired = {} /\ tokenlock = "" /\ orphaned = {}
  /\ building = [b \in Terminals |-> Builds!NoBuild]
  /\ grants = [h \in Builds!Hosts |-> "no"]
  /\ yardfiles = Builds!Files(1, 1, {}) /\ pin = {} /\ reviewed = {}
  /\ issued = 0 /\ edits = 0

AnyInit ==
  /\ part \in {"daemons", "stack", "health", "builds"}
  /\ IF part = "daemons" THEN Init ELSE DaemonsAtRest
  /\ IF part = "stack" THEN Stack!StackInit ELSE StackAtRest
  /\ Health!Init
  /\ IF part = "builds" THEN Builds!Init ELSE BuildsAtRest

NextDaemons ==
  /\ part = "daemons" /\ Next
  /\ UNCHANGED <<part, stackVars, healthVars, buildsVars>>

NextStack ==
  /\ part = "stack" /\ Stack!StackNext
  /\ UNCHANGED <<part, vars, healthVars, buildsVars>>

NextHealth ==
  /\ part = "health" /\ Health!Next
  /\ UNCHANGED <<part, vars, stackVars, buildsVars>>

NextBuilds ==
  /\ part = "builds" /\ Builds!Next
  /\ UNCHANGED <<part, vars, stackVars, healthVars>>

AnyNext == NextDaemons \/ NextStack \/ NextHealth \/ NextBuilds

(* Each part's fairness, in the behaviours that are that part's.           *)
Ticks(A) == part = "daemons" /\ A /\ UNCHANGED <<part, stackVars, healthVars, buildsVars>>
Goes(A) ==
  part = "stack" /\ A /\ Stack!Observe /\ UNCHANGED <<part, vars, healthVars, buildsVars>>

FairSpec ==
  /\ AnyInit /\ [][AnyNext]_allVars
  /\ WF_allVars(Ticks(Tick))
  /\ \A p \in Pids : WF_allVars(Ticks(Bind(p)))
  /\ \A n \in Names : WF_allVars(Ticks(Ages(n)))
  /\ \A p \in {"tui", "sup"} :
       /\ WF_allVars(Goes(Stack!CallStepS(p)))
       /\ WF_allVars(Goes(Stack!ReconcileStep(p)))
  /\ WF_allVars(Goes(Stack!TickStepS))
  /\ WF_allVars(Goes(Stack!Pass /\ UNCHANGED <<stack, services, jobs, fyUp, stale, ups, failures>>))
  /\ WF_allVars(Goes(Stack!FyUpDone))

(* The properties of the parts beside the daemons.                         *)
StackFollowsMode == Stack!StackFollowsMode
RecoveryRecreates == Health!RecoveryRecreates
SecretsOfTheRunning == Builds!SecretsOfTheRunning
OnlyTheOperatorsLines == Builds!OnlyTheOperatorsLines
=============================================================================
