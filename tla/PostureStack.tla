---------------------------- MODULE PostureStack ----------------------------
(***************************************************************************)
(* A checkout's mode together with its compose stack.  A running stack     *)
(* carries the environment and overlays of the mode it was last brought up *)
(* with (its signature).  set_mode ends by reconciling the stack, and that *)
(* is the only thing that moves a running stack to a new mode.             *)
(*                                                                         *)
(* `fy mode' and the supervisor reconcile before they return.  The TUI     *)
(* queues the reconcile on a worker thread, one queue per checkout, served *)
(* in the order of the presses (_FifoGate).                                *)
(***************************************************************************)
EXTENDS Posture, Sequences

CONSTANTS
  StackAxes,     \* the switches whose level shapes the compose configuration
  Tuis,          \* the operators that are a TUI
  Services,      \* the posture services: [switch, levels it is wanted at]
  Down,          \* the stack is not running
  MaxUps,        \* bound: `fy up' and `fy down' runs
  MaxFailures    \* bound: compose runs that fail

VARIABLES
  stack,      \* the signature the running stack carries, or Down
  services,   \* the posture services that are running
  jobs,       \* process -> its reconciles, the head being the one that runs
  fyUp,       \* the signature a running `fy up' has resolved, or Down
  stale,      \* a compose run failed and none has succeeded since
  raced,      \* writes overlapped, or a process was killed (history)
  ups, failures

stackVars == <<stack, services, jobs, fyUp, stale, ups, failures>>
allVars == <<vars, stackVars, raced>>

Signature(mode) == [a \in StackAxes |-> mode[a]]
Wanted(mode) == {s \in Services : mode[s.switch] \in s.levels}

(* Somebody is rewriting the file while another process is between reading *)
(* it and acting on what it read.  A TUI that writes while its own         *)
(* reconcile runs is no overlap: the next job of its queue puts it right.  *)
Overlap ==
  \E p \in Processes :
    /\ call[p].pc = "write"
    /\ \/ tick.pc \in {"stored", "expire"}
       \/ fyUp # Down
       \/ \E q \in Processes \ {p} :
            \/ call[q].pc \in {"truncate", "write"}
            \/ jobs[q] # <<>> /\ Head(jobs[q]).resolved

Unresolved == [resolved |-> FALSE, mode |-> Default]

StackInit ==
  /\ Init
  /\ stack \in {Down, Signature(Default)}
  /\ services = {}
  /\ jobs = [p \in Processes |-> <<>>]
  /\ fyUp = Down
  /\ stale = FALSE /\ raced = FALSE
  /\ ups = 0 /\ failures = 0

(* The end of set_mode.  reconcile_posture is a no-op unless the signature *)
(* changed between the mode set_mode read and the mode it wrote.           *)
FinishSet(p) ==
  /\ Finish(p)
  /\ jobs' = IF Signature(call[p].base) = Signature(call[p].next.mode)
             THEN jobs
             ELSE [jobs EXCEPT ![p] = Append(@, Unresolved)]
  /\ UNCHANGED <<stack, services, fyUp, stale, ups, failures>>

(* reconcile_posture resolves the compose context from the mode on disk.   *)
Resolve(p) ==
  /\ jobs[p] # <<>> /\ ~Head(jobs[p]).resolved
  /\ jobs' = [jobs EXCEPT ![p] =
                <<[resolved |-> TRUE, mode |-> Live(Load).mode]>> \o Tail(@)]
  /\ UNCHANGED <<vars, stack, services, fyUp, stale, ups, failures>>

(* The services that run once a reconcile to a mode has: a running one     *)
(* whose profile the mode leaves counts as one the developer started, and  *)
(* is kept; with the stack down it is removed.                             *)
Kept(mode) == IF stack = Down THEN Wanted(mode) ELSE Wanted(mode) \cup services

(* Mutant: the whole queue is taken for done once its head is.             *)
Converge_DropsQueue(p) ==
  LET mode == Head(jobs[p]).mode
  IN /\ jobs[p] # <<>> /\ Head(jobs[p]).resolved
     /\ jobs' = [jobs EXCEPT ![p] = <<>>]
     /\ stack' = IF stack = Down THEN Down ELSE Signature(mode)
     /\ services' = Kept(mode)
     /\ stale' = FALSE
     /\ UNCHANGED <<vars, fyUp, ups, failures>>

(* It re-ups a running stack, or, with the stack down, converges just the  *)
(* posture services.                                                       *)
Converge(p) ==
  LET mode == Head(jobs[p]).mode
  IN /\ jobs[p] # <<>> /\ Head(jobs[p]).resolved
     /\ jobs' = [jobs EXCEPT ![p] = Tail(@)]
     /\ stack' = IF stack = Down THEN Down ELSE Signature(mode)
     /\ services' = Kept(mode)
     /\ stale' = FALSE
     /\ UNCHANGED <<vars, fyUp, ups, failures>>

(* compose exits non-zero: the stack stays as it was, nobody retries.      *)
ConvergeFails(p) ==
  /\ jobs[p] # <<>> /\ Head(jobs[p]).resolved
  /\ failures < MaxFailures
  /\ failures' = failures + 1
  /\ jobs' = [jobs EXCEPT ![p] = Tail(@)]
  /\ stale' = TRUE
  /\ UNCHANGED <<vars, stack, services, fyUp, ups>>

(* `fy up' resolves its context, and some time later the stack is up.      *)
FyUp ==
  /\ ups < MaxUps /\ fyUp = Down
  /\ ups' = ups + 1
  /\ fyUp' = Live(Load).mode
  /\ UNCHANGED <<vars, stack, services, jobs, stale, failures>>

FyUpDone ==
  /\ fyUp # Down
  /\ stack' = Signature(fyUp)
  /\ services' = Wanted(fyUp) \cup services
  /\ stale' = FALSE
  /\ fyUp' = Down
  /\ UNCHANGED <<vars, jobs, ups, failures>>

FyDown ==
  /\ ups < MaxUps /\ fyUp = Down /\ stack # Down
  /\ ups' = ups + 1
  /\ stack' = Down
  /\ services' = {}
  /\ UNCHANGED <<vars, jobs, fyUp, stale, failures>>

(* A command that reconciles inline does nothing else meanwhile.           *)
Free(p) == p \in Tuis \/ jobs[p] = <<>>

ReconcileStep(p) == Resolve(p) \/ Converge(p) \/ ConvergeFails(p)

CallStepS(p) ==
  \/ (Truncate(p) \/ Write(p) \/ Refresh(p)) /\ UNCHANGED stackVars
  \/ FinishSet(p)

TickStepS == TickStep /\ Free(Supervisor) /\ UNCHANGED stackVars

KillOperatorS(p) ==
  /\ KillOperator(p)
  /\ jobs' = [jobs EXCEPT ![p] = <<>>]
  /\ UNCHANGED <<stack, services, fyUp, stale, ups, failures>>

KillSupervisorS ==
  /\ KillSupervisor
  /\ jobs' = [jobs EXCEPT ![Supervisor] = <<>>]
  /\ UNCHANGED <<stack, services, fyUp, stale, ups, failures>>

Step ==
  \/ \E p \in Operators, u \in Updates, ttl \in TTLs :
       SetMode(p, u, ttl) /\ Free(p) /\ UNCHANGED stackVars
  \/ \E p \in Processes : CallStepS(p) \/ ReconcileStep(p)
  \/ TickStepS
  \/ World /\ UNCHANGED stackVars
  \/ \E p \in Operators : KillOperatorS(p)
  \/ KillSupervisorS
  \/ FyUp \/ FyUpDone \/ FyDown

(* A job resolves its context from a file that is being rewritten.         *)
TornResolve ==
  \E p, q \in Processes :
    /\ jobs[p] # <<>> /\ ~Head(jobs[p]).resolved
    /\ jobs'[p] # <<>> /\ Head(jobs'[p]).resolved
    /\ call[q].pc = "write"

(* A process was killed.                                                   *)
Died == mishaps' # mishaps /\ UNCHANGED <<skew, boxUp>>

Observe == raced' = (raced \/ Overlap' \/ TornResolve \/ Died)

StackNext == Step /\ Observe

StackFairness ==
  /\ \A p \in Processes :
       /\ WF_allVars(CallStepS(p) /\ Observe)
       /\ WF_allVars(ReconcileStep(p) /\ Observe)
  /\ WF_allVars(TickStepS /\ Observe)
  /\ WF_allVars(Pass /\ UNCHANGED stackVars /\ Observe)
  /\ WF_allVars(FyUpDone /\ Observe)

StackSpec == StackInit /\ [][StackNext]_allVars /\ StackFairness

-----------------------------------------------------------------------------
(* Every part of the state has its type.                                   *)
Signatures == {Signature(m) : m \in Modes}
StackTypeOK ==
  /\ stack \in Signatures \cup {Down}
  /\ services \subseteq Services
  /\ jobs \in [Processes -> Seq([resolved : BOOLEAN, mode : Modes])]
  /\ fyUp \in Modes \cup {Down}
  /\ stale \in BOOLEAN /\ raced \in BOOLEAN

Undisturbed == ~stale /\ ~raced

(* A running stack ends up on the mode the file asks for, unless the last  *)
(* compose run failed, a process was killed or writers overlapped.         *)
(* devmode.py:343: set_mode "is the single host-side choke point every     *)
(* posture change routes through (CLI + TUI + the supervisor's TTL         *)
(* expiry), so it's where the running stack is reconciled to the new       *)
(* posture".                                                               *)
StackFollowsMode ==
  <>[](Undisturbed /\ stack # Down => stack = Signature(Load.mode))

(* stack.py:1368: "Now-inactive profile containers (e.g. the metadata      *)
(* emulator when leaving the gcp rungs) are dropped by foldyard's own      *)
(* targeted sweep AFTER a successful up".  They are not: the code keeps    *)
(* every profile that has a running service.                               *)
NoServiceOutlivesItsLevel ==
  <>[](Undisturbed => services \subseteq Wanted(Load.mode))
=============================================================================
