----------------------------- MODULE Singleton -----------------------------
(***************************************************************************)
(* One supervisor per project: the flock a supervisor holds for its whole  *)
(* life, what it stamps into the lock file, its heartbeat and its readiness *)
(* record, and the `fy' runs that start, judge, replace, stop and wait for *)
(* it.  The lock is also taken for a moment by whoever probes it.          *)
(***************************************************************************)
EXTENDS Naturals, FiniteSets

CONSTANTS
  Launchers,   \* `fy' runs, one verb each
  Supers,      \* supervisor processes, by pid
  Verbs,       \* which of "up", "restart" and "stop" are run
  None,        \* nobody, no record, no file
  Empty,       \* a lock file with nothing in it
  MaxCode,     \* bound: versions of the installed code
  MaxKills,    \* bound: processes killed
  MaxWedges,   \* bound: supervisors whose tick hangs
  MaxMishaps   \* bound: updates, kills and hangs together

ASSUME ProcessesAssumption == Launchers \cap Supers = {} /\ None \notin Launchers \cup Supers
ASSUME VerbsAssumption == Verbs \subseteq {"up", "restart", "stop"}
ASSUME BoundsAssumption ==
  MaxCode \in Nat \ {0} /\ MaxKills \in Nat /\ MaxWedges \in Nat /\ MaxMishaps \in Nat

Procs == Launchers \cup Supers
Codes == 1..MaxCode
Stamps == [pid : Supers, code : Codes]

ASSUME EmptyAssumption == Empty \notin Stamps

VARIABLES
  lock,       \* who holds the flock
  meta,       \* what the lock file says of its holder
  beat,       \* the heartbeat: "none", "fresh" or "old"
  record,     \* whose readiness record is published, while it is fresh
  pidfile,    \* the pid of the last launch
  code,       \* the installed code
  proc,       \* every process: where it is and what it has read
  daemon,     \* the supervisor whose child listens on the proxy's port
  wedged,     \* supervisors whose tick hangs
  stopping,   \* supervisors that have been told to stop
  slain,      \* supervisors that died by SIGKILL (history)
  unlucky,    \* a try for the lock failed on a probe, something was killed or
              \* hung, or a verb stops the supervisor for good (history)
  kills

vars == <<lock, meta, beat, record, pidfile, code, proc, daemon, wedged, stopping, slain, unlucky, kills>>

(* What a process runs, and the fingerprint it takes of the installed code *)
(* when it first needs one (0 before that).                                *)
Off == [pc |-> "off", then |-> "off", verb |-> "none", runs |-> 1, code |-> 0, holder |-> None,
        targets |-> {}, seen |-> {}, alive |-> {}]
Fingerprint(p) == IF proc[p].code = 0 THEN code ELSE proc[p].code

Ended == {"off", "gone", "ready", "unready", "stopped"}
Running(p) == proc[p].pc \notin Ended
At(p, pc) == proc[p].pc = pc

(* Where a supervisor is while the flock is its own.                       *)
Booting == {"truncate", "stamp", "beat", "init"}
Holding == Booting \cup {"serve", "shut", "exit"}
Healthy(s) == At(s, "serve") /\ s \notin wedged \cup stopping

(* A process goes on; one that has ended is as good as new.                *)
Ends(pc) == [Off EXCEPT !.pc = pc]
Goto(p, pc) ==
  proc' = [proc EXCEPT ![p] = IF pc \in Ended THEN Ends(pc)
                              ELSE [@ EXCEPT !.pc = pc, !.then = "off", !.alive = {}]]

Serving == [Off EXCEPT !.pc = "serve", !.verb = "main", !.code = 1]

(* Nothing has run yet, or a supervisor is up, its tick hanging perhaps.   *)
Init ==
  /\ \/ /\ lock = None /\ meta = Empty /\ beat = "none" /\ record = None /\ pidfile = None
        /\ proc = [p \in Procs |-> Off] /\ daemon = None /\ wedged = {}
     \/ \E s \in Supers :
          /\ lock = s /\ meta = [pid |-> s, code |-> 1] /\ pidfile = s /\ daemon = s
          /\ proc = [p \in Procs |-> IF p = s THEN Serving ELSE Off]
          /\ \/ beat = "fresh" /\ record = s /\ wedged = {}
             \/ beat = "old" /\ record = None /\ wedged = {s}
  /\ code = 1
  /\ stopping = {} /\ slain = {}
  /\ unlucky = FALSE
  /\ kills = 0

-----------------------------------------------------------------------------
(* _supervisor_running: try the flock; if it was free, let go of it again. *)
Probe(p, free, busy) ==
  /\ UNCHANGED <<meta, beat, record, pidfile, code, daemon, wedged, stopping, slain, kills>>
  /\ IF lock = None
     THEN /\ lock' = p
          /\ proc' = [proc EXCEPT ![p].pc = "release", ![p].then = free]
     ELSE lock' = lock /\ Goto(p, busy)

Release(p) ==
  /\ At(p, "release")
  /\ lock' = None
  /\ Goto(p, proc[p].then)
  /\ UNCHANGED <<meta, beat, record, pidfile, code, daemon, wedged, stopping, slain, unlucky, kills>>

HeldByProbe == lock # None /\ At(lock, "release")

-----------------------------------------------------------------------------
(* A verb begins: it looks whether a supervisor runs.                      *)
Start(l) ==
  /\ At(l, "off")
  /\ \E verb \in Verbs :
       /\ proc' = [proc EXCEPT ![l] = [Off EXCEPT !.pc = "look", !.verb = verb,
                                                  !.seen = {s \in Supers : Healthy(s)}]]
       /\ unlucky' = (unlucky \/ verb = "stop")
  /\ UNCHANGED <<lock, meta, beat, record, pidfile, code, daemon, wedged, stopping, slain, kills>>

(* `up' judges a supervisor that runs; else it looks at the pidfile.       *)
(* `restart' bounces one whatever its state, having read who it is.        *)
Look(l) ==
  /\ At(l, "look")
  /\ \/ proc[l].verb = "up" /\ Probe(l, "pidfile", "meta")
     \/ proc[l].verb = "restart" /\ Probe(l, "again", "old")
     \/ proc[l].verb = "stop" /\ Probe(l, "unlink", "targets")
  /\ UNCHANGED unlucky

Again(l) == At(l, "again") /\ Probe(l, "unlink", "targets") /\ UNCHANGED unlucky

ReadOld(l) ==
  /\ At(l, "old")
  /\ proc' = IF meta = Empty THEN [proc EXCEPT ![l].pc = "again"]
             ELSE [proc EXCEPT ![l].pc = "targets", ![l].holder = meta.pid]
  /\ UNCHANGED <<lock, meta, beat, record, pidfile, code, daemon, wedged, stopping, slain, unlucky, kills>>

(* _running_pid: a launch on record that is alive, or none.                *)
Pidfile(l) ==
  /\ At(l, "pidfile")
  /\ IF pidfile # None /\ Running(pidfile)
     THEN Goto(l, "await") /\ UNCHANGED pidfile
     ELSE Goto(l, "spawn") /\ pidfile' = None
  /\ UNCHANGED <<lock, meta, beat, record, code, daemon, wedged, stopping, slain, unlucky, kills>>

(* _holder_stale_reason, up to the fingerprint ...                         *)
Outdated(p) == meta = Empty \/ meta.code # Fingerprint(p)

Current(p) == IF p \in Supers THEN "gone" ELSE "await"

ReadMeta(p) ==
  /\ At(p, "meta")
  /\ proc' = [proc EXCEPT ![p].code = IF meta = Empty THEN @ ELSE Fingerprint(p),
                          ![p].pc = IF Outdated(p) THEN "targets" ELSE "age"]
  /\ UNCHANGED <<lock, meta, beat, record, pidfile, code, daemon, wedged, stopping, slain, unlucky, kills>>

(* Mutant: the heartbeat is not looked at.                                 *)
ReadAge_Ignored(p) ==
  /\ At(p, "age")
  /\ Goto(p, Current(p))
  /\ UNCHANGED <<lock, meta, beat, record, pidfile, code, daemon, wedged, stopping, slain, unlucky, kills>>

(* ... and the heartbeat: a supervisor that is current and ticks is left   *)
(* in charge.                                                              *)
ReadAge(p) ==
  /\ At(p, "age")
  /\ Goto(p, IF beat = "old" THEN "targets" ELSE Current(p))
  /\ UNCHANGED <<lock, meta, beat, record, pidfile, code, daemon, wedged, stopping, slain, unlucky, kills>>

-----------------------------------------------------------------------------
(* _bounce_holder: the stamped pid if it is alive, else whoever has the    *)
(* lock file open.                                                         *)
Targets(p) ==
  /\ At(p, "targets")
  /\ LET pids == IF meta # Empty /\ meta.pid # p /\ Running(meta.pid) THEN {meta.pid}
                 ELSE {lock} \ {None, p}
     IN proc' = [proc EXCEPT ![p].targets = pids, ![p].pc = IF pids = {} THEN "check" ELSE "term"]
  /\ UNCHANGED <<lock, meta, beat, record, pidfile, code, daemon, wedged, stopping, slain, unlucky, kills>>

(* Processes die: their lock is free.                                      *)
Die(dying, moved) ==
  /\ proc' = [p \in Procs |-> IF p \in dying THEN Ends("gone") ELSE moved[p]]
  /\ lock' = IF lock \in dying THEN None ELSE lock
  /\ unlucky' = (unlucky \/ dying \cap Launchers # {})

(* SIGTERM: a supervisor that serves stops when it next looks; any other   *)
(* process has no handler (yet).                                           *)
Handles(s) == s \in Supers /\ proc[s].pc \in {"serve", "shut", "exit"}

Term(p) ==
  /\ At(p, "term")
  /\ LET hit == {q \in proc[p].targets : Running(q)} IN
     /\ Die({q \in hit : ~Handles(q)}, [proc EXCEPT ![p].pc = "wait"])
     /\ stopping' = stopping \cup {q \in hit : Handles(q)}
  /\ UNCHANGED <<meta, beat, record, pidfile, code, daemon, wedged, slain, kills>>

(* Probe until the lock is free; SIGKILL after 20 s.                       *)
Wait(p) ==
  /\ At(p, "wait")
  /\ \/ lock = None /\ Probe(p, "check", "check") /\ UNCHANGED unlucky
     \/ /\ lock # None
        /\ LET hit == {q \in proc[p].targets : Running(q)} IN
           /\ Die(hit, [proc EXCEPT ![p].pc = "check"])
           /\ slain' = slain \cup (hit \cap Supers)
        /\ UNCHANGED <<meta, beat, record, pidfile, code, daemon, wedged, stopping, kills>>

(* The last probe says whether it worked.                                  *)
AfterBounce(p) ==
  IF p \in Supers THEN "retry" ELSE IF proc[p].verb = "up" THEN "spawn" ELSE "unlink"

GiveUp(p) == IF p \in Supers THEN "gone" ELSE IF proc[p].verb = "up" THEN "await" ELSE "unready"

Check(p) ==
  /\ At(p, "check")
  /\ Probe(p, AfterBounce(p), GiveUp(p))
  /\ unlucky' = (unlucky \/ HeldByProbe)

-----------------------------------------------------------------------------
(* Before a `restart', and after a `stop'.                                 *)
Unlink(l) ==
  /\ At(l, "unlink")
  /\ pidfile' = None
  /\ Goto(l, IF proc[l].verb = "stop" THEN "stopped" ELSE "spawn")
  /\ UNCHANGED <<lock, meta, beat, record, code, daemon, wedged, stopping, slain, unlucky, kills>>

(* _spawn: a new process, running the installed code ...                   *)
Spawn(l) ==
  /\ At(l, "spawn")
  /\ \E s \in Supers :
       /\ At(s, "off")
       /\ proc' = [proc EXCEPT ![l].pc = "note", ![l].targets = {s},
                               ![s] = [Off EXCEPT !.pc = "acquire", !.verb = "main", !.runs = code,
                                                  !.seen = {t \in Supers : Healthy(t)}]]
  /\ UNCHANGED <<lock, meta, beat, record, pidfile, code, daemon, wedged, stopping, slain, unlucky, kills>>

(* ... and its pid, for the next launch.                                   *)
Note(l) ==
  /\ At(l, "note")
  /\ pidfile' = CHOOSE s \in Supers : s \in proc[l].targets
  /\ Goto(l, IF proc[l].verb = "up" THEN "await" ELSE "poll")
  /\ UNCHANGED <<lock, meta, beat, record, code, daemon, wedged, stopping, slain, unlucky, kills>>

-----------------------------------------------------------------------------
(* await_ready: who holds the lock, ...                                    *)
Await(l) ==
  /\ At(l, "await")
  /\ IF lock = None
     THEN lock' = l /\ proc' = [proc EXCEPT ![l].pc = "release", ![l].then = "await"]
     ELSE /\ UNCHANGED lock
          /\ proc' = [proc EXCEPT ![l].pc = "holder", ![l].alive = {s \in Supers : Running(s)}]
  /\ UNCHANGED <<meta, beat, record, pidfile, code, daemon, wedged, stopping, slain, unlucky, kills>>

ReadHolder(l) ==
  /\ At(l, "holder")
  /\ proc' = [proc EXCEPT ![l].pc = "judge",
                          ![l].holder = IF meta = Empty THEN None ELSE meta.pid]
  /\ UNCHANGED <<lock, meta, beat, record, pidfile, code, daemon, wedged, stopping, slain, unlucky, kills>>

(* ... and is the record its own?  Else it asks again, until it gives up.  *)
Judge(l) ==
  /\ At(l, "judge")
  /\ IF record # None /\ record = proc[l].holder THEN Goto(l, "ready")
     ELSE \E pc \in {"await", "unready"} : Goto(l, pc)
  /\ UNCHANGED <<lock, meta, beat, record, pidfile, code, daemon, wedged, stopping, slain, unlucky, kills>>

(* restart waits for a holder that is not the old one and a heartbeat     *)
(* less than 5 s old, and probes the lock each time.                       *)
Poll(l) ==
  /\ At(l, "poll")
  /\ \/ /\ meta # Empty /\ meta.pid # proc[l].holder /\ beat = "fresh"
        /\ Goto(l, "confirm")
     \/ \E pc \in {"poll again", "unready"} : Goto(l, pc)
  /\ UNCHANGED <<lock, meta, beat, record, pidfile, code, daemon, wedged, stopping, slain, unlucky, kills>>

Confirm(l) ==
  /\ \/ At(l, "confirm") /\ Probe(l, "poll", "ready")
     \/ At(l, "poll again") /\ Probe(l, "poll", "poll")
  /\ UNCHANGED unlucky

-----------------------------------------------------------------------------
(* Mutant: a supervisor boots whether or not it gets the lock.             *)
Acquire_Anyway(s) ==
  /\ At(s, "acquire")
  /\ lock' = (IF lock = None THEN s ELSE lock)
  /\ Goto(s, "truncate")
  /\ UNCHANGED <<meta, beat, record, pidfile, code, daemon, wedged, stopping, slain, unlucky, kills>>

(* acquire_singleton, by a supervisor that has just been started: turned   *)
(* away, it judges the holder.                                             *)
Acquire(s) ==
  /\ At(s, "acquire")
  /\ IF lock = None THEN lock' = s /\ Goto(s, "truncate") /\ UNCHANGED unlucky
     ELSE UNCHANGED lock /\ Goto(s, "meta") /\ unlucky' = (unlucky \/ HeldByProbe)
  /\ UNCHANGED <<meta, beat, record, pidfile, code, daemon, wedged, stopping, slain, kills>>

(* Having bounced the holder it tries for 5 s.                            *)
Retry(s) ==
  /\ At(s, "retry")
  /\ IF lock = None THEN lock' = s /\ Goto(s, "truncate") /\ UNCHANGED unlucky
     ELSE UNCHANGED lock /\ Goto(s, "gone") /\ unlucky' = (unlucky \/ HeldByProbe)
  /\ UNCHANGED <<meta, beat, record, pidfile, code, daemon, wedged, stopping, slain, kills>>

(* The file is truncated, the fingerprint taken (unless it has been taken  *)
(* to judge a holder), and the line written.                               *)
Truncate(s) ==
  /\ At(s, "truncate")
  /\ meta' = Empty
  /\ Goto(s, "stamp")
  /\ UNCHANGED <<lock, beat, record, pidfile, code, daemon, wedged, stopping, slain, unlucky, kills>>

(* Mutant: the pid is written without the fingerprint.                     *)
Stamp_NoCode(s) ==
  /\ At(s, "stamp")
  /\ meta' = [pid |-> s, code |-> 0]
  /\ proc' = [proc EXCEPT ![s].code = Fingerprint(s), ![s].pc = "beat"]
  /\ UNCHANGED <<lock, beat, record, pidfile, code, daemon, wedged, stopping, slain, unlucky, kills>>

Stamp(s) ==
  /\ At(s, "stamp")
  /\ meta' = [pid |-> s, code |-> Fingerprint(s)]
  /\ proc' = [proc EXCEPT ![s].code = Fingerprint(s), ![s].pc = "beat"]
  /\ UNCHANGED <<lock, beat, record, pidfile, code, daemon, wedged, stopping, slain, unlucky, kills>>

StampHeartbeat(s) ==
  /\ At(s, "beat")
  /\ beat' = "fresh"
  /\ Goto(s, "init")
  /\ UNCHANGED <<lock, meta, record, pidfile, code, daemon, wedged, stopping, slain, unlucky, kills>>

(* The stores are set up and the signal handlers installed.                *)
Boot(s) ==
  /\ At(s, "init")
  /\ Goto(s, "serve")
  /\ UNCHANGED <<lock, meta, beat, record, pidfile, code, daemon, wedged, stopping, slain, unlucky, kills>>

(* A tick: the heartbeat, the daemon (a dead supervisor's is reaped off    *)
(* the port) and the readiness record.                                     *)
Tick(s) ==
  /\ At(s, "serve") /\ s \notin wedged
  /\ beat' = "fresh"
  /\ daemon' = s
  /\ record' = s
  /\ UNCHANGED <<lock, meta, pidfile, code, proc, wedged, stopping, slain, unlucky, kills>>

(* The loop ends when it has been told to.                                 *)
LeaveLoop(s) ==
  /\ At(s, "serve") /\ s \in stopping \ wedged
  /\ Goto(s, "shut")
  /\ UNCHANGED <<lock, meta, beat, record, pidfile, code, daemon, wedged, stopping, slain, unlucky, kills>>

(* _shut_down: its daemon is stopped and nothing is ready any more.        *)
ShutDown(s) ==
  /\ At(s, "shut")
  /\ daemon' = IF daemon = s THEN None ELSE daemon
  /\ record' = None
  /\ Goto(s, "exit")
  /\ UNCHANGED <<lock, meta, beat, pidfile, code, wedged, stopping, slain, unlucky, kills>>

Exit(s) ==
  /\ At(s, "exit")
  /\ lock' = None
  /\ Goto(s, "gone")
  /\ UNCHANGED <<meta, beat, record, pidfile, code, daemon, wedged, stopping, slain, unlucky, kills>>

-----------------------------------------------------------------------------
(* What may go wrong within the bounds.                                    *)
MishapsLeft == (code - 1) + kills + Cardinality(wedged) < MaxMishaps

(* foldyard is updated.                                                    *)
Upgrade ==
  /\ code < MaxCode /\ MishapsLeft
  /\ code' = code + 1
  /\ UNCHANGED <<lock, meta, beat, record, pidfile, proc, daemon, wedged, stopping, slain, unlucky, kills>>

(* More than 30 s pass without a tick.                                     *)
Age ==
  /\ beat = "fresh"
  /\ ~\E s \in Supers \ wedged : proc[s].pc \in {"init", "serve"}
  /\ beat' = "old"
  /\ record' = None
  /\ UNCHANGED <<lock, meta, pidfile, code, proc, daemon, wedged, stopping, slain, unlucky, kills>>

(* A tick hangs: on an engine, a stop, a file system.                      *)
Wedge(s) ==
  /\ Cardinality(wedged) < MaxWedges /\ MishapsLeft
  /\ At(s, "serve") /\ s \notin wedged
  /\ wedged' = wedged \cup {s}
  /\ unlucky' = TRUE
  /\ UNCHANGED <<lock, meta, beat, record, pidfile, code, proc, daemon, stopping, slain, kills>>

(* SIGKILL: its daemon, in a session of its own, lives on.                 *)
Kill(p) ==
  /\ kills < MaxKills /\ MishapsLeft
  /\ kills' = kills + 1
  /\ Running(p)
  /\ proc' = [proc EXCEPT ![p] = Ends("gone")]
  /\ lock' = IF lock = p THEN None ELSE lock
  /\ slain' = slain \cup ({p} \cap Supers)
  /\ unlucky' = TRUE
  /\ UNCHANGED <<meta, beat, record, pidfile, code, daemon, wedged, stopping>>

Judging(p) == ReadMeta(p) \/ ReadAge(p) \/ Targets(p) \/ Term(p) \/ Wait(p) \/ Check(p) \/ Release(p)

LaunchStep(l) ==
  \/ Look(l) \/ Again(l) \/ ReadOld(l) \/ Pidfile(l) \/ Unlink(l) \/ Spawn(l) \/ Note(l)
  \/ Await(l) \/ ReadHolder(l) \/ Judge(l) \/ Poll(l) \/ Confirm(l)

BootStep(s) ==
  \/ Acquire(s) \/ Retry(s) \/ Truncate(s) \/ Stamp(s) \/ StampHeartbeat(s) \/ Boot(s)
  \/ LeaveLoop(s) \/ ShutDown(s) \/ Exit(s)

Next ==
  \/ \E l \in Launchers : Start(l) \/ LaunchStep(l)
  \/ \E s \in Supers : BootStep(s) \/ Tick(s) \/ Wedge(s)
  \/ \E p \in Procs : Judging(p) \/ Kill(p)
  \/ Upgrade \/ Age

Spec == Init /\ [][Next]_vars

Fairness ==
  /\ \A l \in Launchers : WF_vars(LaunchStep(l))
  /\ \A s \in Supers : WF_vars(BootStep(s)) /\ WF_vars(Tick(s))
  /\ \A p \in Procs : WF_vars(Judging(p))

LiveSpec == Spec /\ Fairness

-----------------------------------------------------------------------------
Places == {"off", "release", "look", "again", "old", "pidfile", "meta", "age", "targets", "term",
           "wait", "check", "unlink", "spawn", "note", "await", "holder", "judge", "poll",
           "confirm", "poll again", "ready", "unready", "stopped", "acquire", "retry", "gone"}
         \cup Holding

ProcStates == [pc : Places, then : Places, verb : Verbs \cup {"none", "main"}, runs : Codes,
               code : Codes \cup {0}, holder : Supers \cup {None}, targets : SUBSET Procs,
               seen : SUBSET Supers, alive : SUBSET Supers]

(* Every part of the state has its type.                                   *)
TypeOK ==
  /\ lock \in Procs \cup {None}
  /\ meta \in Stamps \cup {Empty}
  /\ beat \in {"none", "fresh", "old"}
  /\ record \in Supers \cup {None} /\ pidfile \in Supers \cup {None}
  /\ code \in Codes
  /\ proc \in [Procs -> ProcStates]
  /\ daemon \in Supers \cup {None}
  /\ wedged \subseteq Supers /\ stopping \subseteq Supers /\ slain \subseteq Supers
  /\ unlucky \in BOOLEAN
  /\ kills \in 0..MaxKills

(* ADR-0006 "exactly ONE supervisor per project": whatever starts, judges, *)
(* replaces and kills whatever, two never get past the lock.               *)
OneSupervisor ==
  \A s, t \in Supers : proc[s].pc \in Holding /\ proc[t].pc \in Holding => s = t

(* The daemon on the port is stopped by its own supervisor, or reaped once *)
(* that one is dead: no live proxy is ever pulled from under a box.        *)
OnlyOrphansReaped ==
  [][\A s \in Supers : daemon = s /\ daemon' # s => ~Running(s) \/ At(s, "shut")]_vars

(* ADR-0006 "A running supervisor is never interrupted between launches":  *)
(* one that served before the launch began is told to stop only if it runs *)
(* its fingerprint differs or it no longer ticks.                          *)
BouncedForCause ==
  \A p \in Procs : At(p, "term") /\ proc[p].verb \in {"up", "main"} =>
    \A s \in proc[p].targets \cap proc[p].seen :
      Healthy(s) => proc[s].code # proc[p].code

(* A readiness record outlives its supervisor only if that was killed.     *)
RecordOfTheLiving ==
  record # None => proc[record].pc \in {"serve", "shut"} \/ record \in slain

(* A launch that found or started a supervisor ends up with one that       *)
(* serves, unless a probe got in somebody's way, or a process was killed   *)
(* or hung meanwhile (or the model has no pid left).                       *)
Served == \E s \in Supers \ wedged : At(s, "serve")
OutOfPids == \E l \in Launchers : At(l, "spawn") /\ \A s \in Supers : ~At(s, "off")
LaunchServes ==
  \A l \in Launchers : At(l, "await") /\ ~unlucky ~> Served \/ unlucky \/ OutOfPids

(* readiness: "Only the CURRENT lock holder's record counts (a replaced    *)
(* supervisor's says nothing about its successor)": whose record makes a   *)
(* launch ready was alive when the launch found the lock held.             *)
ReadyMeansServed ==
  \A l \in Launchers :
    At(l, "judge") /\ record # None /\ record = proc[l].holder => record \in proc[l].alive

(* main stamps the heartbeat at once "so a concurrent launcher can't read  *)
(* a previous supervisor's lingering stale stamp and bounce this freshly-  *)
(* booted one during the boot window".                                     *)
FreshBootSpared ==
  \A p \in Procs : At(p, "term") /\ proc[p].verb \in {"up", "main"} =>
    \A s \in proc[p].targets \cap Supers :
      ~(proc[s].pc \in Booting /\ proc[s].runs = code)

(* _code_fingerprint: "Cheap identity of the RUNNING foldyard code": what  *)
(* a supervisor has stamped is what it runs.                               *)
StampTellsCode == \A s \in Supers : At(s, "serve") => meta.code = proc[s].runs

(* main: "a foldyard supervisor is already running and current for this    *)
(* project ...; leaving it in charge": there is one.                       *)
LeavesOneInCharge ==
  [][\A s \in Supers : At(s, "age") /\ proc'[s].pc = "gone" =>
       \E t \in Supers \ {s} : Running(t)]_vars

(* _bounce_holder: "Stop the current lock holder so a fresh supervisor can *)
(* take over": what it signals are supervisors.                            *)
OnlySupervisorsBounced ==
  \A p \in Procs : At(p, "term") => proc[p].targets \subseteq Supers
=============================================================================
