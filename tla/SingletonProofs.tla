-------------------------- MODULE SingletonProofs --------------------------
(***************************************************************************)
(* Proofs about module Singleton, for any number of `fy' runs, supervisors *)
(* and versions: at most one supervisor is ever past the lock, no live     *)
(* supervisor's daemon is reaped, one that serves is replaced only for a   *)
(* cause, and a readiness record outlives only one that was killed.        *)
(***************************************************************************)
EXTENDS Singleton, TLAPS

(* Whoever is past the lock, or still has to let go of it, holds it.       *)
LockOfTheHolder ==
  /\ \A s \in Supers : proc[s].pc \in Holding => lock = s
  /\ \A p \in Procs : At(p, "release") => lock = p

(* A verb that bounces without judging is no `up'; one that has started a  *)
(* supervisor knows its pid.                                               *)
Unjudged(p) ==
  /\ At(p, "look") => proc[p].verb \in Verbs
  /\ proc[p].pc \in {"again", "old"} => proc[p].verb = "restart"
  /\ At(p, "note") => proc[p].targets \cap Supers # {}
  /\ At(p, "release") => /\ proc[p].then \notin Holding \cup {"targets", "term", "release", "old", "look", "note"}
                         /\ proc[p].then = "again" => proc[p].verb = "restart"

(* Past its stamp, the lock file is the holder's; while it ticks, so is a  *)
(* fresh heartbeat.                                                        *)
Stamped(s) ==
  /\ proc[s].pc \in {"beat", "init", "serve", "shut", "exit"}
       => meta = [pid |-> s, code |-> proc[s].code] /\ meta \in Stamps
  /\ proc[s].pc \in {"init", "serve"} /\ s \notin wedged => beat = "fresh"

Beyond == {"serve", "shut", "exit", "gone"}

(* Whom a process saw serving, or whose tick hung, is not booting again.   *)
SeenServed ==
  /\ \A p \in Procs : \A s \in proc[p].seen : proc[s].pc \in Beyond
  /\ \A s \in wedged : proc[s].pc \in Beyond

(* A process that is about to bounce a supervisor has a cause.             *)
Cause(p) ==
  proc[p].pc \in {"targets", "term"} /\ proc[p].verb \in {"up", "main"} =>
    \A s \in proc[p].seen : Healthy(s) => proc[s].code # proc[p].code

(* The daemon on the port is that of one that serves or has died.          *)
DaemonOwned == daemon # None => proc[daemon].pc \in {"serve", "shut", "gone"}

Inv ==
  /\ TypeOK /\ LockOfTheHolder /\ SeenServed /\ DaemonOwned /\ RecordOfTheLiving
  /\ \A p \in Procs : Unjudged(p) /\ Cause(p)
  /\ \A s \in Supers : Stamped(s)

-----------------------------------------------------------------------------
(* Steps of one process outside the lock.                                  *)
Move(p) ==
  /\ proc[p].pc \notin Holding \cup Beyond /\ proc'[p].pc \notin Holding
  /\ \A q \in Procs \ {p} : proc'[q] = proc[q]
  /\ proc'[p].seen \subseteq proc[p].seen \cup {s \in Supers : Healthy(s)}
  /\ \/ lock' = lock /\ proc[p].pc # "release" /\ proc'[p].pc # "release"
     \/ lock = None /\ lock' = p
     \/ At(p, "release") /\ lock' = None /\ proc'[p].pc # "release"
  /\ UNCHANGED <<meta, beat, record, daemon, wedged, stopping, slain>>

(* Letting go of a probe is no place past the lock.                        *)
LEMMA ReleaseNotHolding == "release" \notin Holding \cup Ended /\ Holding \subseteq Places
BY DEF Holding, Booting, Ended, Places

(* Such a step keeps the invariant.                                        *)
LEMMA MoveInv ==
  ASSUME Inv, NEW p \in Procs, Move(p), TypeOK', Unjudged(p)', Cause(p)'
  PROVE Inv'
<1>0. p \in Supers \/ p \in Launchers
  BY DEF Procs
<1>1. \A s \in Supers : s \in Procs /\ s # None
  BY ProcessesAssumption DEF Procs
<1>2. p # None
  BY ProcessesAssumption DEF Procs
<1>3. \A s \in Supers : proc'[s].pc \in Holding => s # p /\ proc'[s] = proc[s]
  BY <1>1 DEF Move
<1>a. "serve" \in Holding /\ "serve" \in Beyond
  BY DEF Holding, Beyond
<1>b. \A s \in Supers : At(s, "serve")' => s # p /\ At(s, "serve") /\ proc'[s] = proc[s]
  BY <1>3, <1>a DEF At
<1>c. \A s \in Supers : proc[s].pc \in Beyond => s # p /\ proc'[s].pc \in Beyond
  BY <1>1 DEF Move
<1>4. LockOfTheHolder'
  <2>1. ASSUME NEW s \in Supers, proc'[s].pc \in Holding PROVE lock' = s
    <3>0. s # p /\ proc[s].pc \in Holding /\ s # None
      BY <1>1, <1>3, <2>1
    <3>1. lock = s /\ s # p /\ s # None
      BY <3>0 DEF Inv, LockOfTheHolder
    <3>2. ~At(p, "release")
      BY <3>1 DEF Inv, LockOfTheHolder
    <3> QED
      BY <3>1, <3>2 DEF Move
  <2>2. ASSUME NEW q \in Procs, proc'[q].pc = "release" PROVE lock' = q
    <3>1. CASE q = p
      BY <2>2, <3>1 DEF Move
    <3>2. CASE q # p
      <4>1. proc[q].pc = "release" /\ lock = q /\ q # None
        BY <2>2, <3>2, ProcessesAssumption DEF Move, Inv, LockOfTheHolder, At, Procs
      <4>2. ~At(p, "release")
        BY <3>2, <4>1 DEF Inv, LockOfTheHolder
      <4> QED
        BY <4>1, <4>2 DEF Move
    <3> QED
      BY <3>1, <3>2
  <2> QED
    BY <2>1, <2>2 DEF LockOfTheHolder, At
<1>5. SeenServed'
  <2>0. \A s \in wedged : proc'[s].pc \in Beyond
    BY <1>c DEF Inv, SeenServed, TypeOK
  <2> SUFFICES ASSUME NEW q \in Procs, NEW s \in proc'[q].seen PROVE proc'[s].pc \in Beyond
    BY <2>0 DEF SeenServed, Move
  <2>1. s \in proc[q].seen \/ (s \in Supers /\ Healthy(s))
    BY DEF Move
  <2>2. s \in Supers /\ proc[s].pc \in Beyond
    BY <2>1 DEF Inv, SeenServed, Healthy, At, Beyond, TypeOK, ProcStates
  <2> QED
    BY <2>2, <1>c
<1>6. DaemonOwned'
  <2> SUFFICES ASSUME daemon # None PROVE proc'[daemon].pc \in {"serve", "shut", "gone"}
    BY DEF DaemonOwned, Move
  <2>1. daemon \in Procs /\ proc[daemon].pc \in {"serve", "shut", "gone"}
    BY DEF Inv, DaemonOwned, TypeOK, Procs
  <2>2. daemon # p
    BY <2>1 DEF Move, Beyond
  <2> QED
    BY <2>1, <2>2 DEF Move
<1>7. RecordOfTheLiving'
  <2> SUFFICES ASSUME record # None
               PROVE proc'[record].pc \in {"serve", "shut"} \/ record \in slain
    BY DEF RecordOfTheLiving, Move
  <2>1. record \in Procs /\ (proc[record].pc \in {"serve", "shut"} \/ record \in slain)
    BY DEF Inv, RecordOfTheLiving, TypeOK, Procs
  <2>2. CASE proc[record].pc \in {"serve", "shut"}
    <3>1. record # p
      BY <2>2 DEF Move, Beyond
    <3> QED
      BY <2>1, <2>2, <3>1 DEF Move
  <2> QED
    BY <2>1, <2>2
<1>8. \A q \in Procs : Unjudged(q)' /\ Cause(q)'
  <2> SUFFICES ASSUME NEW q \in Procs, q # p PROVE Unjudged(q)' /\ Cause(q)'
    OBVIOUS
  <2>1. proc'[q] = proc[q]
    BY DEF Move
  <2>2. Unjudged(q)'
    BY <2>1 DEF Inv, Unjudged, At
  <2>3. Cause(q)'
    <3> SUFFICES ASSUME proc[q].pc \in {"targets", "term"}, proc[q].verb \in {"up", "main"},
                        NEW s \in proc[q].seen, Healthy(s)'
                 PROVE proc'[s].code # proc[q].code
      BY <2>1 DEF Cause
    <3>1. s \in Supers
      BY DEF Inv, TypeOK, ProcStates
    <3>2. Healthy(s) /\ proc'[s] = proc[s]
      BY <3>1, <1>b DEF Move, Healthy
    <3> QED
      BY <3>2 DEF Inv, Cause
  <2> QED
    BY <2>2, <2>3
<1>9. \A s \in Supers : Stamped(s)'
  <2> SUFFICES ASSUME NEW s \in Supers PROVE Stamped(s)'
    OBVIOUS
  <2>1. CASE s = p
    BY <2>1 DEF Move, Stamped, Holding, Booting
  <2>2. CASE s # p
    BY <1>1, <2>2 DEF Move, Stamped, Inv
  <2> QED
    BY <2>1, <2>2
<1> QED
  BY <1>4, <1>5, <1>6, <1>7, <1>8, <1>9 DEF Inv
-----------------------------------------------------------------------------
(* Every action keeps the types.                                           *)
LEMMA PlaceNames ==
  /\ Holding \subseteq Places /\ Ended \subseteq Places
  /\ {"release", "look", "again", "old", "pidfile", "meta", "age", "targets", "term", "wait",
      "check", "unlink", "spawn", "note", "await", "holder", "judge", "poll", "confirm",
      "poll again", "acquire", "retry"} \subseteq Places \ Ended
  /\ Holding \cap Ended = {}
BY DEF Holding, Booting, Ended, Places

(* A process that has ended is of the right type.                          *)
LEMMA OffType == \A pc \in Places : Ends(pc) \in ProcStates /\ Ends(pc).pc = pc /\ Ends(pc).seen = {}
                                   /\ Ends(pc).then = "off"
<1>1. "off" \in Places
  BY PlaceNames DEF Ended
<1> QED
  BY <1>1, BoundsAssumption DEF Ends, Off, ProcStates, Codes

(* So is one that goes on, ...                                             *)
LEMMA GotoType ==
  ASSUME TypeOK, NEW p \in Procs, NEW pc \in Places, Goto(p, pc)
  PROVE  /\ proc' \in [Procs -> ProcStates]
         /\ \A q \in Procs \ {p} : proc'[q] = proc[q]
         /\ proc'[p].pc = pc /\ proc'[p].then = "off" /\ proc'[p].seen \subseteq proc[p].seen
         /\ pc \notin Ended => proc'[p] = [proc[p] EXCEPT !.pc = pc, !.then = "off", !.alive = {}]
<1>1. "off" \in Places
  BY PlaceNames DEF Ended
<1>2. proc[p] \in ProcStates /\ proc \in [Procs -> ProcStates]
  BY DEF TypeOK
<1>3. [proc[p] EXCEPT !.pc = pc, !.then = "off", !.alive = {}] \in ProcStates
  BY <1>1, <1>2 DEF ProcStates
<1>4. CASE pc \in Ended
  BY <1>2, <1>4, OffType DEF Goto
<1>5. CASE pc \notin Ended
  BY <1>2, <1>3, <1>5 DEF Goto, ProcStates
<1> QED
  BY <1>4, <1>5

(* ... and one that tries the lock.                                        *)
LEMMA ProbeType ==
  ASSUME TypeOK, NEW p \in Procs, NEW free \in Places, NEW busy \in Places, Probe(p, free, busy)
  PROVE  /\ proc' \in [Procs -> ProcStates] /\ lock' \in Procs \cup {None}
         /\ \A q \in Procs \ {p} : proc'[q] = proc[q]
         /\ proc'[p].seen \subseteq proc[p].seen
         /\ \/ /\ lock = None /\ lock' = p
               /\ proc'[p] = [proc[p] EXCEPT !.pc = "release", !.then = free]
               /\ proc'[p].pc = "release" /\ proc'[p].then = free /\ proc'[p].verb = proc[p].verb
            \/ /\ lock # None /\ lock' = lock /\ proc'[p].pc = busy
               /\ busy \notin Ended => proc'[p].verb = proc[p].verb
<1>1. "release" \in Places
  BY PlaceNames
<1>2. proc[p] \in ProcStates /\ proc \in [Procs -> ProcStates] /\ lock \in Procs \cup {None}
  BY DEF TypeOK
<1>3. CASE lock = None
  <2>1. [proc[p] EXCEPT !.pc = "release", !.then = free] \in ProcStates
    BY <1>1, <1>2 DEF ProcStates
  <2>2. proc' = [proc EXCEPT ![p] = [proc[p] EXCEPT !.pc = "release", !.then = free]] /\ lock' = p
    BY <1>3 DEF Probe
  <2> QED
    BY <1>2, <1>3, <2>1, <2>2 DEF ProcStates
<1>4. CASE lock # None
  <2>1. lock' = lock /\ Goto(p, busy)
    BY <1>4 DEF Probe
  <2>2. busy \notin Ended => proc'[p].verb = proc[p].verb
    <3> SUFFICES ASSUME busy \notin Ended PROVE proc'[p].verb = proc[p].verb
      OBVIOUS
    <3>1. proc'[p] = [proc[p] EXCEPT !.pc = busy, !.then = "off", !.alive = {}]
      BY <2>1, GotoType
    <3> QED
      BY <3>1, <1>2 DEF ProcStates
  <2>3. /\ proc' \in [Procs -> ProcStates] /\ \A q \in Procs \ {p} : proc'[q] = proc[q]
        /\ proc'[p].pc = busy /\ proc'[p].seen \subseteq proc[p].seen
    BY <2>1, GotoType
  <2> QED
    BY <1>2, <1>4, <2>1, <2>2, <2>3
<1> QED
  BY <1>3, <1>4

-----------------------------------------------------------------------------
(* The steps of a process outside the lock, by how they change it: its new *)
(* state is r, ...                                                         *)
LEMMA UpdateMove ==
  ASSUME Inv, NEW p \in Procs, NEW r \in ProcStates, proc' = [proc EXCEPT ![p] = r],
         proc[p].pc \notin Holding \cup Beyond, r.pc \notin Holding,
         r.seen \subseteq proc[p].seen \cup {s \in Supers : Healthy(s)},
         \/ lock' = lock /\ proc[p].pc # "release" /\ r.pc # "release"
         \/ lock = None /\ lock' = p
         \/ At(p, "release") /\ lock' = None /\ r.pc # "release",
         UNCHANGED <<meta, beat, record, daemon, wedged, stopping, slain>>,
         pidfile' \in Supers \cup {None}, code' = code, kills' = kills, unlucky' \in BOOLEAN,
         r.pc = "look" => r.verb \in Verbs, r.pc # "note",
         r.pc \in {"again", "old"} => r.verb = "restart",
         r.pc = "release" => /\ r.then \notin Holding \cup {"targets", "term", "release", "old", "look", "note"}
                             /\ r.then = "again" => r.verb = "restart",
         r.pc \in {"targets", "term"} /\ r.verb \in {"up", "main"} =>
           \A s \in r.seen : Healthy(s) => proc[s].code # r.code
  PROVE  Inv'
<1>1. proc \in [Procs -> ProcStates]
  BY DEF Inv, TypeOK
<1>2. proc'[p] = r /\ \A q \in Procs \ {p} : proc'[q] = proc[q]
  BY <1>1
<1>3. Move(p)
  BY <1>2 DEF Move
<1>4. TypeOK'
  <2>1. proc' \in [Procs -> ProcStates]
    BY <1>1
  <2>2. lock' \in Procs \cup {None}
    BY DEF Inv, TypeOK
  <2>3. /\ meta' \in Stamps \cup {Empty} /\ beat' \in {"none", "fresh", "old"}
        /\ record' \in Supers \cup {None} /\ code' \in Codes /\ daemon' \in Supers \cup {None}
        /\ wedged' \subseteq Supers /\ stopping' \subseteq Supers /\ slain' \subseteq Supers
        /\ kills' \in 0..MaxKills
    BY DEF Inv, TypeOK
  <2> QED
    BY <2>1, <2>2, <2>3 DEF TypeOK
<1>5. Unjudged(p)'
  BY <1>2 DEF Unjudged, At
<1>6. Cause(p)'
  <2> SUFFICES ASSUME r.pc \in {"targets", "term"}, r.verb \in {"up", "main"},
                      NEW s \in r.seen, Healthy(s)'
               PROVE proc'[s].code # r.code
    BY <1>2 DEF Cause
  <2>1. s \in Supers
    BY DEF ProcStates
  <2>2. s # p /\ s \in Procs
    BY <1>2, <2>1 DEF Healthy, At, Procs
  <2>3. proc'[s] = proc[s]
    BY <1>2, <2>2
  <2>4. Healthy(s)
    BY <2>3 DEF Healthy, At
  <2> QED
    BY <2>3, <2>4
<1> QED
  BY <1>3, <1>4, <1>5, <1>6, MoveInv

(* ... it goes on to another place, ...                                    *)
LEMMA GotoMove ==
  ASSUME Inv, NEW p \in Procs, NEW pc \in Places, Goto(p, pc),
         proc[p].pc \notin Holding \cup Beyond, pc \notin Holding \cup {"release", "look", "note"},
         pc \in {"again", "old"} => proc[p].verb = "restart",
         pc \in {"targets", "term"} /\ proc[p].verb \in {"up", "main"} =>
           \A s \in proc[p].seen : Healthy(s) => proc[s].code # proc[p].code,
         \/ lock' = lock /\ proc[p].pc # "release"
         \/ At(p, "release") /\ lock' = None,
         UNCHANGED <<meta, beat, record, code, daemon, wedged, stopping, slain, kills>>,
         pidfile' \in Supers \cup {None}, unlucky' \in BOOLEAN
  PROVE  Inv'
<1> DEFINE r == IF pc \in Ended THEN Ends(pc) ELSE [proc[p] EXCEPT !.pc = pc, !.then = "off", !.alive = {}]
<1>1. proc[p] \in ProcStates
  BY DEF Inv, TypeOK
<1>2. "off" \in Places /\ {"again", "old", "targets", "term"} \cap Ended = {}
  BY PlaceNames DEF Ended
<1>3. proc' = [proc EXCEPT ![p] = r]
  BY DEF Goto
<1>4. CASE pc \in Ended
  <2>1. r \in ProcStates /\ r.pc = pc /\ r.seen = {}
    BY <1>4, OffType
  <2>2. pc \notin {"again", "old", "targets", "term"}
    BY <1>2, <1>4
  <2>3. pc \notin Holding /\ pc # "release" /\ pc # "look" /\ pc # "note"
    OBVIOUS
  <2> HIDE DEF r
  <2> QED
    BY <1>3, <2>1, <2>2, <2>3, UpdateMove
<1>5. CASE pc \notin Ended
  <2>1. r = [proc[p] EXCEPT !.pc = pc, !.then = "off", !.alive = {}]
    BY <1>5
  <2>2. /\ r \in ProcStates /\ r.pc = pc /\ r.seen = proc[p].seen
        /\ r.verb = proc[p].verb /\ r.code = proc[p].code
    BY <1>1, <1>2, <2>1 DEF ProcStates
  <2>3. pc \notin Holding /\ pc # "release" /\ pc # "look" /\ pc # "note"
    OBVIOUS
  <2> HIDE DEF r
  <2> QED
    BY <1>3, <2>2, <2>3, UpdateMove
<1> QED
  BY <1>4, <1>5

(* ... or it tries the lock.                                               *)
LEMMA ProbeMove ==
  ASSUME Inv, NEW p \in Procs, NEW free \in Places, NEW busy \in Places, Probe(p, free, busy),
         proc[p].pc \notin Holding \cup Beyond \cup {"release"},
         free \notin Holding \cup {"targets", "term", "release", "old", "look", "note"},
         free = "again" => proc[p].verb = "restart",
         busy \notin Holding \cup {"release", "look", "note", "again"},
         busy = "old" => proc[p].verb = "restart",
         busy \in {"targets", "term"} => proc[p].verb \notin {"up", "main"},
         unlucky' \in BOOLEAN
  PROVE  Inv'
<1>1. pidfile' \in Supers \cup {None}
  BY DEF Probe, Inv, TypeOK
<1>2. proc[p] \in ProcStates
  BY DEF Inv, TypeOK
<1>3. CASE lock = None
  <2> DEFINE r == [proc[p] EXCEPT !.pc = "release", !.then = free]
  <2>1. proc' = [proc EXCEPT ![p] = r] /\ lock' = p
    BY <1>3 DEF Probe
  <2>2. /\ r \in ProcStates /\ r.pc = "release" /\ r.then = free /\ r.seen = proc[p].seen
        /\ r.verb = proc[p].verb
    BY <1>2, PlaceNames DEF ProcStates
  <2>3. "release" \notin Holding
    BY ReleaseNotHolding
  <2>4. UNCHANGED <<meta, beat, record, code, daemon, wedged, stopping, slain, kills>>
    BY DEF Probe
  <2> HIDE DEF r
  <2> QED
    BY <1>1, <1>3, <2>1, <2>2, <2>3, <2>4, UpdateMove
<1>4. CASE lock # None
  <2>1. Goto(p, busy) /\ lock' = lock
    BY <1>4 DEF Probe
  <2>2. UNCHANGED <<meta, beat, record, code, daemon, wedged, stopping, slain, kills>>
    BY DEF Probe
  <2> QED
    BY <1>1, <2>1, <2>2, GotoMove
<1> QED
  BY <1>3, <1>4

-----------------------------------------------------------------------------
(* The verbs' own steps, starting a supervisor aside.                      *)
LEMMA StartInv ==
  ASSUME Inv, NEW l \in Launchers, Start(l)
  PROVE  Inv'
<1>1. PICK verb \in Verbs :
        /\ proc' = [proc EXCEPT ![l] = [Off EXCEPT !.pc = "look", !.verb = verb,
                                                   !.seen = {s \in Supers : Healthy(s)}]]
        /\ unlucky' = (unlucky \/ verb = "stop")
  BY DEF Start
<1> DEFINE r == [Off EXCEPT !.pc = "look", !.verb = verb,
                            !.seen = {s \in Supers : Healthy(s)}]
<1>2. /\ r \in ProcStates /\ r.pc = "look" /\ r.verb = verb
      /\ r.seen = {s \in Supers : Healthy(s)}
  <2>1. Off \in ProcStates
    <3>1. "off" \in Places
      BY PlaceNames DEF Ended
    <3> QED
      BY <3>1, BoundsAssumption DEF Off, ProcStates, Codes
  <2>2. "look" \in Places /\ code \in Codes
    BY PlaceNames DEF Inv, TypeOK
  <2> QED
    BY <2>1, <2>2 DEF ProcStates
<1>4. l \in Procs /\ proc[l].pc = "off"
  BY DEF Procs, Start, At
<1>5. /\ proc[l].pc \notin Holding \cup Beyond /\ proc[l].pc # "release"
      /\ "look" \notin Holding
  BY <1>4 DEF Holding, Booting, Beyond
<1>6. unlucky' \in BOOLEAN /\ pidfile' \in Supers \cup {None}
  <2>1. unlucky' \in BOOLEAN
    BY <1>1
  <2> QED
    BY <2>1 DEF Start, Inv, TypeOK
<1>7. UNCHANGED <<lock, meta, beat, record, code, daemon, wedged, stopping, slain, kills>>
  BY DEF Start
<1>8. proc' = [proc EXCEPT ![l] = r]
  BY <1>1
<1> HIDE DEF r
<1> QED
  BY <1>2, <1>4, <1>5, <1>6, <1>7, <1>8, UpdateMove

(* The steps of a verb keep the invariant.                                 *)
LEMMA LaunchInv ==
  ASSUME Inv, NEW l \in Launchers, LaunchStep(l), ~Spawn(l)
  PROVE  Inv'
<1>0. l \in Procs /\ l \notin Supers
  BY ProcessesAssumption DEF Procs
<1>1. proc[l] \in ProcStates /\ unlucky \in BOOLEAN /\ pidfile \in Supers \cup {None}
  <2>1. unlucky \in BOOLEAN
    BY Zenon DEF Inv, TypeOK
  <2> QED
    BY <1>0, <2>1 DEF Inv, TypeOK
<1>2. UNCHANGED unlucky => unlucky' \in BOOLEAN
  BY <1>1
<1>3. CASE Look(l)
  <2>1. At(l, "look") /\ proc[l].verb \in Verbs
    BY <1>0, <1>3 DEF Look, Inv, Unjudged
  <2>2. \/ proc[l].verb = "up" /\ Probe(l, "pidfile", "meta")
        \/ proc[l].verb = "restart" /\ Probe(l, "again", "old")
        \/ proc[l].verb = "stop" /\ Probe(l, "unlink", "targets")
    BY <1>3 DEF Look
  <2>3. /\ "look" \notin Holding \cup Beyond \cup {"release"}
        /\ {"pidfile", "meta", "again", "old", "unlink", "targets"} \cap Holding = {}
    BY DEF Holding, Booting, Beyond
  <2>4. unlucky' \in BOOLEAN
    BY <1>2, <1>3 DEF Look
  <2>5. {"pidfile", "meta", "again", "old", "unlink", "targets"} \subseteq Places
    BY PlaceNames
  <2> QED
    BY <1>0, <2>1, <2>2, <2>3, <2>4, <2>5, ProbeMove DEF At
<1>4. CASE Again(l)
  <2>1. proc[l].pc = "again" /\ proc[l].verb = "restart" /\ Probe(l, "unlink", "targets")
    BY <1>0, <1>4 DEF Again, At, Inv, Unjudged
  <2>2. /\ "again" \notin Holding \cup Beyond \cup {"release"}
        /\ {"unlink", "targets"} \cap Holding = {}
    BY DEF Holding, Booting, Beyond
  <2>3. unlucky' \in BOOLEAN
    BY <1>2, <1>4 DEF Again
  <2> QED
    BY <1>0, <2>1, <2>2, <2>3, PlaceNames, ProbeMove
<1>5. CASE Confirm(l)
  <2>1. proc[l].pc \in {"confirm", "poll again"} /\ (Probe(l, "poll", "ready") \/ Probe(l, "poll", "poll"))
    BY <1>5 DEF Confirm, At
  <2>2. {"confirm", "poll again"} \cap (Holding \cup Beyond \cup {"release"}) = {}
        /\ {"poll", "ready"} \cap Holding = {}
    BY DEF Holding, Booting, Beyond
  <2>3. unlucky' \in BOOLEAN
    BY <1>2, <1>5 DEF Confirm
  <2>4. "poll" \in Places /\ "ready" \in Places
    BY PlaceNames DEF Ended
  <2> QED
    BY <1>0, <2>1, <2>2, <2>3, <2>4, ProbeMove
<1>6. CASE Pidfile(l) \/ Unlink(l) \/ Note(l) \/ Judge(l) \/ Poll(l)
  <2> DEFINE To == {"await", "spawn", "stopped", "poll", "ready", "unready", "confirm", "poll again"}
  <2>1. /\ To \subseteq Places
        /\ To \cap (Holding \cup {"release", "look", "note", "again", "old", "targets", "term"}) = {}
    BY DEF Places, Holding, Booting
  <2>2. \E pc \in To : Goto(l, pc)
    BY <1>6 DEF Pidfile, Unlink, Note, Judge, Poll
  <2>3. proc[l].pc \in {"pidfile", "unlink", "note", "judge", "poll"}
    BY <1>6 DEF Pidfile, Unlink, Note, Judge, Poll, At
  <2>4. proc[l].pc \notin Holding \cup Beyond \cup {"release"}
    BY <2>3 DEF Holding, Booting, Beyond
  <2>5. UNCHANGED <<lock, meta, beat, record, code, daemon, wedged, stopping, slain, kills, unlucky>>
    BY <1>6 DEF Pidfile, Unlink, Note, Judge, Poll
  <2>6. pidfile' \in Supers \cup {None}
    <3>1. CASE Note(l)
      <4>1. PICK s \in Supers : s \in proc[l].targets
        BY <1>0, <3>1 DEF Note, Inv, Unjudged
      <4> QED
        BY <3>1, <4>1 DEF Note
    <3> QED
      BY <1>1, <1>6, <3>1 DEF Pidfile, Unlink, Judge, Poll
  <2> HIDE DEF To
  <2> QED
    BY <1>0, <1>2, <2>1, <2>2, <2>4, <2>5, <2>6, GotoMove
<1>7. CASE ReadOld(l)
  <2>1. proc[l].pc = "old" /\ proc[l].verb = "restart"
    BY <1>0, <1>7 DEF ReadOld, At, Inv, Unjudged
  <2>2. "old" \notin Holding \cup Beyond \cup {"release"} /\ {"again", "targets"} \cap Holding = {}
    BY DEF Holding, Booting, Beyond
  <2>3. PICK r \in ProcStates : /\ proc' = [proc EXCEPT ![l] = r] /\ r.pc \in {"again", "targets"}
                                /\ r.verb = "restart" /\ r.seen = proc[l].seen
    <3>1. CASE meta = Empty
      <4>1. [proc[l] EXCEPT !.pc = "again"] \in ProcStates
        BY <1>1, PlaceNames DEF ProcStates
      <4>2. proc' = [proc EXCEPT ![l] = [proc[l] EXCEPT !.pc = "again"]]
        BY <1>7, <3>1 DEF ReadOld
      <4> QED
        BY <1>1, <2>1, <4>1, <4>2 DEF ProcStates
    <3>2. CASE meta # Empty
      <4>1. meta.pid \in Supers
        BY <3>2 DEF Inv, TypeOK, Stamps
      <4>2. [proc[l] EXCEPT !.pc = "targets", !.holder = meta.pid] \in ProcStates
        BY <1>1, <4>1, PlaceNames DEF ProcStates
      <4>3. proc' = [proc EXCEPT ![l] = [proc[l] EXCEPT !.pc = "targets", !.holder = meta.pid]]
        BY <1>7, <3>2 DEF ReadOld
      <4> QED
        BY <1>1, <2>1, <4>2, <4>3 DEF ProcStates
    <3> QED
      BY <3>1, <3>2
  <2>4. UNCHANGED <<lock, meta, beat, record, pidfile, code, daemon, wedged, stopping, slain, unlucky, kills>>
    BY <1>7 DEF ReadOld
  <2> QED
    BY <1>0, <1>1, <1>2, <2>1, <2>2, <2>3, <2>4, UpdateMove
<1>8. CASE Await(l)
  <2>1. proc[l].pc = "await"
    BY <1>8 DEF Await, At
  <2>2. "await" \notin Holding \cup Beyond \cup {"release"} /\ {"release", "holder"} \cap Holding = {}
    BY DEF Holding, Booting, Beyond
  <2>3. "await" \notin Holding \cup {"targets", "term", "release", "old", "look", "note"}
    BY DEF Holding, Booting
  <2>4. UNCHANGED <<meta, beat, record, pidfile, code, daemon, wedged, stopping, slain, unlucky, kills>>
    BY <1>8 DEF Await
  <2>5. CASE lock = None
    <3> DEFINE r == [proc[l] EXCEPT !.pc = "release", !.then = "await"]
    <3>1. r \in ProcStates /\ r.pc = "release" /\ r.then = "await" /\ r.seen = proc[l].seen
      BY <1>1, PlaceNames DEF ProcStates
    <3>2. proc' = [proc EXCEPT ![l] = r] /\ lock' = l
      BY <1>8, <2>5 DEF Await
    <3> HIDE DEF r
    <3> QED
      BY <1>0, <1>1, <1>2, <2>1, <2>2, <2>3, <2>4, <2>5, <3>1, <3>2, UpdateMove
  <2>6. CASE lock # None
    <3> DEFINE r == [proc[l] EXCEPT !.pc = "holder", !.alive = {s \in Supers : Running(s)}]
    <3>1. r \in ProcStates /\ r.pc = "holder" /\ r.seen = proc[l].seen
      BY <1>1, PlaceNames DEF ProcStates
    <3>2. proc' = [proc EXCEPT ![l] = r] /\ lock' = lock
      BY <1>8, <2>6 DEF Await
    <3> HIDE DEF r
    <3> QED
      BY <1>0, <1>1, <1>2, <2>1, <2>2, <2>4, <3>1, <3>2, UpdateMove
  <2> QED
    BY <2>5, <2>6
<1>9. CASE ReadHolder(l)
  <2> DEFINE r == [proc[l] EXCEPT !.pc = "judge", !.holder = IF meta = Empty THEN None ELSE meta.pid]
  <2>1. proc[l].pc = "holder" /\ proc' = [proc EXCEPT ![l] = r]
    BY <1>9 DEF ReadHolder, At
  <2>2. "holder" \notin Holding \cup Beyond \cup {"release"} /\ "judge" \notin Holding
    BY DEF Holding, Booting, Beyond
  <2>3. (IF meta = Empty THEN None ELSE meta.pid) \in Supers \cup {None}
    BY DEF Inv, TypeOK, Stamps
  <2>4. r \in ProcStates /\ r.pc = "judge" /\ r.seen = proc[l].seen
    BY <1>1, <2>3, PlaceNames DEF ProcStates
  <2>5. UNCHANGED <<lock, meta, beat, record, pidfile, code, daemon, wedged, stopping, slain, unlucky, kills>>
    BY <1>9 DEF ReadHolder
  <2> HIDE DEF r
  <2> QED
    BY <1>0, <1>1, <1>2, <2>1, <2>2, <2>4, <2>5, UpdateMove
<1> QED
  BY <1>3, <1>4, <1>5, <1>6, <1>7, <1>8, <1>9 DEF LaunchStep

-----------------------------------------------------------------------------
(* Judging the holder: a supervisor that serves has stamped the lock file  *)
(* and, unless its tick hangs, keeps the heartbeat fresh.                  *)
LEMMA JudgeInv ==
  ASSUME Inv, NEW p \in Procs, ReadMeta(p) \/ ReadAge(p) \/ Targets(p) \/ Check(p) \/ Release(p)
  PROVE  Inv'
<1>1. /\ proc[p] \in ProcStates /\ unlucky \in BOOLEAN /\ pidfile \in Supers \cup {None}
      /\ \A q \in Procs : proc[q].seen \subseteq Supers
  <2>1. unlucky \in BOOLEAN
    BY Zenon DEF Inv, TypeOK
  <2> QED
    BY <2>1 DEF Inv, TypeOK, ProcStates
<1>2. UNCHANGED unlucky => unlucky' \in BOOLEAN
  BY <1>1
<1>3. {"gone", "await", "retry", "spawn", "unlink", "unready"} \subseteq Places
  BY DEF Places
<1>4. {"gone", "await", "retry", "spawn", "unlink", "unready", "targets", "age", "check", "term"}
      \cap (Holding \cup {"release", "look", "note", "again", "old"}) = {}
  BY DEF Holding, Booting
<1>5. {"meta", "age", "targets", "check", "release"} \cap (Holding \cup Beyond) = {}
  BY DEF Holding, Booting, Beyond
<1>6. \A s \in Supers : Healthy(s) => /\ meta = [pid |-> s, code |-> proc[s].code] /\ meta \in Stamps
                                    /\ beat = "fresh"
  BY DEF Healthy, At, Inv, Stamped
<1>7. CASE ReadMeta(p)
  <2>1. proc[p].pc = "meta"
    BY <1>7 DEF ReadMeta, At
  <2>2. UNCHANGED <<lock, meta, beat, record, pidfile, code, daemon, wedged, stopping, slain, unlucky, kills>>
    BY <1>7 DEF ReadMeta
  <2> DEFINE c == IF meta = Empty THEN proc[p].code ELSE Fingerprint(p)
             to == IF Outdated(p) THEN "targets" ELSE "age"
             r == [proc[p] EXCEPT !.code = c, !.pc = to]
  <2>3. proc' = [proc EXCEPT ![p] = r]
    BY <1>7 DEF ReadMeta
  <2>4. c \in Codes \cup {0} /\ to \in {"targets", "age"}
    BY <1>1 DEF Fingerprint, ProcStates, Inv, TypeOK
  <2>5. ASSUME to = "targets", NEW s \in proc[p].seen, Healthy(s) PROVE proc[s].code # c
    <3>1. meta = [pid |-> s, code |-> proc[s].code] /\ meta \in Stamps
      BY <1>1, <1>6, <2>5
    <3>2. Outdated(p)
      BY <2>5
    <3> QED
      BY <3>1, <3>2, EmptyAssumption DEF Outdated
  <2> HIDE DEF c, to
  <2>6. /\ r \in ProcStates /\ r.pc = to /\ r.seen = proc[p].seen
        /\ r.verb = proc[p].verb /\ r.code = c
    <3>1. to \in Places
      BY <2>4, PlaceNames
    <3> QED
      BY <1>1, <2>4, <3>1 DEF ProcStates
  <2> HIDE DEF r
  <2> QED
    BY <1>1, <1>2, <1>4, <1>5, <2>1, <2>2, <2>3, <2>4, <2>5, <2>6, UpdateMove
<1>8. CASE ReadAge(p)
  <2>1. proc[p].pc = "age"
    BY <1>8 DEF ReadAge, At
  <2>2. UNCHANGED <<lock, meta, beat, record, pidfile, code, daemon, wedged, stopping, slain, unlucky, kills>>
    BY <1>8 DEF ReadAge
  <2>3. CASE beat = "old"
    <3>1. \A s \in proc[p].seen : ~Healthy(s)
      BY <1>1, <1>6, <2>3
    <3>2. Goto(p, "targets")
      BY <1>8, <2>3 DEF ReadAge
    <3> QED
      BY <1>1, <1>2, <1>4, <1>5, <2>1, <2>2, <3>1, <3>2, PlaceNames, GotoMove
  <2>4. CASE beat # "old"
    <3>1. Goto(p, "gone") \/ Goto(p, "await")
      BY <1>8, <2>4 DEF ReadAge, Current
    <3> QED
      BY <1>1, <1>2, <1>3, <1>4, <1>5, <2>1, <2>2, <3>1, GotoMove
  <2> QED
    BY <2>3, <2>4
<1>9. CASE Targets(p)
  <2>1. proc[p].pc = "targets"
    BY <1>9 DEF Targets, At
  <2>2. UNCHANGED <<lock, meta, beat, record, pidfile, code, daemon, wedged, stopping, slain, unlucky, kills>>
    BY <1>9 DEF Targets
  <2> DEFINE pids == IF meta # Empty /\ meta.pid # p /\ Running(meta.pid) THEN {meta.pid}
                     ELSE {lock} \ {None, p}
             to == IF pids = {} THEN "check" ELSE "term"
             r == [proc[p] EXCEPT !.targets = pids, !.pc = to]
  <2>3. proc' = [proc EXCEPT ![p] = r]
    BY <1>9 DEF Targets
  <2>4. pids \subseteq Procs
    BY DEF Inv, TypeOK, Stamps, Procs
  <2>5. to \in {"check", "term"}
    OBVIOUS
  <2> HIDE DEF pids, to
  <2>6. /\ r \in ProcStates /\ r.pc \in {"check", "term"} /\ r.seen = proc[p].seen
        /\ r.verb = proc[p].verb /\ r.code = proc[p].code
    BY <1>1, <2>4, <2>5, PlaceNames DEF ProcStates
  <2> HIDE DEF r
  <2>7. proc[p].verb \in {"up", "main"} =>
          \A s \in proc[p].seen : Healthy(s) => proc[s].code # proc[p].code
    BY <2>1 DEF Inv, Cause
  <2> QED
    BY <1>1, <1>2, <1>4, <1>5, <2>1, <2>2, <2>3, <2>6, <2>7, UpdateMove
<1>10. CASE Check(p)
  <2>1. proc[p].pc = "check" /\ Probe(p, AfterBounce(p), GiveUp(p))
    BY <1>10 DEF Check, At
  <2>2. unlucky' \in BOOLEAN
    BY <1>10 DEF Check
  <2>3. /\ AfterBounce(p) \in {"retry", "spawn", "unlink"}
        /\ GiveUp(p) \in {"gone", "await", "unready"}
    BY DEF AfterBounce, GiveUp
  <2> QED
    BY <1>3, <1>4, <1>5, <2>1, <2>2, <2>3, ProbeMove
<1>11. CASE Release(p)
  <2>1. At(p, "release") /\ proc[p].pc = "release" /\ lock' = None /\ Goto(p, proc[p].then)
    BY <1>11 DEF Release, At
  <2>2. UNCHANGED <<meta, beat, record, pidfile, code, daemon, wedged, stopping, slain, unlucky, kills>>
    BY <1>11 DEF Release
  <2>3. /\ proc[p].then \notin Holding \cup {"targets", "term", "release", "old", "look", "note"}
        /\ proc[p].then = "again" => proc[p].verb = "restart"
    BY <2>1 DEF Inv, Unjudged
  <2>4. proc[p].then \in Places
    BY <1>1 DEF ProcStates
  <2> QED
    BY <1>1, <1>2, <1>5, <2>1, <2>2, <2>3, <2>4, GotoMove
<1> QED
  BY <1>7, <1>8, <1>9, <1>10, <1>11

(* Processes die, whatever they hold, and one that waits for it goes on.   *)
LEMMA DeathInv ==
  ASSUME Inv, TypeOK', NEW D \in SUBSET Procs,
         \A q \in D : proc'[q] = Ends("gone"),
         \A q \in Procs \ D :
           \/ proc'[q] = proc[q]
           \/ /\ proc[q].pc \in {"term", "wait"} /\ proc'[q].pc \in {"wait", "check"}
              /\ proc'[q].seen = proc[q].seen,
         lock' = IF lock \in D THEN None ELSE lock,
         slain \subseteq slain', stopping \subseteq stopping',
         \A s \in D \cap Supers : proc[s].pc \in {"serve", "shut"} => s \in slain',
         UNCHANGED <<meta, beat, record, daemon, wedged>>
  PROVE  Inv'
<1>1. "gone" \in Places /\ "gone" \notin Holding \cup {"release"} /\ "gone" \in Beyond
  BY DEF Places, Holding, Booting, Beyond
<1>2. \A q \in D : proc'[q].pc = "gone" /\ proc'[q].seen = {}
  BY <1>1, OffType
<1>3. {"term", "wait", "check"} \cap (Holding \cup Beyond \cup {"release"}) = {}
  BY DEF Holding, Booting, Beyond
<1>4. \A q \in Procs : proc'[q].pc \in Holding \cup {"release", "note", "again", "old", "look", "targets", "term", "serve"}
        => q \notin D /\ proc'[q] = proc[q]
  BY <1>1, <1>2, <1>3
<1>5. \A q \in Procs : proc[q].pc \in Beyond => proc'[q].pc \in Beyond
  BY <1>1, <1>2, <1>3
<1>6. Supers \subseteq Procs
  BY DEF Procs
<1>7. LockOfTheHolder'
  BY <1>4, <1>6 DEF Inv, LockOfTheHolder, At
<1>8. SeenServed'
  <2>0. \A s \in wedged : proc'[s].pc \in Beyond
    BY <1>5, <1>6 DEF Inv, SeenServed, TypeOK
  <2> SUFFICES ASSUME NEW q \in Procs, NEW s \in proc'[q].seen PROVE proc'[s].pc \in Beyond
    BY <2>0 DEF SeenServed
  <2>1. s \in proc[q].seen
    BY <1>2
  <2>2. proc[s].pc \in Beyond /\ s \in Procs
    BY <1>6, <2>1 DEF Inv, SeenServed, TypeOK, ProcStates
  <2> QED
    BY <1>5, <2>2
<1>9. \A q \in Procs : proc[q].pc \in {"serve", "shut", "gone"}
        => q \in D \/ proc'[q] = proc[q]
  OBVIOUS
<1>10. DaemonOwned'
  <2> SUFFICES ASSUME daemon # None PROVE proc'[daemon].pc \in {"serve", "shut", "gone"}
    BY DEF DaemonOwned
  <2>1. daemon \in Procs /\ proc[daemon].pc \in {"serve", "shut", "gone"}
    BY <1>6 DEF Inv, DaemonOwned, TypeOK
  <2> QED
    BY <1>2, <1>9, <2>1
<1>11. RecordOfTheLiving'
  <2> SUFFICES ASSUME record # None
               PROVE proc'[record].pc \in {"serve", "shut"} \/ record \in slain'
    BY DEF RecordOfTheLiving
  <2>1. /\ record \in Procs /\ record \in Supers
        /\ proc[record].pc \in {"serve", "shut"} \/ record \in slain
    BY <1>6 DEF Inv, RecordOfTheLiving, TypeOK
  <2> QED
    BY <1>9, <2>1
<1>12. ASSUME NEW q \in Procs PROVE Unjudged(q)' /\ Cause(q)'
  <2>1. Unjudged(q)'
    BY <1>4 DEF Inv, Unjudged, At
  <2>2. Cause(q)'
    <3> SUFFICES ASSUME proc'[q].pc \in {"targets", "term"}, proc'[q].verb \in {"up", "main"},
                        NEW s \in proc'[q].seen, Healthy(s)'
                 PROVE proc'[s].code # proc'[q].code
      BY DEF Cause
    <3>1. proc'[q] = proc[q]
      BY <1>4
    <3>2. s \in Procs
      BY <1>6, <3>1 DEF Inv, TypeOK, ProcStates
    <3>3. proc'[s] = proc[s] /\ Healthy(s)
      BY <1>4, <3>2 DEF Healthy, At
    <3> QED
      BY <3>1, <3>3 DEF Inv, Cause
  <2> QED
    BY <2>1, <2>2
<1>13. ASSUME NEW s \in Supers PROVE Stamped(s)'
  <2>1. proc'[s].pc \in {"beat", "init", "serve", "shut", "exit"} => proc'[s] = proc[s]
    BY <1>4, <1>6 DEF Holding, Booting
  <2> QED
    BY <2>1 DEF Inv, Stamped
<1> QED
  BY <1>7, <1>8, <1>10, <1>11, <1>12, <1>13 DEF Inv

(* What Die does to the processes is of the right type.                    *)
LEMMA DieType ==
  ASSUME Inv, NEW p \in Procs, NEW pc \in {"wait", "check"}, proc[p].pc \in {"term", "wait"},
         NEW D, D \subseteq Procs, Die(D, [proc EXCEPT ![p].pc = pc])
  PROVE  /\ proc' \in [Procs -> ProcStates] /\ lock' \in Procs \cup {None} /\ unlucky' \in BOOLEAN
         /\ lock' = IF lock \in D THEN None ELSE lock
         /\ \A q \in D : proc'[q] = Ends("gone")
         /\ \A q \in Procs \ D :
              \/ proc'[q] = proc[q]
              \/ /\ proc[q].pc \in {"term", "wait"} /\ proc'[q].pc \in {"wait", "check"}
                 /\ proc'[q].seen = proc[q].seen
<1> DEFINE r == [proc[p] EXCEPT !.pc = pc]
           moved == [proc EXCEPT ![p] = r]
<1>1. proc \in [Procs -> ProcStates] /\ lock \in Procs \cup {None}
  BY DEF Inv, TypeOK
<1>2. r \in ProcStates /\ r.pc = pc /\ r.seen = proc[p].seen
  <2>1. pc \in Places
    BY PlaceNames
  <2>2. proc[p] \in ProcStates
    BY <1>1
  <2> QED
    BY <2>1, <2>2 DEF ProcStates
<1>3. proc' = [q \in Procs |-> IF q \in D THEN Ends("gone") ELSE moved[q]]
  BY DEF Die
<1>4. unlucky' \in BOOLEAN /\ lock' = IF lock \in D THEN None ELSE lock
  BY DEF Die
<1>5. Ends("gone") \in ProcStates
  BY OffType, PlaceNames DEF Ended
<1> HIDE DEF r
<1>6. moved \in [Procs -> ProcStates] /\ moved[p] = r /\ \A q \in Procs \ {p} : moved[q] = proc[q]
  BY <1>1, <1>2
<1> HIDE DEF moved
<1> QED
  BY <1>1, <1>2, <1>3, <1>4, <1>5, <1>6

(* SIGTERM kills only what has no handler for it.                          *)
LEMMA TermInv ==
  ASSUME Inv, NEW p \in Procs, Term(p)
  PROVE  Inv'
<1> DEFINE hit == {q \in proc[p].targets : Running(q)}
           dying == {q \in hit : ~Handles(q)}
<1>1. /\ proc[p].pc = "term" /\ Die(dying, [proc EXCEPT ![p].pc = "wait"])
      /\ stopping' = stopping \cup {q \in hit : Handles(q)}
      /\ UNCHANGED <<meta, beat, record, pidfile, code, daemon, wedged, slain, kills>>
  BY DEF Term, At
<1>2. dying \subseteq Procs
  BY DEF Inv, TypeOK, ProcStates
<1>3. stopping' \subseteq Supers /\ stopping \subseteq stopping'
  BY <1>1 DEF Inv, TypeOK, Handles
<1>4. \A s \in dying \cap Supers : proc[s].pc \notin {"serve", "shut"}
  BY DEF Handles
<1> HIDE DEF dying
<1>5. /\ proc' \in [Procs -> ProcStates] /\ lock' \in Procs \cup {None} /\ unlucky' \in BOOLEAN
      /\ lock' = IF lock \in dying THEN None ELSE lock
      /\ \A q \in dying : proc'[q] = Ends("gone")
      /\ \A q \in Procs \ dying :
           \/ proc'[q] = proc[q]
           \/ /\ proc[q].pc \in {"term", "wait"} /\ proc'[q].pc \in {"wait", "check"}
              /\ proc'[q].seen = proc[q].seen
  BY <1>1, <1>2, DieType
<1>6. TypeOK'
  <2>1. /\ meta' \in Stamps \cup {Empty} /\ beat' \in {"none", "fresh", "old"}
        /\ record' \in Supers \cup {None} /\ pidfile' \in Supers \cup {None}
        /\ code' \in Codes /\ daemon' \in Supers \cup {None}
        /\ wedged' \subseteq Supers /\ slain' \subseteq Supers /\ kills' \in 0..MaxKills
    BY <1>1 DEF Inv, TypeOK
  <2> QED
    BY <1>3, <1>5, <2>1 DEF TypeOK
<1> QED
  BY <1>1, <1>2, <1>3, <1>4, <1>5, <1>6, DeathInv

(* SIGKILL after 20 s, or the lock seen free.                              *)
LEMMA WaitInv ==
  ASSUME Inv, NEW p \in Procs, Wait(p)
  PROVE  Inv'
<1>1. proc[p].pc = "wait"
  BY DEF Wait, At
<1>2. CASE Probe(p, "check", "check") /\ UNCHANGED unlucky
  <2>1. unlucky \in BOOLEAN
    BY Zenon DEF Inv, TypeOK
  <2>2. "wait" \notin Holding \cup Beyond \cup {"release"} /\ "check" \notin Holding
    BY DEF Holding, Booting, Beyond
  <2> QED
    BY <1>1, <1>2, <2>1, <2>2, PlaceNames, ProbeMove
<1>3. CASE ~(Probe(p, "check", "check") /\ UNCHANGED unlucky)
  <2> DEFINE hit == {q \in proc[p].targets : Running(q)}
  <2>1. /\ Die(hit, [proc EXCEPT ![p].pc = "check"])
        /\ slain' = slain \cup (hit \cap Supers)
        /\ UNCHANGED <<meta, beat, record, pidfile, code, daemon, wedged, stopping, kills>>
    BY <1>3 DEF Wait
  <2>2. hit \subseteq Procs
    BY DEF Inv, TypeOK, ProcStates
  <2> HIDE DEF hit
  <2>3. /\ proc' \in [Procs -> ProcStates] /\ lock' \in Procs \cup {None} /\ unlucky' \in BOOLEAN
        /\ lock' = IF lock \in hit THEN None ELSE lock
        /\ \A q \in hit : proc'[q] = Ends("gone")
        /\ \A q \in Procs \ hit :
             \/ proc'[q] = proc[q]
             \/ /\ proc[q].pc \in {"term", "wait"} /\ proc'[q].pc \in {"wait", "check"}
                /\ proc'[q].seen = proc[q].seen
    BY <1>1, <2>1, <2>2, DieType
  <2>4. TypeOK'
    <3>1. /\ meta' \in Stamps \cup {Empty} /\ beat' \in {"none", "fresh", "old"}
          /\ record' \in Supers \cup {None} /\ pidfile' \in Supers \cup {None}
          /\ code' \in Codes /\ daemon' \in Supers \cup {None} /\ stopping' \subseteq Supers
          /\ wedged' \subseteq Supers /\ slain' \subseteq Supers /\ kills' \in 0..MaxKills
      BY <2>1 DEF Inv, TypeOK
    <3> QED
      BY <2>3, <3>1 DEF TypeOK
  <2> QED
    BY <2>1, <2>2, <2>3, <2>4, DeathInv
<1> QED
  BY <1>2, <1>3

(* Any process may be killed at any time.                                  *)
LEMMA KillInv ==
  ASSUME Inv, NEW p \in Procs, Kill(p)
  PROVE  Inv'
<1>1. proc' = [proc EXCEPT ![p] = Ends("gone")] /\ proc \in [Procs -> ProcStates]
  BY DEF Kill, Inv, TypeOK
<1>2. Ends("gone") \in ProcStates
  BY OffType, PlaceNames DEF Ended
<1>3. slain' = slain \cup ({p} \cap Supers) /\ lock' = IF lock \in {p} THEN None ELSE lock
  BY DEF Kill
<1>4. TypeOK'
  <2>1. proc' \in [Procs -> ProcStates] /\ slain' \subseteq Supers /\ lock' \in Procs \cup {None}
    BY <1>1, <1>2, <1>3 DEF Inv, TypeOK
  <2>2. kills' \in 0..MaxKills
    BY BoundsAssumption DEF Kill, Inv, TypeOK
  <2>3. unlucky' \in BOOLEAN
    BY DEF Kill
  <2>4. /\ meta' \in Stamps \cup {Empty} /\ beat' \in {"none", "fresh", "old"}
        /\ record' \in Supers \cup {None} /\ pidfile' \in Supers \cup {None}
        /\ code' \in Codes /\ daemon' \in Supers \cup {None}
        /\ wedged' \subseteq Supers /\ stopping' \subseteq Supers
    BY DEF Kill, Inv, TypeOK
  <2> QED
    BY <2>1, <2>2, <2>3, <2>4 DEF TypeOK
<1>5. /\ \A q \in {p} : proc'[q] = Ends("gone")
      /\ \A q \in Procs \ {p} : proc'[q] = proc[q]
  BY <1>1, <1>2
<1>6. UNCHANGED <<meta, beat, record, daemon, wedged, stopping>>
  BY DEF Kill
<1>7. /\ \A s \in {p} \cap Supers : proc[s].pc \in {"serve", "shut"} => s \in slain'
      /\ {p} \in SUBSET Procs /\ slain \subseteq slain' /\ stopping \subseteq stopping'
      /\ \A q \in Procs \ {p} :
           \/ proc'[q] = proc[q]
           \/ /\ proc[q].pc \in {"term", "wait"} /\ proc'[q].pc \in {"wait", "check"}
              /\ proc'[q].seen = proc[q].seen
  BY <1>3, <1>5, <1>6
<1> QED
  BY <1>3, <1>4, <1>5, <1>6, <1>7, DeathInv

-----------------------------------------------------------------------------
(* A new supervisor is nobody's target yet.                                *)
LEMMA SpawnInv ==
  ASSUME Inv, NEW l \in Launchers, Spawn(l)
  PROVE  Inv'
<1>1. PICK s \in Supers :
        /\ At(s, "off")
        /\ proc' = [proc EXCEPT ![l].pc = "note", ![l].targets = {s},
                                ![s] = [Off EXCEPT !.pc = "acquire", !.verb = "main", !.runs = code,
                                                   !.seen = {t \in Supers : Healthy(t)}]]
  BY DEF Spawn
<1> DEFINE new == [Off EXCEPT !.pc = "acquire", !.verb = "main", !.runs = code,
                              !.seen = {t \in Supers : Healthy(t)}]
           old == [proc[l] EXCEPT !.pc = "note", !.targets = {s}]
<1>2. l \in Procs /\ s \in Procs /\ l # s /\ s # None /\ proc \in [Procs -> ProcStates]
  BY ProcessesAssumption DEF Procs, Inv, TypeOK
<1>3. new \in ProcStates /\ new.pc = "acquire" /\ new.seen = {t \in Supers : Healthy(t)}
  <2>1. Off \in ProcStates
    <3>1. "off" \in Places
      BY PlaceNames DEF Ended
    <3> QED
      BY <3>1, BoundsAssumption DEF Off, ProcStates, Codes
  <2>2. "acquire" \in Places /\ code \in Codes
    BY PlaceNames DEF Inv, TypeOK
  <2> QED
    BY <2>1, <2>2 DEF ProcStates
<1>4. old \in ProcStates /\ old.pc = "note" /\ old.seen = proc[l].seen /\ old.targets = {s}
  <2>1. proc[l] \in ProcStates /\ {s} \subseteq Procs /\ "note" \in Places
    BY <1>2, PlaceNames
  <2> QED
    BY <2>1 DEF ProcStates
<1>5. proc' = [[proc EXCEPT ![l] = old] EXCEPT ![s] = new]
  BY <1>1, <1>2
<1> HIDE DEF new, old
<1>6. /\ proc' \in [Procs -> ProcStates] /\ proc'[l] = old /\ proc'[s] = new
      /\ \A q \in Procs \ {l, s} : proc'[q] = proc[q]
  BY <1>2, <1>3, <1>4, <1>5
<1>7. UNCHANGED <<lock, meta, beat, record, pidfile, code, daemon, wedged, stopping, slain, unlucky, kills>>
  BY DEF Spawn
<1>8. proc[l].pc = "spawn" /\ proc[s].pc = "off"
  BY <1>1 DEF Spawn, At
<1>9. {"acquire", "note", "spawn", "off"}
        \cap (Holding \cup Beyond \cup {"release", "again", "old", "look", "targets", "term"}) = {}
  BY DEF Holding, Booting, Beyond
<1>10. \A q \in Procs :
         /\ proc'[q].pc \in Holding \cup Beyond \cup {"release", "again", "old", "look", "targets", "term"}
              => q \notin {l, s} /\ proc'[q] = proc[q]
         /\ proc[q].pc \in Holding \cup Beyond => q \notin {l, s} /\ proc'[q] = proc[q]
  BY <1>3, <1>4, <1>6, <1>8, <1>9
<1>11. Supers \subseteq Procs
  BY DEF Procs
<1>12. TypeOK'
  <2>1. unlucky' \in BOOLEAN
    <3>1. unlucky \in BOOLEAN
      BY Zenon DEF Inv, TypeOK
    <3> QED
      BY <1>7, <3>1
  <2> QED
    BY <1>6, <1>7, <2>1 DEF Inv, TypeOK
<1>13. LockOfTheHolder'
  BY <1>7, <1>10, <1>11 DEF Inv, LockOfTheHolder, At
<1>14. {"serve", "shut", "gone"} \subseteq Beyond /\ {"beat", "init", "serve", "shut", "exit"} \subseteq Holding
  BY DEF Beyond, Holding, Booting
<1>15. SeenServed'
  <2>0. \A t \in wedged : proc'[t].pc \in Beyond
    BY <1>10, <1>11 DEF Inv, SeenServed, TypeOK
  <2> SUFFICES ASSUME NEW q \in Procs, NEW t \in proc'[q].seen PROVE proc'[t].pc \in Beyond
    BY <1>7, <2>0 DEF SeenServed
  <2>1. t \in Supers /\ proc[t].pc \in Beyond
    <3>1. t \in proc[q].seen \/ (t \in Supers /\ Healthy(t))
      BY <1>3, <1>4, <1>6
    <3>2. CASE t \in proc[q].seen
      BY <3>2 DEF Inv, SeenServed, TypeOK, ProcStates
    <3> QED
      BY <1>14, <3>1, <3>2 DEF Healthy, At
  <2> QED
    BY <1>10, <1>11, <2>1
<1>16. DaemonOwned'
  <2> SUFFICES ASSUME daemon # None PROVE proc'[daemon].pc \in {"serve", "shut", "gone"}
    BY <1>7 DEF DaemonOwned
  <2>1. daemon \in Procs /\ proc[daemon].pc \in {"serve", "shut", "gone"}
    BY <1>11 DEF Inv, DaemonOwned, TypeOK
  <2> QED
    BY <1>10, <1>14, <2>1
<1>17. RecordOfTheLiving'
  <2> SUFFICES ASSUME record # None
               PROVE proc'[record].pc \in {"serve", "shut"} \/ record \in slain
    BY <1>7 DEF RecordOfTheLiving
  <2>1. record \in Procs /\ (proc[record].pc \in {"serve", "shut"} \/ record \in slain)
    BY <1>11 DEF Inv, RecordOfTheLiving, TypeOK
  <2> QED
    BY <1>10, <1>14, <2>1
<1>18. ASSUME NEW q \in Procs PROVE Unjudged(q)' /\ Cause(q)'
  <2>1. Unjudged(q)'
    <3>1. proc'[q].pc = "note" => proc'[q].targets \cap Supers # {}
      <4>1. CASE q = l
        BY <1>4, <1>6, <4>1
      <4>2. CASE q # l
        <5>1. proc'[q].pc = "note" => proc'[q] = proc[q]
          BY <1>3, <1>6, <4>2
        <5> QED
          BY <5>1 DEF Inv, Unjudged, At
      <4> QED
        BY <4>1, <4>2
    <3> QED
      BY <1>10, <3>1 DEF Inv, Unjudged, At
  <2>2. Cause(q)'
    <3> SUFFICES ASSUME proc'[q].pc \in {"targets", "term"}, proc'[q].verb \in {"up", "main"},
                        NEW t \in proc'[q].seen, Healthy(t)'
                 PROVE proc'[t].code # proc'[q].code
      BY DEF Cause
    <3>1. proc'[q] = proc[q]
      BY <1>10
    <3>2. t \in Procs
      BY <1>11, <3>1 DEF Inv, TypeOK, ProcStates
    <3>3. proc'[t] = proc[t] /\ Healthy(t)
      BY <1>7, <1>10, <1>14, <3>2 DEF Healthy, At
    <3> QED
      BY <3>1, <3>3 DEF Inv, Cause
  <2> QED
    BY <2>1, <2>2
<1>19. ASSUME NEW t \in Supers PROVE Stamped(t)'
  <2>1. proc'[t].pc \in {"beat", "init", "serve", "shut", "exit"} => proc'[t] = proc[t]
    BY <1>10, <1>11, <1>14
  <2> QED
    BY <1>7, <2>1 DEF Inv, Stamped
<1> QED
  BY <1>12, <1>13, <1>15, <1>16, <1>17, <1>18, <1>19 DEF Inv

-----------------------------------------------------------------------------
(* The steps of the one that has, or takes, the lock: it alone is past it. *)
LEMMA Alone ==
  ASSUME Inv, NEW s \in Supers,
         proc[s].pc \in Holding \/ lock = None
  PROVE  /\ \A t \in Supers \ {s} : proc[t].pc \notin Holding
         /\ \A q \in Procs \ {s} : ~At(q, "release")
         /\ proc[s].pc \in Holding => lock = s
<1>1. \A p \in Procs : p # None
  BY ProcessesAssumption DEF Procs
<1>2. Supers \subseteq Procs
  BY DEF Procs
<1> QED
  BY <1>1, <1>2 DEF Inv, LockOfTheHolder

(* A step of the holder keeps the invariant: nobody else is past the lock. *)
LEMMA HolderInv ==
  ASSUME Inv, NEW s \in Supers, proc[s].pc \in Holding \/ lock = None,
         NEW r \in ProcStates, proc' = [proc EXCEPT ![s] = r],
         r.seen \subseteq proc[s].seen,
         \/ r.pc \in Holding /\ lock' = s
         \/ r.pc = "gone" /\ lock' = None,
         proc[s].pc \in Beyond => r.pc \in Beyond,
         Healthy(s)' => proc[s].pc = "init" \/ (Healthy(s) /\ r.code = proc[s].code),
         Stamped(s)', DaemonOwned', RecordOfTheLiving',
         meta' \in Stamps \cup {Empty}, beat' \in {"none", "fresh", "old"},
         record' \in Supers \cup {None}, daemon' \in Supers \cup {None},
         unlucky' \in BOOLEAN,
         UNCHANGED <<pidfile, code, wedged, stopping, slain, kills>>
  PROVE  Inv'
<1>1. /\ \A t \in Supers \ {s} : proc[t].pc \notin Holding
      /\ \A q \in Procs \ {s} : ~At(q, "release")
  BY Alone
<1>2. s \in Procs /\ Supers \subseteq Procs /\ proc \in [Procs -> ProcStates]
  BY DEF Procs, Inv, TypeOK
<1>3. /\ proc' \in [Procs -> ProcStates] /\ proc'[s] = r
      /\ \A q \in Procs \ {s} : proc'[q] = proc[q]
  BY <1>2
<1>4. TypeOK'
  <2>1. lock' \in Procs \cup {None}
    BY <1>2
  <2> QED
    BY <1>3, <2>1 DEF Inv, TypeOK
<1>5. \A x \in Holding \cup {"gone"} :
        x \notin {"release", "look", "again", "old", "note", "targets", "term"}
  BY DEF Holding, Booting
<1>6. LockOfTheHolder'
  <2>1. ASSUME NEW t \in Supers, proc'[t].pc \in Holding PROVE lock' = t
    <3>1. t = s
      BY <1>1, <1>2, <1>3, <2>1
    <3>2. "gone" \notin Holding
      BY DEF Holding, Booting
    <3> QED
      BY <1>3, <2>1, <3>1, <3>2
  <2>2. ASSUME NEW q \in Procs PROVE proc'[q].pc # "release"
    BY <1>1, <1>3, <1>5 DEF At
  <2> QED
    BY <2>1, <2>2 DEF LockOfTheHolder, At
<1>7. SeenServed'
  <2>0. \A t \in wedged : proc'[t].pc \in Beyond
    BY <1>2, <1>3 DEF Inv, SeenServed, TypeOK
  <2> SUFFICES ASSUME NEW q \in Procs, NEW t \in proc'[q].seen PROVE proc'[t].pc \in Beyond
    BY <2>0 DEF SeenServed
  <2>1. t \in proc[q].seen
    BY <1>3
  <2>2. t \in Procs /\ proc[t].pc \in Beyond
    BY <1>2, <2>1 DEF Inv, SeenServed, ProcStates
  <2> QED
    BY <1>3, <2>2
<1>8. ASSUME NEW q \in Procs PROVE Unjudged(q)' /\ Cause(q)'
  <2>1. Unjudged(q)'
    <3>1. CASE q = s
      BY <1>3, <1>5, <3>1 DEF Unjudged, At
    <3>2. CASE q # s
      BY <1>3, <3>2 DEF Inv, Unjudged, At
    <3> QED
      BY <3>1, <3>2
  <2>2. Cause(q)'
    <3> SUFFICES ASSUME proc'[q].pc \in {"targets", "term"}, proc'[q].verb \in {"up", "main"},
                        NEW t \in proc'[q].seen, Healthy(t)'
                 PROVE proc'[t].code # proc'[q].code
      BY DEF Cause
    <3>1. q # s /\ proc'[q] = proc[q]
      BY <1>3, <1>5
    <3>2. t \in Supers /\ proc[t].pc \in Beyond
      BY <1>2, <3>1 DEF Inv, SeenServed, ProcStates
    <3>3. "serve" \in Holding
      BY DEF Holding
    <3>4. t = s
      BY <1>1, <1>2, <1>3, <3>2, <3>3 DEF Healthy, At
    <3>5. proc[t].pc # "init"
      BY <3>2 DEF Beyond
    <3>6. Healthy(s) /\ r.code = proc[s].code
      BY <3>4, <3>5
    <3> QED
      BY <1>3, <3>1, <3>4, <3>6 DEF Inv, Cause
  <2> QED
    BY <2>1, <2>2
<1>9. ASSUME NEW t \in Supers PROVE Stamped(t)'
  <2>1. CASE t # s
    <3>1. proc'[t].pc \notin Holding
      BY <1>1, <1>2, <1>3, <2>1
    <3> QED
      BY <3>1 DEF Stamped, Holding, Booting
  <2> QED
    BY <2>1
<1> QED
  BY <1>4, <1>6, <1>7, <1>8, <1>9 DEF Inv

(* Taking the lock, or being turned away.                                  *)
LEMMA AcquireInv ==
  ASSUME Inv, NEW s \in Supers, Acquire(s) \/ Retry(s)
  PROVE  Inv'
<1>1. /\ s \in Procs /\ Supers \subseteq Procs /\ proc \in [Procs -> ProcStates]
      /\ proc[s] \in ProcStates
  BY DEF Procs, Inv, TypeOK
<1>2. proc[s].pc \in {"acquire", "retry"}
  BY DEF Acquire, Retry, At
<1>3. UNCHANGED <<meta, beat, record, pidfile, code, daemon, wedged, stopping, slain, kills>>
  BY DEF Acquire, Retry
<1>4. unlucky' \in BOOLEAN
  <2>1. unlucky \in BOOLEAN
    BY Zenon DEF Inv, TypeOK
  <2>2. unlucky' = unlucky \/ unlucky' = (unlucky \/ HeldByProbe)
    BY DEF Acquire, Retry
  <2> QED
    BY <2>1, <2>2, Zenon
<1>5. CASE lock # None
  <2>1. lock' = lock /\ (Goto(s, "meta") \/ Goto(s, "gone"))
    BY <1>5 DEF Acquire, Retry
  <2>2. {"acquire", "retry"} \cap (Holding \cup Beyond \cup {"release"}) = {}
        /\ {"meta", "gone"} \cap (Holding \cup {"release", "look", "note", "again", "old", "targets", "term"}) = {}
    BY DEF Holding, Booting, Beyond
  <2>3. {"meta", "gone"} \subseteq Places
    BY PlaceNames DEF Ended
  <2>4. pidfile' \in Supers \cup {None}
    BY <1>3 DEF Inv, TypeOK
  <2> QED
    BY <1>1, <1>2, <1>3, <1>4, <2>1, <2>2, <2>3, <2>4, GotoMove
<1>6. CASE lock = None
  <2> DEFINE r == [proc[s] EXCEPT !.pc = "truncate", !.then = "off", !.alive = {}]
  <2>1. lock' = s /\ Goto(s, "truncate")
    BY <1>6 DEF Acquire, Retry
  <2>2. "truncate" \in Holding /\ "truncate" \notin Ended /\ "truncate" \in Places /\ "off" \in Places
    BY DEF Holding, Booting, Ended, Places
  <2>3. proc' = [proc EXCEPT ![s] = r]
    BY <2>1, <2>2 DEF Goto
  <2>4. r \in ProcStates /\ r.pc = "truncate" /\ r.seen = proc[s].seen
    BY <1>1, <2>2 DEF ProcStates
  <2> HIDE DEF r
  <2>5. proc'[s].pc = "truncate" /\ \A q \in Procs \ {s} : proc'[q] = proc[q]
    BY <1>1, <2>3, <2>4
  <2>6. Stamped(s)' /\ ~Healthy(s)'
    BY <2>5 DEF Stamped, Healthy, At
  <2>7. \A q \in Procs : proc[q].pc \in {"serve", "shut", "gone"} => q # s
    BY <1>2
  <2>8. DaemonOwned'
    BY <1>1, <1>3, <2>5, <2>7 DEF Inv, DaemonOwned, TypeOK
  <2>9. RecordOfTheLiving'
    BY <1>1, <1>3, <2>5, <2>7 DEF Inv, RecordOfTheLiving, TypeOK
  <2>10. proc[s].pc \notin Beyond
    BY <1>2 DEF Beyond
  <2>11. /\ meta' \in Stamps \cup {Empty} /\ beat' \in {"none", "fresh", "old"}
         /\ record' \in Supers \cup {None} /\ daemon' \in Supers \cup {None}
    BY <1>3 DEF Inv, TypeOK
  <2> QED
    BY <1>3, <1>4, <1>6, <2>1, <2>2, <2>3, <2>4, <2>6, <2>8, <2>9, <2>10, <2>11, HolderInv
<1> QED
  BY <1>5, <1>6

(* The holder's way from the truncated lock file to its exit.              *)
LEMMA HolderGoto ==
  ASSUME Inv, NEW s \in Supers, proc[s].pc \in Holding, NEW pc \in Holding, Goto(s, pc), lock' = lock,
         proc[s].pc \in Beyond => pc \in Beyond,
         pc = "serve" => proc[s].pc = "init",
         pc \in {"beat", "init", "serve", "shut", "exit"} =>
           meta' = [pid |-> s, code |-> proc[s].code] /\ meta' \in Stamps,
         pc \in {"init", "serve"} => beat' = "fresh",
         DaemonOwned', RecordOfTheLiving',
         meta' \in Stamps \cup {Empty}, beat' \in {"none", "fresh", "old"},
         record' \in Supers \cup {None}, daemon' \in Supers \cup {None},
         UNCHANGED <<pidfile, code, wedged, stopping, slain, unlucky, kills>>
  PROVE  Inv'
<1> DEFINE r == [proc[s] EXCEPT !.pc = pc, !.then = "off", !.alive = {}]
<1>1. /\ s \in Procs /\ Supers \subseteq Procs /\ proc \in [Procs -> ProcStates]
      /\ proc[s] \in ProcStates
  BY DEF Procs, Inv, TypeOK
<1>2. pc \notin Ended /\ pc \in Places /\ "off" \in Places
  BY PlaceNames DEF Ended
<1>3. proc' = [proc EXCEPT ![s] = r]
  BY <1>2 DEF Goto
<1>4. r \in ProcStates /\ r.pc = pc /\ r.seen = proc[s].seen /\ r.code = proc[s].code
  BY <1>1, <1>2 DEF ProcStates
<1> HIDE DEF r
<1>5. proc'[s] = r
  BY <1>1, <1>3
<1>6. lock' = s
  BY Alone
<1>7. Stamped(s)'
  BY <1>4, <1>5 DEF Stamped
<1>8. Healthy(s)' => proc[s].pc = "init"
  BY <1>4, <1>5 DEF Healthy, At
<1>9. unlucky' \in BOOLEAN
  <2>1. unlucky \in BOOLEAN
    BY Zenon DEF Inv, TypeOK
  <2> QED
    BY <2>1
<1> QED
  BY <1>3, <1>4, <1>6, <1>7, <1>8, <1>9, HolderInv

(* From the lock to the exit.                                              *)
LEMMA BootInv ==
  ASSUME Inv, NEW s \in Supers, BootStep(s)
  PROVE  Inv'
<1>1. /\ s \in Procs /\ Supers \subseteq Procs /\ proc \in [Procs -> ProcStates]
      /\ proc[s] \in ProcStates /\ code \in Codes /\ proc[s].code \in Codes \cup {0}
  BY DEF Procs, Inv, TypeOK, ProcStates
<1>2. /\ {"truncate", "stamp", "beat", "init", "serve", "shut", "exit"} \subseteq Holding
      /\ {"truncate", "stamp", "beat", "init"} \cap Beyond = {}
      /\ {"serve", "shut", "exit"} \subseteq Beyond
  BY DEF Holding, Booting, Beyond
<1>3. {"truncate", "stamp", "beat", "init", "serve", "shut", "exit", "gone"} \subseteq Places
  BY PlaceNames DEF Holding, Booting, Ended
(* Before it serves, neither the record nor the daemon is its own.         *)
<1>4. ASSUME NEW pc \in Places, Goto(s, pc), UNCHANGED <<record, daemon, slain>>,
             proc[s].pc \notin {"serve", "shut"} \/ pc \in {"serve", "shut"}
      PROVE  DaemonOwned' /\ RecordOfTheLiving'
  <2>1. proc'[s].pc = pc /\ \A q \in Procs \ {s} : proc'[q] = proc[q]
    BY <1>1, <1>4, GotoType DEF Inv
  <2>2. proc[s].pc # "gone"
    BY DEF BootStep, Acquire, Retry, Truncate, Stamp, StampHeartbeat, Boot, LeaveLoop, ShutDown, Exit, At
  <2>3. DaemonOwned'
    <3> SUFFICES ASSUME daemon # None PROVE proc'[daemon].pc \in {"serve", "shut", "gone"}
      BY <1>4 DEF DaemonOwned
    <3>1. daemon \in Procs /\ proc[daemon].pc \in {"serve", "shut", "gone"}
      BY <1>1 DEF Inv, DaemonOwned, TypeOK
    <3> QED
      BY <1>4, <2>1, <2>2, <3>1
  <2>4. RecordOfTheLiving'
    <3> SUFFICES ASSUME record # None
                 PROVE proc'[record].pc \in {"serve", "shut"} \/ record \in slain
      BY <1>4 DEF RecordOfTheLiving
    <3>1. record \in Procs /\ (proc[record].pc \in {"serve", "shut"} \/ record \in slain)
      BY <1>1 DEF Inv, RecordOfTheLiving, TypeOK
    <3> QED
      BY <1>4, <2>1, <3>1
  <2> QED
    BY <2>3, <2>4
<1>5. CASE Acquire(s) \/ Retry(s)
  BY <1>5, AcquireInv
<1>6. CASE Truncate(s)
  <2>1. proc[s].pc = "truncate" /\ Goto(s, "stamp") /\ meta' = Empty
    BY <1>6 DEF Truncate, At
  <2>2. UNCHANGED <<lock, beat, record, pidfile, code, daemon, wedged, stopping, slain, unlucky, kills>>
    BY <1>6 DEF Truncate
  <2>3. DaemonOwned' /\ RecordOfTheLiving'
    BY <1>3, <1>4, <2>1, <2>2
  <2>4. beat \in {"none", "fresh", "old"} /\ record \in Supers \cup {None} /\ daemon \in Supers \cup {None}
    BY DEF Inv, TypeOK
  <2> QED
    BY <1>2, <2>1, <2>2, <2>3, <2>4, HolderGoto
<1>7. CASE Stamp(s)
  <2> DEFINE r == [proc[s] EXCEPT !.code = Fingerprint(s), !.pc = "beat"]
  <2>1. /\ proc[s].pc = "stamp" /\ proc' = [proc EXCEPT ![s] = r]
        /\ meta' = [pid |-> s, code |-> Fingerprint(s)]
    BY <1>7 DEF Stamp, At
  <2>2. UNCHANGED <<lock, beat, record, pidfile, code, daemon, wedged, stopping, slain, unlucky, kills>>
    BY <1>7 DEF Stamp
  <2>3. Fingerprint(s) \in Codes
    BY <1>1 DEF Fingerprint
  <2>4. r \in ProcStates /\ r.pc = "beat" /\ r.seen = proc[s].seen /\ r.code = Fingerprint(s)
    BY <1>1, <1>3, <2>3 DEF ProcStates
  <2> HIDE DEF r
  <2>5. proc'[s] = r /\ \A q \in Procs \ {s} : proc'[q] = proc[q]
    BY <1>1, <2>1, <2>4
  <2>6. meta' \in Stamps
    BY <2>1, <2>3 DEF Stamps
  <2>7. Stamped(s)' /\ ~Healthy(s)'
    BY <2>1, <2>4, <2>5, <2>6 DEF Stamped, Healthy, At
  <2>8. DaemonOwned' /\ RecordOfTheLiving'
    <3>1. daemon # s /\ (record = s => s \in slain)
      <4>1. s # None
        BY ProcessesAssumption
      <4> QED
        BY <2>1, <4>1 DEF Inv, DaemonOwned, RecordOfTheLiving
    <3> QED
      BY <1>1, <2>2, <2>5, <3>1 DEF Inv, DaemonOwned, RecordOfTheLiving, TypeOK
  <2>9. unlucky' \in BOOLEAN
    <3>1. unlucky \in BOOLEAN
      BY Zenon DEF Inv, TypeOK
    <3> QED
      BY <2>2, <3>1
  <2>10. /\ beat' \in {"none", "fresh", "old"} /\ record' \in Supers \cup {None}
         /\ daemon' \in Supers \cup {None}
    BY <2>2 DEF Inv, TypeOK
  <2>11. lock' = s
    BY <1>2, <2>1, <2>2, Alone
  <2> QED
    BY <1>2, <2>1, <2>2, <2>4, <2>6, <2>7, <2>8, <2>9, <2>10, <2>11, HolderInv
<1>8. CASE StampHeartbeat(s)
  <2>1. proc[s].pc = "beat" /\ Goto(s, "init") /\ beat' = "fresh"
    BY <1>8 DEF StampHeartbeat, At
  <2>2. UNCHANGED <<lock, meta, record, pidfile, code, daemon, wedged, stopping, slain, unlucky, kills>>
    BY <1>8 DEF StampHeartbeat
  <2>3. DaemonOwned' /\ RecordOfTheLiving'
    BY <1>3, <1>4, <2>1, <2>2
  <2>4. /\ record \in Supers \cup {None} /\ daemon \in Supers \cup {None}
        /\ meta \in Stamps /\ meta = [pid |-> s, code |-> proc[s].code]
    BY <2>1 DEF Inv, TypeOK, Stamped
  <2> QED
    BY <1>2, <2>1, <2>2, <2>3, <2>4, HolderGoto
<1>9. CASE Boot(s)
  <2>1. proc[s].pc = "init" /\ Goto(s, "serve")
    BY <1>9 DEF Boot, At
  <2>2. UNCHANGED <<lock, meta, beat, record, pidfile, code, daemon, wedged, stopping, slain, unlucky, kills>>
    BY <1>9 DEF Boot
  <2>3. DaemonOwned' /\ RecordOfTheLiving'
    BY <1>3, <1>4, <2>1, <2>2
  <2>4. /\ beat \in {"none", "fresh", "old"} /\ record \in Supers \cup {None} /\ daemon \in Supers \cup {None}
        /\ meta \in Stamps /\ meta = [pid |-> s, code |-> proc[s].code]
    BY <2>1 DEF Inv, TypeOK, Stamped
  <2>5. beat = "fresh"
    <3>1. s \notin wedged
      BY <1>2, <2>1 DEF Inv, SeenServed
    <3> QED
      BY <2>1, <3>1 DEF Inv, Stamped
  <2> QED
    BY <1>2, <2>1, <2>2, <2>3, <2>4, <2>5, HolderGoto
<1>10. CASE LeaveLoop(s)
  <2>1. proc[s].pc = "serve" /\ Goto(s, "shut")
    BY <1>10 DEF LeaveLoop, At
  <2>2. UNCHANGED <<lock, meta, beat, record, pidfile, code, daemon, wedged, stopping, slain, unlucky, kills>>
    BY <1>10 DEF LeaveLoop
  <2>3. DaemonOwned' /\ RecordOfTheLiving'
    BY <1>3, <1>4, <2>1, <2>2
  <2>4. /\ beat \in {"none", "fresh", "old"} /\ record \in Supers \cup {None} /\ daemon \in Supers \cup {None}
        /\ meta \in Stamps /\ meta = [pid |-> s, code |-> proc[s].code]
    BY <2>1 DEF Inv, TypeOK, Stamped
  <2> QED
    BY <1>2, <2>1, <2>2, <2>3, <2>4, HolderGoto
<1>11. CASE ShutDown(s)
  <2>1. proc[s].pc = "shut" /\ Goto(s, "exit") /\ record' = None
        /\ daemon' = IF daemon = s THEN None ELSE daemon
    BY <1>11 DEF ShutDown, At
  <2>2. UNCHANGED <<lock, meta, beat, pidfile, code, wedged, stopping, slain, unlucky, kills>>
    BY <1>11 DEF ShutDown
  <2>3. \A q \in Procs \ {s} : proc'[q] = proc[q]
    BY <1>1, <1>3, <2>1, GotoType DEF Inv
  <2>4. DaemonOwned'
    <3> SUFFICES ASSUME daemon' # None PROVE proc'[daemon'].pc \in {"serve", "shut", "gone"}
      BY DEF DaemonOwned
    <3>1. daemon' = daemon /\ daemon # s /\ daemon # None
      BY <2>1
    <3>2. daemon \in Procs /\ proc[daemon].pc \in {"serve", "shut", "gone"}
      BY <1>1, <3>1 DEF Inv, DaemonOwned, TypeOK
    <3> QED
      BY <2>3, <3>1, <3>2
  <2>5. RecordOfTheLiving'
    BY <2>1 DEF RecordOfTheLiving
  <2>6. /\ beat \in {"none", "fresh", "old"} /\ daemon' \in Supers \cup {None}
        /\ meta \in Stamps /\ meta = [pid |-> s, code |-> proc[s].code]
    BY <2>1 DEF Inv, TypeOK, Stamped
  <2> QED
    BY <1>2, <2>1, <2>2, <2>4, <2>5, <2>6, HolderGoto
<1>12. CASE Exit(s)
  <2>1. proc[s].pc = "exit" /\ Goto(s, "gone") /\ lock' = None
    BY <1>12 DEF Exit, At
  <2>2. UNCHANGED <<meta, beat, record, pidfile, code, daemon, wedged, stopping, slain, unlucky, kills>>
    BY <1>12 DEF Exit
  <2>3. DaemonOwned' /\ RecordOfTheLiving'
    BY <1>3, <1>4, <2>1, <2>2
  <2>4. proc' = [proc EXCEPT ![s] = Ends("gone")]
    BY <2>1 DEF Goto, Ended
  <2>5. Ends("gone") \in ProcStates /\ Ends("gone").pc = "gone" /\ Ends("gone").seen = {}
    BY <1>3, OffType
  <2>6. proc'[s].pc = "gone"
    BY <1>1, <2>4, <2>5
  <2>7. Stamped(s)' /\ ~Healthy(s)'
    BY <2>6 DEF Stamped, Healthy, At
  <2>8. unlucky' \in BOOLEAN
    <3>1. unlucky \in BOOLEAN
      BY Zenon DEF Inv, TypeOK
    <3> QED
      BY <2>2, <3>1
  <2>9. /\ meta' \in Stamps \cup {Empty} /\ beat' \in {"none", "fresh", "old"}
        /\ record' \in Supers \cup {None} /\ daemon' \in Supers \cup {None}
    BY <2>2 DEF Inv, TypeOK
  <2>10. "gone" \in Beyond
    BY DEF Beyond
  <2> QED
    BY <1>2, <2>1, <2>2, <2>3, <2>4, <2>5, <2>7, <2>8, <2>9, <2>10, HolderInv
<1> QED
  BY <1>5, <1>6, <1>7, <1>8, <1>9, <1>10, <1>11, <1>12 DEF BootStep

-----------------------------------------------------------------------------
(* A tick, a tick that hangs, and time.                                    *)
LEMMA TickInv ==
  ASSUME Inv, NEW s \in Supers, Tick(s)
  PROVE  Inv'
<1>1. /\ s \in Procs /\ Supers \subseteq Procs /\ proc \in [Procs -> ProcStates]
      /\ proc[s] \in ProcStates
  BY DEF Procs, Inv, TypeOK
<1>2. proc[s].pc = "serve" /\ "serve" \in Holding
  BY DEF Tick, At, Holding
<1>3. proc' = [proc EXCEPT ![s] = proc[s]] /\ proc' = proc
  BY <1>1 DEF Tick
<1>4. beat' = "fresh" /\ daemon' = s /\ record' = s
  BY DEF Tick
<1>5. UNCHANGED <<lock, meta, pidfile, code, wedged, stopping, slain, unlucky, kills>>
  BY DEF Tick
<1>6. Stamped(s)' /\ (Healthy(s)' => Healthy(s))
  BY <1>2, <1>3, <1>4, <1>5 DEF Inv, Stamped, Healthy, At
<1>7. DaemonOwned' /\ RecordOfTheLiving'
  BY <1>2, <1>3, <1>4 DEF DaemonOwned, RecordOfTheLiving
<1>8. lock' = s
  BY <1>2, <1>5, Alone
<1>9. unlucky' \in BOOLEAN
  <2>1. unlucky \in BOOLEAN
    BY Zenon DEF Inv, TypeOK
  <2> QED
    BY <1>5, <2>1
<1>10. /\ meta' \in Stamps \cup {Empty} /\ beat' \in {"none", "fresh", "old"}
       /\ record' \in Supers \cup {None} /\ daemon' \in Supers \cup {None}
  BY <1>4, <1>5 DEF Inv, TypeOK
<1> QED
  BY <1>1, <1>2, <1>3, <1>5, <1>6, <1>7, <1>8, <1>9, <1>10, HolderInv

(* A tick that hangs.                                                      *)
LEMMA WedgeInv ==
  ASSUME Inv, NEW s \in Supers, Wedge(s)
  PROVE  Inv'
<1>1. /\ wedged' = wedged \cup {s} /\ unlucky' = TRUE /\ proc[s].pc = "serve"
      /\ UNCHANGED <<lock, meta, beat, record, pidfile, code, proc, daemon, stopping, slain, kills>>
  BY DEF Wedge, At
<1>2. TypeOK'
  BY <1>1 DEF Inv, TypeOK
<1>3. LockOfTheHolder' /\ DaemonOwned' /\ RecordOfTheLiving'
  BY <1>1 DEF Inv, LockOfTheHolder, At, DaemonOwned, RecordOfTheLiving
<1>4. SeenServed'
  BY <1>1 DEF Inv, SeenServed, Beyond
<1>5. ASSUME NEW q \in Procs PROVE Unjudged(q)' /\ Cause(q)'
  <2>1. Unjudged(q)'
    BY <1>1, <1>5 DEF Inv, Unjudged, At
  <2>2. \A t : Healthy(t)' => Healthy(t)
    BY <1>1 DEF Healthy, At
  <2>3. Cause(q)'
    BY <1>1, <1>5, <2>2 DEF Inv, Cause
  <2> QED
    BY <2>1, <2>3
<1>6. ASSUME NEW t \in Supers PROVE Stamped(t)'
  BY <1>1, <1>6 DEF Inv, Stamped
<1> QED
  BY <1>2, <1>3, <1>4, <1>5, <1>6 DEF Inv

(* An upgrade, or 30 s without a tick.                                     *)
LEMMA TimeInv ==
  ASSUME Inv, Upgrade \/ Age
  PROVE  Inv'
<1>1. UNCHANGED <<lock, meta, pidfile, proc, daemon, wedged, stopping, slain, unlucky, kills>>
  BY DEF Upgrade, Age
<1>2. /\ code' \in Codes /\ beat' \in {"none", "fresh", "old"} /\ record' \in {record, None}
  BY BoundsAssumption DEF Upgrade, Age, Inv, TypeOK, Codes
<1>3. unlucky' \in BOOLEAN
  <2>1. unlucky \in BOOLEAN
    BY Zenon DEF Inv, TypeOK
  <2> QED
    BY <1>1, <2>1
<1>4. TypeOK'
  BY <1>1, <1>2, <1>3 DEF Inv, TypeOK
<1>5. LockOfTheHolder' /\ DaemonOwned' /\ SeenServed'
  BY <1>1 DEF Inv, LockOfTheHolder, At, DaemonOwned, SeenServed
<1>6. RecordOfTheLiving'
  BY <1>1, <1>2 DEF Inv, RecordOfTheLiving
<1>7. ASSUME NEW q \in Procs PROVE Unjudged(q)' /\ Cause(q)'
  <2>1. Unjudged(q)'
    BY <1>1, <1>7 DEF Inv, Unjudged, At
  <2>2. Cause(q)'
    BY <1>1, <1>7 DEF Inv, Cause, Healthy, At
  <2> QED
    BY <2>1, <2>2
<1>8. ASSUME NEW t \in Supers PROVE Stamped(t)'
  <2>1. CASE Upgrade
    BY <1>1, <1>8, <2>1 DEF Inv, Stamped, Upgrade
  <2>2. CASE Age
    BY <1>1, <1>8, <2>2 DEF Inv, Stamped, Age
  <2> QED
    BY <2>1, <2>2
<1> QED
  BY <1>4, <1>5, <1>6, <1>7, <1>8 DEF Inv

-----------------------------------------------------------------------------
(* Nothing has run, or one supervisor is up.                               *)
LEMMA InitInv == Init => Inv
<1> SUFFICES ASSUME Init PROVE Inv
  OBVIOUS
<1>1. Off \in ProcStates /\ Serving \in ProcStates /\ Off.pc = "off" /\ Off.seen = {}
      /\ Serving.pc = "serve" /\ Serving.seen = {} /\ Serving.code = 1
  <2>1. "off" \in Places /\ "serve" \in Places
    BY DEF Places, Holding
  <2>2. Off \in ProcStates /\ Off.pc = "off" /\ Off.seen = {}
    BY <2>1, BoundsAssumption DEF Off, ProcStates, Codes
  <2>3. 1 \in Codes
    BY BoundsAssumption DEF Codes
  <2> QED
    BY <2>1, <2>2, <2>3 DEF Serving, ProcStates
<1>2. /\ Supers \subseteq Procs /\ 1 \in Codes /\ 0 \in 0..MaxKills
      /\ \A s \in Supers : s # None
  BY BoundsAssumption, ProcessesAssumption DEF Procs, Codes
<1>3. /\ code = 1 /\ stopping = {} /\ slain = {} /\ unlucky = FALSE /\ kills = 0
  BY DEF Init
<1>4. \A x \in {"off", "serve"} :
        /\ x \notin {"release", "look", "again", "old", "note", "targets", "term"}
        /\ x \in Holding <=> x = "serve"
  BY DEF Holding, Booting
<1>5. CASE lock = None /\ meta = Empty /\ beat = "none" /\ record = None /\ pidfile = None
           /\ proc = [p \in Procs |-> Off] /\ daemon = None /\ wedged = {}
  <2>1. \A p \in Procs : proc[p].pc = "off" /\ proc[p].seen = {}
    BY <1>1, <1>5
  <2>2. TypeOK
    <3>1. proc \in [Procs -> ProcStates]
      BY <1>1, <1>5
    <3> QED
      BY <1>2, <1>3, <1>5, <3>1 DEF TypeOK
  <2>3. LockOfTheHolder /\ SeenServed /\ DaemonOwned /\ RecordOfTheLiving
    BY <1>2, <1>4, <1>5, <2>1 DEF LockOfTheHolder, SeenServed, DaemonOwned, RecordOfTheLiving, At
  <2>4. \A p \in Procs : Unjudged(p) /\ Cause(p)
    BY <1>4, <2>1 DEF Unjudged, Cause, At
  <2>5. \A s \in Supers : Stamped(s)
    BY <1>2, <2>1 DEF Stamped
  <2> QED
    BY <2>2, <2>3, <2>4, <2>5 DEF Inv
<1>6. ASSUME NEW s \in Supers,
             lock = s, meta = [pid |-> s, code |-> 1], pidfile = s, daemon = s,
             proc = [p \in Procs |-> IF p = s THEN Serving ELSE Off],
             \/ beat = "fresh" /\ record = s /\ wedged = {}
             \/ beat = "old" /\ record = None /\ wedged = {s}
      PROVE  Inv
  <2>1. /\ proc[s].pc = "serve" /\ proc[s].seen = {} /\ proc[s].code = 1
        /\ \A p \in Procs \ {s} : proc[p].pc = "off" /\ proc[p].seen = {}
    BY <1>1, <1>2, <1>6
  <2>2. TypeOK
    <3>1. proc \in [Procs -> ProcStates]
      BY <1>1, <1>6
    <3>2. meta \in Stamps
      BY <1>2, <1>6 DEF Stamps
    <3> QED
      BY <1>2, <1>3, <1>6, <3>1, <3>2 DEF TypeOK
  <2>3. LockOfTheHolder
    BY <1>2, <1>4, <1>6, <2>1 DEF LockOfTheHolder, At
  <2>4. SeenServed /\ DaemonOwned /\ RecordOfTheLiving
    BY <1>2, <1>6, <2>1 DEF SeenServed, DaemonOwned, RecordOfTheLiving, Beyond
  <2>5. \A p \in Procs : Unjudged(p) /\ Cause(p)
    BY <1>4, <2>1 DEF Unjudged, Cause, At
  <2>6. \A t \in Supers : Stamped(t)
    BY <1>2, <1>6, <2>1 DEF Stamped, Stamps
  <2> QED
    BY <2>2, <2>3, <2>4, <2>5, <2>6 DEF Inv
<1> QED
  BY <1>5, <1>6 DEF Init

(* Every step keeps the invariant.                                         *)
LEMMA StepInv == Inv /\ [Next]_vars => Inv'
<1> SUFFICES ASSUME Inv, [Next]_vars PROVE Inv'
  OBVIOUS
<1>1. ASSUME NEW l \in Launchers, Start(l) \/ LaunchStep(l) PROVE Inv'
  BY <1>1, StartInv, LaunchInv, SpawnInv
<1>2. ASSUME NEW s \in Supers, BootStep(s) \/ Tick(s) \/ Wedge(s) PROVE Inv'
  BY <1>2, BootInv, TickInv, WedgeInv
<1>3. ASSUME NEW p \in Procs, Judging(p) \/ Kill(p) PROVE Inv'
  BY <1>3, JudgeInv, TermInv, WaitInv, KillInv DEF Judging
<1>4. CASE Upgrade \/ Age
  BY <1>4, TimeInv
<1>5. CASE UNCHANGED vars
  <2>1. UNCHANGED <<lock, meta, beat, record, pidfile, code, proc, daemon, wedged, stopping, slain, unlucky, kills>>
    BY <1>5 DEF vars
  <2>2. TypeOK' /\ LockOfTheHolder' /\ SeenServed' /\ DaemonOwned' /\ RecordOfTheLiving'
    <3>1. unlucky' \in BOOLEAN
      <4>1. unlucky \in BOOLEAN
        BY Zenon DEF Inv, TypeOK
      <4> QED
        BY <2>1, <4>1
    <3>2. TypeOK'
      BY <2>1, <3>1 DEF Inv, TypeOK
    <3> QED
      BY <2>1, <3>2 DEF Inv, LockOfTheHolder, SeenServed, DaemonOwned, RecordOfTheLiving, At
  <2>3. ASSUME NEW q \in Procs PROVE Unjudged(q)' /\ Cause(q)'
    BY <2>1, <2>3 DEF Inv, Unjudged, Cause, Healthy, At
  <2>4. ASSUME NEW t \in Supers PROVE Stamped(t)'
    BY <2>1, <2>4 DEF Inv, Stamped
  <2> QED
    BY <2>2, <2>3, <2>4 DEF Inv
<1> QED
  BY <1>1, <1>2, <1>3, <1>4, <1>5 DEF Next

(* The inductive invariant holds.                                          *)
THEOREM Inductive == Spec => []Inv
BY InitInv, StepInv, PTL DEF Spec

(* Every reachable state has its type.                                     *)
THEOREM TypeCorrect == Spec => []TypeOK
<1>1. Inv => TypeOK
  BY DEF Inv
<1> QED
  BY <1>1, Inductive, PTL

(* ADR-0006: whatever is started, replaced, killed or hangs, at most one   *)
(* supervisor is past acquire_singleton.                                   *)
THEOREM ExactlyOne == Spec => []OneSupervisor
<1>1. Inv => OneSupervisor
  BY DEF Inv, LockOfTheHolder, OneSupervisor
<1> QED
  BY <1>1, Inductive, PTL

(* A launch's _bounce_holder stops a supervisor that was serving before it *)
(* began only for other code or a heartbeat that no longer comes.          *)
THEOREM NeverBouncedIdly == Spec => []BouncedForCause
<1>1. Inv => BouncedForCause
  BY DEF Inv, Cause, BouncedForCause, At
<1> QED
  BY <1>1, Inductive, PTL

(* A readiness record that nobody stands behind is a killed supervisor's.  *)
THEOREM RecordsOfTheLiving == Spec => []RecordOfTheLiving
<1>1. Inv => RecordOfTheLiving
  BY DEF Inv
<1> QED
  BY <1>1, Inductive, PTL

(* A tick replaces only a dead supervisor's daemon, and _shut_down stops   *)
(* only its own.                                                           *)
THEOREM DaemonsReapedOnlyDead == Spec => OnlyOrphansReaped
<1> DEFINE Reap == \A s \in Supers : daemon = s /\ daemon' # s => ~Running(s) \/ At(s, "shut")
<1>1. Inv /\ [Next]_vars => [Reap]_vars
  <2> SUFFICES ASSUME Inv, Next, NEW s \in Supers, daemon = s, daemon' # s
               PROVE  ~Running(s) \/ At(s, "shut")
    OBVIOUS
  <2>1. PICK t \in Supers : Tick(t) \/ ShutDown(t)
    <3>1. ASSUME NEW l \in Launchers, Start(l) \/ LaunchStep(l) PROVE FALSE
      BY <3>1 DEF Start, LaunchStep, Look, Again, ReadOld, Pidfile, Unlink, Spawn, Note,
                  Await, ReadHolder, Judge, Poll, Confirm, Probe
    <3>2. ASSUME NEW p \in Procs, Judging(p) \/ Kill(p) PROVE FALSE
      BY <3>2 DEF Judging, ReadMeta, ReadAge, Targets, Term, Wait, Check, Release, Probe, Kill
    <3>3. ~Upgrade /\ ~Age
      BY DEF Upgrade, Age
    <3>4. ASSUME NEW t \in Supers, BootStep(t) \/ Tick(t) \/ Wedge(t) PROVE Tick(t) \/ ShutDown(t)
      BY <3>4 DEF BootStep, Acquire, Retry, Truncate, Stamp, StampHeartbeat, Boot, LeaveLoop, Exit, Wedge
    <3> QED
      BY <3>1, <3>2, <3>3, <3>4 DEF Next
  <2>2. CASE s = t
    BY <2>1, <2>2 DEF Tick, ShutDown
  <2>3. CASE s # t
    <3>1. proc[t].pc \in {"serve", "shut"}
      BY <2>1 DEF Tick, ShutDown, At
    <3>2. proc[s].pc \in {"serve", "shut", "gone"} /\ s # None
      BY ProcessesAssumption DEF Inv, DaemonOwned
    <3>3. {"serve", "shut"} \subseteq Holding
      BY DEF Holding
    <3>4. proc[s].pc \notin Holding
      BY <2>3, <3>1, <3>3, Alone
    <3> QED
      BY <3>2, <3>3, <3>4 DEF Running, Ended
  <2> QED
    BY <2>2, <2>3
<1> QED
  BY <1>1, Inductive, PTL DEF Spec, OnlyOrphansReaped
=============================================================================
