---------------------------- MODULE Capabilities ----------------------------
(***************************************************************************)
(* What the supervisor learns of the credentials each switch promises, and *)
(* does about it.  A tick reads the mode, probes, writes the checkout's    *)
(* mirror, compares what it found with what it published last, publishes,  *)
(* recreates the services of a switch that recovered on a thread of its    *)
(* own, and only then brings the daemons and the proxy's live settings to  *)
(* the mode it read.  `fy claude' in the box waits by the mirror alone.    *)
(***************************************************************************)
EXTENDS Naturals, FiniteSets

CONSTANTS
  Axes,         \* switches that are probed
  Daemoned,     \* ... those a daemon serves
  Listed,       \* ... those with services to recreate
  Agent,        \* the switch the box's agent waits for
  MaxEvents     \* bound

VARIABLES
  on,           \* the switches the mode file has on
  mirror,       \* the switches the checkout's mirror has on
  proxy,        \* the switches the proxy's live settings have on
  chain,        \* switches whose credential works at its provider
  daemon,       \* switch -> its daemon
  tick,         \* the supervisor's place in its tick, and what it has read
  cache,        \* switch -> its last verdict
  base,         \* the map compared with: {} until it is first needed
  published,    \* the map in capabilities.json
  unsaved,      \* it could not be written
  worker,       \* switch -> its recreate
  broken,       \* listed switches whose services hold what does not work
  seen,         \* ... and of which that has been published (history)
  passed,       \* switch -> why a recovery did nothing (history)
  agent,        \* the box's launch
  events

healthVars == <<cache, base, published, unsaved, worker, broken, seen, passed>>
vars == <<on, mirror, proxy, chain, daemon, tick, agent, events, healthVars>>

NoMap == [a \in Axes |-> "none"]
NoTick == [pc |-> "off", on |-> {}, map |-> NoMap, edges |-> {}]
NoAgent == [pc |-> "idle", stamps |-> 0, new |-> FALSE, late |-> FALSE, raced |-> FALSE]

Init ==
  /\ on = {} /\ mirror = {} /\ proxy = {}
  /\ chain = Axes
  /\ daemon = [a \in Daemoned |-> "none"]
  /\ tick = NoTick
  /\ cache = NoMap /\ base = {} /\ published = NoMap /\ unsaved = FALSE
  /\ worker = [a \in Axes |-> "none"]
  /\ broken = {} /\ seen = {} /\ passed = [a \in Axes |-> {}]
  /\ agent = NoAgent
  /\ events = 0

At(pc) == tick.pc = pc
Serving == {"young", "old", "left"}
Works(a) == a \in chain /\ (a \in Daemoned => daemon[a] \in Serving)
Breaks(S) == broken' = broken \cup (S \cap Listed) /\ seen' = seen \ (S \ broken)
Waiting == agent.pc \in {"catchup", "launched"}
Event == events < MaxEvents /\ events' = events + 1

-----------------------------------------------------------------------------
(* The supervisor starts; a tick reads the mode.                           *)
Boot ==
  /\ At("off") /\ tick' = [NoTick EXCEPT !.pc = "read"]
  /\ UNCHANGED <<on, mirror, proxy, chain, daemon, agent, events, healthVars>>

Read ==
  /\ At("read") /\ tick' = [tick EXCEPT !.pc = "probe", !.on = on]
  /\ UNCHANGED <<on, mirror, proxy, chain, daemon, agent, events, healthVars>>

(* _warming_axes(): a daemon about to be spawned, or just spawned.  One    *)
(* that died or is held back is not; one that a killed supervisor left is  *)
(* no child of this one.                                                   *)
Warming == {a \in Daemoned \cap tick.on : daemon[a] \in {"none", "young", "left"}}

(* run_capability_probes(): a verdict is kept until its probe is due; a    *)
(* switch that warms makes no claim, nor does one that is off.             *)
Probe ==
  /\ At("probe")
  /\ \E due \in SUBSET {a \in tick.on : cache[a] # "none"} :
       cache' = [a \in Axes |->
                   IF a \notin tick.on \/ a \in Warming THEN "none"
                   ELSE IF cache[a] = "none" \/ a \in due THEN IF Works(a) THEN "ok" ELSE "bad"
                   ELSE cache[a]]
  /\ tick' = [tick EXCEPT !.pc = "mirror", !.map = cache']
  /\ UNCHANGED <<on, mirror, proxy, chain, daemon, base, published, unsaved, worker, broken, seen,
                 passed, agent, events>>

(* write_mirror(): of the mode this tick read.                             *)
Mirror ==
  /\ At("mirror")
  /\ mirror' = tick.on
  /\ agent' = [agent EXCEPT !.new = agent.pc = "catchup", !.raced = @ \/ (Waiting /\ tick.on # on)]
  /\ tick' = [tick EXCEPT !.pc = "advance"]
  /\ UNCHANGED <<on, proxy, chain, daemon, events, healthVars>>

(* Mutant: a new supervisor's memory is empty.                             *)
Baseline_Memory == IF base = {} THEN {NoMap} ELSE base

(* _capability_baseline(): "Seeded from capabilities.json on first use, so *)
(* a lapse recorded by a PREVIOUS supervisor still yields a heal edge".    *)
Baseline == IF base = {} THEN {published} ELSE base

(* capability_edges(), and the baseline moves on.  A first sight is an     *)
(* edge only when it fails.                                                *)
Advance ==
  /\ At("advance")
  /\ \E before \in Baseline :
       /\ tick' = [tick EXCEPT !.pc = "publish",
                     !.edges = {a \in Axes : \/ before[a] = "none" /\ tick.map[a] = "bad"
                                             \/ {before[a], tick.map[a]} = {"ok", "bad"}}]
       /\ passed' = [a \in Axes |-> passed[a] \cup
                       IF /\ tick.map[a] = "ok" /\ a \in seen
                          /\ before[a] = "none" /\ (published[a] = "none" \/ unsaved)
                       THEN {"unclaimed"} ELSE {}]
  /\ base' = {tick.map}
  /\ seen' = seen \cup {a \in broken : tick.map[a] = "bad"}
  /\ UNCHANGED <<on, mirror, proxy, chain, daemon, cache, published, unsaved, worker, broken,
                 agent, events>>

(* write_capabilities(): a failure is logged.                              *)
Publish ==
  /\ At("publish") /\ tick' = [tick EXCEPT !.pc = "react"]
  /\ \/ published' = tick.map /\ unsaved' = FALSE /\ UNCHANGED events
     \/ Event /\ unsaved' = TRUE /\ UNCHANGED published
  /\ UNCHANGED <<on, mirror, proxy, chain, daemon, cache, base, worker, broken, seen, passed,
                 agent>>

(* _react_to_capability_edges(): a recreate of the switch that still runs  *)
(* is not joined by another.                                               *)
React ==
  LET healed == {a \in tick.edges \cap Listed : tick.map[a] = "ok"}
  IN  /\ At("react") /\ tick' = [tick EXCEPT !.pc = "live", !.edges = {}]
      /\ worker' = [a \in Axes |-> IF a \in healed /\ worker[a] = "none" THEN "run" ELSE worker[a]]
      /\ passed' = [a \in Axes |-> passed[a] \cup
                      IF a \in healed /\ worker[a] # "none" THEN {"busy"} ELSE {}]
      /\ UNCHANGED <<on, mirror, proxy, chain, daemon, cache, base, published, unsaved, broken,
                     seen, agent, events>>

(* The proxy's live settings, and the daemons: one that died comes back    *)
(* once its backoff is over; one may be held back; one that was left is    *)
(* reaped when its port is wanted, and not before.                         *)
Live ==
  /\ At("live") /\ tick' = [tick EXCEPT !.pc = "read", !.map = NoMap]
  /\ proxy' = tick.on
  /\ \E next \in [Daemoned -> {"none", "young", "old", "dead", "held"}] :
       /\ \A a \in Daemoned :
            CASE a \notin tick.on -> next[a] = IF daemon[a] = "left" THEN "left" ELSE "none"
              [] a \in tick.on /\ daemon[a] \in {"young", "old"} -> next[a] = daemon[a]
              [] a \in tick.on /\ daemon[a] = "dead" -> next[a] \in {"dead", "young", "held"}
              [] a \in tick.on /\ daemon[a] = "left" -> next[a] = "young"
              [] OTHER -> next[a] \in {"young", "held"}
       /\ daemon' = next
       /\ IF \E a \in Daemoned : next[a] = "held" /\ daemon[a] = "none"
          THEN Event ELSE UNCHANGED events
       /\ Breaks({a \in Daemoned : next[a] = "held" /\ daemon[a] # "held"})
  /\ UNCHANGED <<on, mirror, chain, cache, base, published, unsaved, worker, passed, agent>>

-----------------------------------------------------------------------------
(* _resnapshot_worker().                                                   *)
Recreate(a) ==
  /\ worker[a] = "run" /\ worker' = [worker EXCEPT ![a] = "end"]
  /\ \/ /\ broken' = IF Works(a) THEN broken \ {a} ELSE broken \cup {a}
        /\ seen' = seen \ {a} /\ passed' = [passed EXCEPT ![a] = {}] /\ UNCHANGED events
     \/ Event /\ passed' = [passed EXCEPT ![a] = @ \cup {"failed"}] /\ UNCHANGED <<broken, seen>>
  /\ UNCHANGED <<on, mirror, proxy, chain, daemon, tick, cache, base, published, unsaved, agent>>

WorkerEnds(a) ==
  /\ worker[a] = "end" /\ worker' = [worker EXCEPT ![a] = "none"]
  /\ UNCHANGED <<on, mirror, proxy, chain, daemon, tick, cache, base, published, unsaved, broken,
                 seen, passed, agent, events>>

-----------------------------------------------------------------------------
(* `fy claude': with its switch on, or no terminal, it launches at once;   *)
(* else _await_credential() waits for the mirror, _await_proxy() for       *)
(* writes of it.                                                           *)
Await ==
  /\ agent.pc = "idle" /\ Event
  /\ agent' \in {[NoAgent EXCEPT !.pc = "launched", !.late = TRUE]} \cup
                (IF Agent \in mirror THEN {} ELSE {[NoAgent EXCEPT !.pc = "wait"]})
  /\ UNCHANGED <<on, mirror, proxy, chain, daemon, tick, healthVars>>

(* Enter launches anyway, Ctrl-C cancels.                                  *)
Impatient ==
  /\ \/ agent.pc = "wait" /\ agent' = [NoAgent EXCEPT !.pc = "launched", !.late = TRUE]
     \/ agent.pc \in {"wait", "catchup"} /\ agent' = NoAgent
  /\ UNCHANGED <<on, mirror, proxy, chain, daemon, tick, events, healthVars>>

SeeOn ==
  /\ agent.pc = "wait" /\ Agent \in mirror
  /\ agent' = [NoAgent EXCEPT !.pc = "catchup", !.stamps = 1,
                              !.raced = Agent \notin on]
  /\ UNCHANGED <<on, mirror, proxy, chain, daemon, tick, events, healthVars>>

Stamps == 3

Poll ==
  /\ agent.pc = "catchup" /\ agent.new
  /\ agent' = [agent EXCEPT !.new = FALSE, !.stamps = @ + 1,
                            !.pc = IF agent.stamps + 1 = Stamps THEN "launched" ELSE "catchup"]
  /\ UNCHANGED <<on, mirror, proxy, chain, daemon, tick, events, healthVars>>

GiveUp ==
  /\ agent.pc = "catchup" /\ agent' = [agent EXCEPT !.pc = "launched", !.late = TRUE]
  /\ UNCHANGED <<on, mirror, proxy, chain, daemon, tick, events, healthVars>>

Leave ==
  /\ agent.pc = "launched" /\ agent' = NoAgent
  /\ UNCHANGED <<on, mirror, proxy, chain, daemon, tick, events, healthVars>>

-----------------------------------------------------------------------------
(* `fy mode', which writes the mirror itself and reconciles the stack;     *)
(* credentials that lapse and are renewed; daemons that die and age; a     *)
(* supervisor that ends.                                                   *)
SetMode(a) ==
  /\ Event
  /\ on' = IF a \in on THEN on \ {a} ELSE on \cup {a}
  /\ mirror' = on'
  /\ broken' = IF a \in on' /\ a \in Listed /\ ~Works(a) THEN broken \cup {a} ELSE broken \ {a}
  /\ seen' = seen \ {a} /\ passed' = [passed EXCEPT ![a] = {}]
  /\ agent' = [agent EXCEPT !.raced = Waiting, !.new = agent.pc = "catchup"]
  /\ UNCHANGED <<proxy, chain, daemon, tick, cache, base, published, unsaved, worker>>

Provider(a) ==
  /\ Event
  /\ chain' = IF a \in chain THEN chain \ {a} ELSE chain \cup {a}
  /\ IF a \in chain THEN Breaks({a} \cap on) ELSE UNCHANGED <<broken, seen>>
  /\ UNCHANGED <<on, mirror, proxy, daemon, tick, cache, base, published, unsaved, worker, passed,
                 agent>>

DaemonDies(a) ==
  /\ Event /\ daemon[a] \in Serving
  /\ daemon' = [daemon EXCEPT ![a] = IF @ = "left" THEN "none" ELSE "dead"]
  /\ Breaks({a} \cap on)
  /\ UNCHANGED <<on, mirror, proxy, chain, tick, cache, base, published, unsaved, worker, passed,
                 agent>>

Ages(a) ==
  /\ daemon[a] = "young" /\ daemon' = [daemon EXCEPT ![a] = "old"]
  /\ UNCHANGED <<on, mirror, proxy, chain, tick, agent, events, healthVars>>

(* What a supervisor knew goes with it, and so do its threads.             *)
Ends ==
  /\ Event /\ ~At("off") /\ tick' = NoTick
  /\ cache' = NoMap /\ base' = {}
  /\ worker' = [a \in Axes |-> "none"]
  /\ passed' = [a \in Axes |-> passed[a] \cup
                  IF worker[a] # "none" \/ unsaved \/ tick.pc \in {"publish", "react"}
                  THEN {"killed"} ELSE {}]
  /\ UNCHANGED <<on, proxy, chain, published, unsaved>>

(* Its daemons are in sessions of their own: a kill leaves them ...        *)
Kill ==
  /\ Ends
  /\ daemon' = [a \in Daemoned |-> IF daemon[a] \in Serving THEN "left" ELSE "none"]
  /\ agent' = [agent EXCEPT !.raced = @ \/ Waiting]
  /\ UNCHANGED <<mirror, broken, seen>>

(* ... and _shut_down() stops them, and writes the mirror once more.       *)
ShutDown ==
  /\ Ends
  /\ daemon' = [a \in Daemoned |-> IF daemon[a] = "left" THEN "left" ELSE "none"]
  /\ Breaks({a \in Daemoned \cap on : daemon[a] \in {"young", "old"}})
  /\ mirror' = on
  /\ agent' = [agent EXCEPT !.raced = @ \/ Waiting, !.new = agent.pc = "catchup"]

Tick == Boot \/ Read \/ Probe \/ Mirror \/ Advance \/ Publish \/ React \/ Live
Launch == Await \/ Impatient \/ SeeOn \/ Poll \/ GiveUp \/ Leave

Next ==
  \/ Tick \/ Launch \/ Kill \/ ShutDown
  \/ \E a \in Axes : Recreate(a) \/ WorkerEnds(a) \/ SetMode(a) \/ Provider(a)
  \/ \E a \in Daemoned : DaemonDies(a) \/ Ages(a)
Spec == Init /\ [][Next]_vars

-----------------------------------------------------------------------------
(* Listed switches that were published as failing and are published as     *)
(* working, whose services nobody has recreated or is about to.            *)
Overlooked ==
  {a \in Listed \cap on \cap broken \cap seen :
     /\ At("read") /\ worker[a] = "none" /\ \E map \in base : map[a] = "ok"}

(* Services that hold what stopped working are recreated once the switch   *)
(* is found to work again, whatever lapses and comes back in between and   *)
(* however often the supervisor is killed; unless it worked before it was  *)
(* claimed not to, a recreate failed or was still running, or the          *)
(* supervisor was killed between finding out and doing something about it. *)
(* And an agent that waited to the end is launched with a proxy that has   *)
(* its switch on, unless meanwhile the mode changed, a tick wrote one it   *)
(* had read earlier, or the supervisor ended.                              *)
RecoveryRecreates ==
  /\ \A a \in Overlooked : passed[a] # {}
  /\ agent.pc = "launched" /\ ~agent.late /\ ~agent.raced => Agent \in proxy

(* docs/modes.md:160: "On recovery, it recreates the services listed for   *)
(* that switch in `[resnapshot_on_capability]'."  Not when the switch's    *)
(* daemon was started again on the way: a switch that warms up makes no    *)
(* claim, and what makes none has nothing to recover from.                 *)
NoRecoveryUnclaimed ==
  \A a \in Overlooked : passed[a] \ {"unclaimed"} # {}
=============================================================================
