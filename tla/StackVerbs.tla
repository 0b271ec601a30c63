----------------------------- MODULE StackVerbs -----------------------------
(***************************************************************************)
(* The verbs that work on one compose project: `fy up', the reconcile      *)
(* after a mode change, the recreation of a service whose credentials came *)
(* back, `fy down'.  Each is a row of commands to the engine and to the    *)
(* compose client, several may be at work at once, and between them        *)
(* services crash, the VM restarts, the developer stops and starts         *)
(* services, and the compose provider is switched.                         *)
(***************************************************************************)
EXTENDS Naturals, FiniteSets

CONSTANTS
  Services,
  Managed,      \* the services a plugin's mode switch depends on
  Deps,         \* service -> the services it depends on
  Profile,      \* service -> its profile, "" if it has none
  Confs,        \* modes, and states of the compose files
  Enabled,      \* configuration -> the profiles its mode enables
  Shaped,       \* configuration -> the services it renders in its own way
  Providers,    \* "podman" (podman-compose), "docker"
  Callers,      \* processes that run a verb
  MaxVerbs, MaxEvents   \* bounds

VARIABLES
  ctr,          \* service -> its container, or None
  conf,         \* the configuration in force
  provider,     \* the compose provider in force
  verb,         \* caller -> the verb it runs
  verbs, events

vars == <<ctr, conf, provider, verb, verbs, events>>

None == [at |-> "none", hash |-> "", by |-> ""]
Container(at, hash, by) == [at |-> at, hash |-> hash, by |-> by]
Running(c) == {s \in Services : c[s].at = "running"}
Present(c) == {s \in Services : c[s] # None}

(* `confighash': what a container of the service is labelled with.         *)
Hash(k, s) == IF s \in Shaped[k] THEN k ELSE "base"
Rendered(k, extra) == {s \in Services : Profile[s] \in {""} \cup Enabled[k] \cup extra}

(* What a provider's `ps' lists: containers with its own label.            *)
Seen(by) == {s \in Present(ctr) : ctr[s].by = by}

(* One that exited by itself, and not for a signal, has crashed.           *)
Crashed(by) == {s \in Seen(by) : ctr[s].at = "crashed"}

(* Profiles that are not the mode's and have a running service: the        *)
(* developer's own.  In the order of the services, a profile that is       *)
(* enabled already is not added twice.                                     *)
Extra(k, running) == {Profile[s] : s \in running} \ ({""} \cup Enabled[k])

NoVerb == [pc |-> "none", kind |-> "", conf |-> "", by |-> "", extra |-> {}, doomed |-> {},
           wanted |-> {}, before |-> [s \in Services |-> None], alone |-> TRUE, ok |-> TRUE]

Init ==
  /\ conf \in Confs /\ Enabled[conf] = {} /\ Shaped[conf] = {}
  /\ provider \in Providers
  /\ \E up \in {{}, Rendered(conf, {}), Services \ Managed} :
       ctr = [s \in Services |-> IF s \in up THEN Container("running", "base", provider) ELSE None]
  /\ verb = [p \in Callers |-> NoVerb]
  /\ verbs = 0 /\ events = 0

(* The verb of p goes on; if it touched a container, no other is alone.    *)
Goes(p, v, c) ==
  /\ ctr' = c
  /\ verb' = [q \in Callers |-> IF q = p THEN v
                                ELSE [verb[q] EXCEPT !.alone = @ /\ c = ctr]]
  /\ UNCHANGED <<conf, provider, verbs>>
Steps(p, v) == Goes(p, v, ctr) /\ UNCHANGED events

At(p, pc) == verb[p].pc = pc
(* A command that fails; the verb is not blamed for what comes of it.      *)
Mishap == events < MaxEvents /\ events' = events + 1
Spoilt(v) == [v EXCEPT !.alone = FALSE]

-----------------------------------------------------------------------------
(* resolve(): the context is that of the mode and the provider of now.     *)

Resolve(p, kind) ==
  LET first == CASE kind = "up" -> "look" [] kind = "reconcile" -> "isup"
                 [] kind = "heal" -> "pick" [] kind = "down" -> "foreign"
  IN [NoVerb EXCEPT !.pc = first, !.kind = kind, !.conf = conf, !.by = provider, !.before = ctr]

Begin(p) ==
  /\ At(p, "none") /\ verbs < MaxVerbs
  /\ \E kind \in {"up", "down"} : verb' = [verb EXCEPT ![p] = Resolve(p, kind)]
  /\ verbs' = verbs + 1
  /\ UNCHANGED <<ctr, conf, provider, events>>

(* A capability has healed: the services that boot with it are named.      *)
BeginHeal(p) ==
  /\ At(p, "none") /\ verbs < MaxVerbs
  /\ \E s \in Services : verb' = [verb EXCEPT ![p] = [Resolve(p, "heal") EXCEPT !.wanted = {s}]]
  /\ verbs' = verbs + 1
  /\ UNCHANGED <<ctr, conf, provider, events>>

(* reconcile_posture(): is anything up but the mode's own services?  Any   *)
(* probe that fails says no.                                               *)
IsUp(p) ==
  /\ At(p, "isup")
  /\ \/ Running(ctr) \subseteq Managed /\ Steps(p, [verb[p] EXCEPT !.pc = "posture"])
     \/ ~(Running(ctr) \subseteq Managed) /\ Steps(p, [verb[p] EXCEPT !.pc = "look"])
     \/ Mishap /\ Goes(p, Spoilt([verb[p] EXCEPT !.pc = "posture"]), ctr)

(* _running_extra_profiles(), best effort.                                 *)
Look(p) ==
  LET v == verb[p]
      next == IF v.kind = "up" THEN "build" ELSE "foreign"
  IN  /\ At(p, "look")
      /\ \/ Steps(p, [v EXCEPT !.pc = next, !.extra = Extra(v.conf, Running(ctr) \cap Seen(v.by))])
         \/ Mishap /\ Goes(p, Spoilt([v EXCEPT !.pc = next]), ctr)

Build(p) ==
  /\ At(p, "build")
  /\ \/ Steps(p, [verb[p] EXCEPT !.pc = "foreign"])
     \/ Mishap /\ Goes(p, Spoilt([verb[p] EXCEPT !.pc = "done", !.ok = FALSE]), ctr)

-----------------------------------------------------------------------------
(* The sweeps before and after compose.                                    *)

(* Mutant: only running containers are listed.                             *)
Foreign_Running(by) == {s \in Running(ctr) : ctr[s].by # by}

(* _reconcile_foreign_containers(): those the provider does not see.       *)
Foreign(by) == {s \in Present(ctr) : ctr[s].by # by}

ListForeign(p) ==
  /\ At(p, "foreign")
  /\ \/ Steps(p, [verb[p] EXCEPT !.pc = "sweep", !.doomed = Foreign(verb[p].by)])
     \/ Mishap /\ Goes(p, Spoilt([verb[p] EXCEPT !.pc = "sweep"]), ctr)

Sweep(p) ==
  LET v == verb[p]
      gone == {s \in v.doomed : ctr[s].by # v.by}
  IN  /\ At(p, "sweep")
      /\ Goes(p, [v EXCEPT !.pc = IF v.kind = "down" THEN "compose" ELSE "strand", !.doomed = {}],
              [s \in Services |-> IF s \in gone THEN None ELSE ctr[s]])
      /\ UNCHANGED events

(* Everything that depends on one of a set of services.                    *)
Downstream(of) ==
  LET Reach[n \in 0..Cardinality(Services)] ==
        IF n = 0 THEN of ELSE Reach[n - 1] \cup {s \in Services : Deps[s] \cap Reach[n - 1] # {}}
  IN  {s \in Services : \E d \in Deps[s] : d \in Reach[Cardinality(Services)]}

Changed(k, rendered, by) ==
  {s \in rendered \cap Seen(by) : ctr[s].hash # Hash(k, s)}

(* podman-compose's up takes the changed services and all that depend on   *)
(* them down, and creates the changed and the running ones again.          *)
TakenDown(changed, rendered) == (changed \cup Downstream(changed)) \cap rendered
Recreated(changed, rendered) ==
  changed \cup (TakenDown(changed, rendered) \cap {s \in Present(ctr) : ctr[s].at = "running"})

(* _stranded_dependents(): what it would take down for good.               *)
Stranded(k, rendered, by) ==
  LET changed == Changed(k, rendered, by)
  IN  (TakenDown(changed, rendered) \cap Seen(by)) \ Recreated(changed, rendered)

ListStranded(p) ==
  LET v == verb[p]
      found == IF v.by = "podman" THEN Stranded(v.conf, Rendered(v.conf, v.extra), v.by) ELSE {}
  IN  /\ At(p, "strand")
      /\ \/ Steps(p, [v EXCEPT !.pc = "clear", !.doomed = found])
         \/ Mishap /\ Goes(p, Spoilt([v EXCEPT !.pc = "clear"]), ctr)

(* By name: whatever has it by now.                                        *)
Clear(p) ==
  /\ At(p, "clear")
  /\ Goes(p, [verb[p] EXCEPT !.pc = "compose", !.doomed = {}],
          [s \in Services |-> IF s \in verb[p].doomed THEN None ELSE ctr[s]])
  /\ UNCHANGED events

(* _remove_orphan_containers(): what the render no longer has.             *)
ListOrphans(p) ==
  LET v == verb[p]
  IN  /\ At(p, "orphans")
      /\ \/ Steps(p, [v EXCEPT !.pc = "reap",
                        !.doomed = Present(ctr) \ Rendered(v.conf, v.extra)])
         \/ Mishap /\ Goes(p, Spoilt([v EXCEPT !.pc = "done"]), ctr)

Reap(p) ==
  /\ At(p, "reap")
  /\ Goes(p, [verb[p] EXCEPT !.pc = "done", !.doomed = {}],
          [s \in Services |-> IF s \in verb[p].doomed THEN None ELSE ctr[s]])
  /\ UNCHANGED events

(* _reconcile_posture_services(): the stack is down; the mode's own        *)
(* services go and come.                                                   *)
Posture(p) ==
  LET v == verb[p]
      wanted == Managed \cap Rendered(v.conf, {})
      stale == (Managed \cap Running(ctr)) \ wanted
  IN  /\ At(p, "posture")
      /\ Goes(p, [v EXCEPT !.pc = IF wanted = {} THEN "done" ELSE "compose", !.wanted = wanted],
              [s \in Services |-> IF s \in stale THEN None ELSE ctr[s]])
      /\ UNCHANGED events

-----------------------------------------------------------------------------
(* The compose client.                                                     *)

(* A set of services, and everything they depend on.                       *)
WithDependencies(services) ==
  {s \in Services : s \in services \/ services \cap Downstream({s}) # {}}

(* What `up -d' of a set of services does with them and what they depend   *)
(* on: which it takes down, and which it makes.  A service whose           *)
(* dependency it took down for good cannot be made, and a name that is     *)
(* taken fails it before it begins.                                        *)
Plan(v, services) ==
  LET named == WithDependencies(services)
      changed == Changed(v.conf, named, v.by)
      down == IF v.by = "podman" THEN TakenDown(changed, named) \cap Present(ctr) ELSE changed
      again == IF v.by = "podman" THEN Recreated(changed, named) ELSE changed
      wanting == (named \ Present(ctr)) \cup again
      made == wanting \ Downstream(down \ again)
  IN  [named |-> named, down |-> down, made |-> made, ok |-> made = wanting,
       taken |-> \E s \in named \cap Present(ctr) : ctr[s].by # v.by]

Up(v, plan) ==
  [s \in Services |->
     CASE s \in plan.made -> Container("running", Hash(v.conf, s), v.by)
       [] s \in plan.down \ plan.made -> None
       [] s \in (plan.named \cap Present(ctr)) \ plan.down -> [ctr[s] EXCEPT !.at = "running"]
       [] OTHER -> ctr[s]]

Composed(v) == IF v.wanted # {} THEN v.wanted ELSE Rendered(v.conf, v.extra)

ComposeUp(p) ==
  LET v == verb[p]
      next == IF v.kind = "reconcile" /\ v.wanted = {} THEN "orphans" ELSE "done"
  IN  /\ At(p, "compose") /\ v.kind \in {"up", "reconcile"}
      /\ \E plan \in {Plan(v, Composed(v))} :
           \/ plan.taken /\ Steps(p, [v EXCEPT !.pc = "done", !.ok = FALSE])
           \/ /\ ~plan.taken
              /\ Goes(p, [v EXCEPT !.ok = plan.ok, !.pc = IF plan.ok THEN next ELSE "done"], Up(v, plan))
              /\ UNCHANGED events
           \/ /\ Mishap
              /\ Goes(p, Spoilt([v EXCEPT !.pc = "done", !.ok = FALSE]),
                      [s \in Services |-> IF s \in plan.down /\ ~plan.taken THEN None ELSE ctr[s]])

(* `down --remove-orphans': what the provider sees.                        *)
ComposeDown(p) ==
  /\ At(p, "compose") /\ verb[p].kind = "down"
  /\ Goes(p, [verb[p] EXCEPT !.pc = "done"],
          [s \in Services |-> IF s \in Seen(verb[p].by) THEN None ELSE ctr[s]])
  /\ UNCHANGED events

(* recreate_services(): those named that run, or that crashed.  An engine  *)
(* that does not say recreates nothing.                                    *)
Pick(p) ==
  LET v == verb[p]
      picked == v.wanted \cap ((Running(ctr) \cap Seen(v.by)) \cup Crashed(v.by))
      extra == Extra(v.conf, (Running(ctr) \cap Seen(v.by)) \cup (picked \cap Crashed(v.by)))
  IN  /\ At(p, "pick")
      /\ \/ Steps(p, [v EXCEPT !.wanted = picked \cap Rendered(v.conf, extra), !.extra = extra,
                        !.pc = IF picked \cap Rendered(v.conf, extra) = {} THEN "done" ELSE "force"])
         \/ Mishap /\ Goes(p, Spoilt([v EXCEPT !.pc = "done", !.ok = FALSE]), ctr)

(* `up --force-recreate --no-deps'.                                        *)
Force(p) ==
  LET v == verb[p]
      made == [s \in Services |-> IF s \in v.wanted THEN Container("running", Hash(v.conf, s), v.by)
                                  ELSE ctr[s]]
      taken == \E s \in v.wanted : ctr[s] # None /\ ctr[s].by # v.by
  IN  /\ At(p, "force")
      /\ \/ taken /\ Steps(p, [v EXCEPT !.pc = "done", !.ok = FALSE])
         \/ ~taken /\ Goes(p, [v EXCEPT !.pc = "done"], made) /\ UNCHANGED events
         \/ Mishap /\ Goes(p, Spoilt([v EXCEPT !.pc = "done", !.ok = FALSE]), ctr)

Finish(p) == At(p, "done") /\ Steps(p, NoVerb)

-----------------------------------------------------------------------------
(* The world.                                                              *)

Disturbs(c) ==
  /\ Mishap /\ ctr' = c
  /\ verb' = [q \in Callers |-> [verb[q] EXCEPT !.alone = FALSE]]
  /\ UNCHANGED verbs

Becomes(s, c) == Disturbs([ctr EXCEPT ![s] = c]) /\ UNCHANGED <<conf, provider>>

Crash == \E s \in Running(ctr) : Becomes(s, [ctr[s] EXCEPT !.at = "crashed"])
DeveloperStops == \E s \in Running(ctr) : Becomes(s, [ctr[s] EXCEPT !.at = "stopped"])
DeveloperStarts ==
  \E s \in Services \ Present(ctr) :
    /\ \A d \in Deps[s] : ctr[d].at = "running"
    /\ Becomes(s, Container("running", Hash(conf, s), provider))
VMRestarts ==
  /\ Disturbs([s \in Services |-> IF ctr[s] = None THEN None ELSE [ctr[s] EXCEPT !.at = "stopped"]])
  /\ UNCHANGED <<conf, provider>>
ProviderSwitched ==
  /\ provider' \in Providers \ {provider} /\ Disturbs(ctr) /\ UNCHANGED conf

(* The compose files change; or set_mode does, and reconciles.             *)
Edit == conf' \in Confs \ {conf} /\ Disturbs(ctr) /\ UNCHANGED provider
SetMode(p) ==
  /\ At(p, "none") /\ verbs < MaxVerbs
  /\ \E k \in Confs \ {conf} :
       /\ conf' = k
       /\ verb' = [q \in Callers |->
            IF q = p THEN [Resolve(p, "reconcile") EXCEPT !.conf = k]
            ELSE [verb[q] EXCEPT !.alone = FALSE]]
  /\ verbs' = verbs + 1
  /\ UNCHANGED <<ctr, provider, events>>

World == Crash \/ DeveloperStops \/ DeveloperStarts \/ VMRestarts \/ ProviderSwitched \/ Edit

Step(p) ==
  \/ Begin(p) \/ BeginHeal(p) \/ SetMode(p)
  \/ IsUp(p) \/ Look(p) \/ Build(p) \/ ListForeign(p) \/ Sweep(p) \/ ListStranded(p) \/ Clear(p)
  \/ ListOrphans(p) \/ Reap(p) \/ Posture(p) \/ ComposeUp(p) \/ ComposeDown(p) \/ Pick(p) \/ Force(p)
  \/ Finish(p)

Next == World \/ \E p \in Callers : Step(p)
Spec == Init /\ [][Next]_vars

-----------------------------------------------------------------------------
(* A verb that nothing else happened to does what it is for, whatever the  *)
(* verbs, crashes and switches before it left behind.                      *)
Delivered(p) == At(p, "done") /\ verb[p].alone

AsRendered(v, s) == ctr[s] = Container("running", Hash(v.conf, s), v.by)

(* up() and reconcile_posture() succeed, and what is rendered then runs as *)
(* rendered, made by the provider in force: no container of the other one  *)
(* is in the way, and none of podman-compose's own removals.  What ran     *)
(* before still does (_running_extra_profiles), but for a profile's        *)
(* service whose container the provider in force could not see.            *)
UpLeavesItRunning ==
  \A p \in Callers : LET v == verb[p] IN
    Delivered(p) /\ (v.kind = "up" \/ (v.kind = "reconcile" /\ v.wanted = {} /\ ~(Running(v.before) \subseteq Managed))) =>
      /\ v.ok
      /\ \A s \in Rendered(v.conf, v.extra) : AsRendered(v, s)
      /\ \A s \in Running(v.before) :
           s \in Running(ctr) \/ (Profile[s] # "" /\ v.before[s].by # v.by)

(* "A posture flip must never START a heavy stack the dev didn't ask for", *)
(* nor a heal anything that was stopped on purpose; and after `fy down'    *)
(* nothing is left, whoever made it.                                       *)
NothingStartsUnasked ==
  \A p \in Callers : LET v == verb[p] IN Delivered(p) =>
    /\ v.kind = "reconcile" /\ Running(v.before) \subseteq Managed =>
         Running(ctr) \subseteq Running(v.before) \cup WithDependencies(Managed)
    /\ v.kind = "heal" => \A s \in Services : v.before[s].at \in {"stopped", "none"} => ctr[s] = v.before[s]
    /\ v.kind = "down" => Present(ctr) = {}

(* A verb leaves running what it was asked to, and that only: the two      *)
(* together, since each is easily had by giving up the other.              *)
VerbsAsAsked == UpLeavesItRunning /\ NothingStartsUnasked
=============================================================================
