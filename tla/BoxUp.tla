------------------------------- MODULE BoxUp -------------------------------
(***************************************************************************)
(* `fy box up' and `fy box build' of one checkout's dev box: the image and *)
(* its layer of packages, each under a fingerprint of what it was built    *)
(* from, the box that is created from them once and then kept, and what    *)
(* an `up' that finds a box running says has changed since.  The files,    *)
(* the config and the installed foldyard change at any moment; a command   *)
(* fails or is killed at any step.                                         *)
(***************************************************************************)
EXTENDS Naturals, FiniteSets

CONSTANTS
  Defs,         \* what the image's Dockerfile may be
  PackageSets,  \* what [box].packages may list, {} for none
  Keys,         \* the environment names config and plugins may set
  Values,       \* ... and their values, not 0
  Agent,        \* the key whose absence has a line of its own
  OfImage,      \* definition -> the environment its image sets itself
  Versions,     \* of foldyard
  VMBase,       \* the definition of the base VM's image
  Ups,          \* commands
  MaxCommands, MaxEvents   \* bounds

VARIABLES
  want,         \* what files and config ask for
  host,         \* the foldyard installed on the host
  sandboxed,    \* the VM's own socket for gVisor boxes does apply it
  base, layer,  \* the images under the box's two tags
  fresh,        \* the next image id
  box,          \* the dev box
  cmd,          \* process -> the command it runs
  commands, events

vars == <<want, host, sandboxed, base, layer, fresh, box, cmd, commands, events>>

Unset == [k \in Keys |-> 0]
NoImage == [id |-> 0, label |-> <<>>, def |-> "", on |-> 0, packages |-> {}]
(* The box, the command that made it, and those that set it up.            *)
NoBox == [state |-> "none", image |-> NoImage, env |-> Unset, gvisor |-> FALSE,
          runtime |-> "", version |-> "", by |-> {}, set |-> {}]
Idle == [pc |-> "idle", kind |-> "", expected |-> "", label |-> "", of |-> <<>>, foldyard |-> "", run |-> "",
         said |-> {}, ok |-> TRUE, alone |-> TRUE]

(* The image the base VM came with.                                        *)
VMImage == [NoImage EXCEPT !.id = 1, !.label = <<VMBase>>, !.def = VMBase]

Init ==
  /\ want \in [def : Defs, packages : PackageSets, env : {Unset}, gvisor : {FALSE}]
  /\ host \in Versions /\ sandboxed \in BOOLEAN
  /\ base = NoImage /\ layer = NoImage /\ fresh = VMImage.id + 1
  /\ box = NoBox
  /\ cmd = [u \in Ups |-> Idle]
  /\ commands = 0 /\ events = 0

At(u, pc) == cmd[u].pc = pc
Goes(u, v) == cmd' = [cmd EXCEPT ![u] = v]
End(v, ok) == [v EXCEPT !.pc = "ended", !.ok = ok]
(* What one command does spoils another's picture.                         *)
Touches(u, v) ==
  cmd' = [w \in Ups |-> IF w = u THEN v ELSE [cmd[w] EXCEPT !.alone = FALSE]]
Mishap == events < MaxEvents /\ events' = events + 1
World == <<want, host, sandboxed>>

(* box_image_fingerprint(), and the layer's: what the base should be, the  *)
(* id it has, and the packages.                                            *)
Label(def) == <<def>>

(* Mutant: without the base's id.                                          *)
LayerLabel_Def(expected, id, packages) == <<expected, packages>>

LayerLabel(expected, id, packages) == <<expected, id, packages>>

(* _box_run_image()                                                        *)
RunLabel(v) ==
  IF v.of.packages = {} THEN Label(v.expected) ELSE LayerLabel(v.expected, base.id, v.of.packages)

-----------------------------------------------------------------------------
(* The config is read once.  The supervisor is launched, secrets are       *)
(* captured, and the launch waits for the supervisor's jobs; then what the *)
(* image should be is read.                                                *)
Begin(u) ==
  /\ At(u, "idle") /\ commands < MaxCommands /\ commands' = commands + 1
  /\ \E kind \in {"up", "build"} :
       \/ Goes(u, [Idle EXCEPT !.pc = IF kind = "up" THEN "look" ELSE "build",
                               !.kind = kind, !.expected = want.def,
                               !.of = want, !.foldyard = host]) /\ UNCHANGED events
       \/ Mishap /\ Goes(u, End([Idle EXCEPT !.kind = kind], FALSE))
  /\ UNCHANGED <<World, base, layer, fresh, box>>

(* _create_env(): a name config and plugins do not set is the image's own. *)
EnvOf(env, image) == [k \in Keys |-> IF env[k] # 0 THEN env[k] ELSE OfImage[image.def][k]]

(* _compare_env(): a name that should be there and is not, or not with     *)
(* that value, and one that only an older config set.                      *)
Differs(k, env) ==
  \/ env[k] # 0 /\ box.env[k] # env[k]
  \/ env[k] = 0 /\ box.env[k] # 0 /\ OfImage[box.image.def][k] # box.env[k]

Drifted(v) == {k \in Keys : Differs(k, v.of.env)}

StaleRuntime(v) == box.gvisor # v.of.gvisor
StaleFoldyard(v) == box.version # v.foldyard

(* A box that runs is kept, and everything create-time that differs said.  *)
Already(u) ==
  LET v == cmd[u]
      said == {w \in {"runtime", "image", "agent", "foldyard"} :
                 CASE w = "runtime" -> StaleRuntime(v)
                   [] w = "image" -> box.image.label # RunLabel(v)
                   [] w = "agent" -> v.of.env[Agent] # 0 /\ box.env[Agent] = 0
                   [] w = "foldyard" -> StaleFoldyard(v)}
  IN  /\ At(u, "look") /\ box.state = "running"
      /\ Goes(u, End([v EXCEPT !.said = said \cup Drifted(v)], TRUE))
      /\ UNCHANGED <<World, base, layer, fresh, box, commands, events>>

(* Otherwise, whatever is there by the time it is asked for goes.          *)
NotUp(u) ==
  /\ At(u, "look") /\ box.state # "running"
  /\ Goes(u, [cmd[u] EXCEPT !.pc = "remove"])
  /\ UNCHANGED <<World, base, layer, fresh, box, commands, events>>

Remove(u) ==
  LET v == [cmd[u] EXCEPT !.pc = "image"]
  IN  /\ At(u, "remove") /\ box' = NoBox
      /\ IF box.state = "none" THEN Goes(u, v) ELSE Touches(u, v)
      /\ UNCHANGED <<World, base, layer, fresh, commands, events>>

(* The image that is there, the base VM's under this tag, or a build.      *)
Image(u) ==
  LET v == cmd[u]
  IN  /\ At(u, "image")
      /\ \/ /\ base.label = Label(v.expected)
            /\ Goes(u, [v EXCEPT !.pc = "layer"]) /\ UNCHANGED <<base, fresh>>
         \/ /\ base.label # Label(v.expected) /\ v.expected = VMBase
            /\ base' = VMImage /\ UNCHANGED fresh
            /\ Touches(u, [v EXCEPT !.pc = "layer"])
         \/ /\ base.label # Label(v.expected) /\ v.expected # VMBase
            /\ Goes(u, [v EXCEPT !.pc = "build"]) /\ UNCHANGED <<base, fresh>>
      /\ UNCHANGED <<World, layer, box, commands, events>>

(* _build_img(): labelled with what the file says when the build is put    *)
(* together, made of what it says when the engine reads it; an unchanged   *)
(* definition may give the image that is there.                            *)
Measure(u) ==
  /\ At(u, "build") /\ Goes(u, [cmd[u] EXCEPT !.pc = "make", !.label = want.def])
  /\ UNCHANGED <<World, base, layer, fresh, box, commands, events>>

Build(u) ==
  LET v == cmd[u]
      made(id) == [NoImage EXCEPT !.id = id, !.label = Label(v.label), !.def = want.def]
  IN  /\ At(u, "make")
      /\ \/ base = made(base.id) /\ Goes(u, [v EXCEPT !.pc = "layer", !.label = ""])
            /\ UNCHANGED <<base, fresh, events>>
         \/ /\ base' = made(fresh) /\ fresh' = fresh + 1
            /\ Touches(u, [v EXCEPT !.pc = "layer", !.label = ""]) /\ UNCHANGED events
         \/ Mishap /\ Goes(u, End(v, FALSE)) /\ UNCHANGED <<base, fresh>>
      /\ UNCHANGED <<World, layer, box, commands>>

(* _ensure_packages_layer(): for `up' by what was read at its beginning,   *)
(* for `build' by what is there now.                                       *)
Layer(u) ==
  LET v == cmd[u]
      label == LayerLabel(IF v.kind = "build" THEN want.def ELSE v.expected, base.id, v.of.packages)
      then(image) == IF v.kind = "build" THEN End(v, TRUE) ELSE [v EXCEPT !.pc = "create", !.run = image]
      made == [NoImage EXCEPT !.id = fresh, !.label = label, !.def = base.def, !.on = base.id,
                              !.packages = v.of.packages]
  IN  /\ At(u, "layer")
      /\ \/ v.of.packages = {} /\ Goes(u, then("base"))
            /\ UNCHANGED <<layer, fresh, events>>
         \/ /\ v.of.packages # {} /\ layer.label = label /\ v.kind = "up"
            /\ Goes(u, then("layer")) /\ UNCHANGED <<layer, fresh, events>>
         \/ /\ v.of.packages # {} /\ (layer.label # label \/ v.kind = "build")
            /\ \/ /\ layer' = made /\ fresh' = fresh + 1
                  /\ Touches(u, then("layer")) /\ UNCHANGED events
               \/ Mishap /\ Goes(u, End(v, FALSE)) /\ UNCHANGED <<layer, fresh>>
      /\ UNCHANGED <<World, base, box, commands>>

(* `podman run': whatever its tag names by now, with the environment of    *)
(* now, through the socket whose runtime is asked for.                     *)
Create(u) ==
  LET v == cmd[u]
      image == IF v.run = "base" THEN base ELSE layer
  IN  /\ At(u, "create")
      /\ \/ /\ box.state = "none"
            /\ box' = [NoBox EXCEPT !.state = "running", !.image = image, !.env = EnvOf(v.of.env, image),
                         !.gvisor = v.of.gvisor, !.by = {u},
                         !.runtime = IF v.of.gvisor /\ sandboxed THEN "gvisor" ELSE "own"]
            /\ Touches(u, [v EXCEPT !.pc = "check"]) /\ UNCHANGED events
         \/ box.state # "none" /\ Goes(u, End(v, FALSE)) /\ UNCHANGED <<box, events>>
         \/ Mishap /\ Goes(u, End(v, FALSE)) /\ UNCHANGED box
      /\ UNCHANGED <<World, base, layer, fresh, commands>>

(* Mutant: the box's own word for its runtime is taken.                    *)
RightRuntime_Baked(v) == v.of.gvisor => box.gvisor

(* "Fail closed: never bootstrap (and hand credentials to) a box outside   *)
(* the posture."                                                           *)
RightRuntime(v) == v.of.gvisor => box.runtime = "gvisor"

Check(u) ==
  /\ At(u, "check")
  /\ \/ RightRuntime(cmd[u]) /\ Goes(u, [cmd[u] EXCEPT !.pc = "boot"]) /\ UNCHANGED box
     \/ ~RightRuntime(cmd[u]) /\ box' = NoBox /\ Touches(u, End(cmd[u], FALSE))
  /\ UNCHANGED <<World, base, layer, fresh, commands, events>>

(* _foldyard_install_subst(): the host's, staged as a wheel or pinned (a   *)
(* checkout that carries its own foldyard is left out); a wheel that       *)
(* cannot be built fails the step.                                         *)
Installed(v) == v.foldyard

(* The bootstrap: a step that fails is said.                               *)
Boot(u) ==
  LET v == cmd[u]
  IN  /\ At(u, "boot")
      /\ \/ /\ box.state = "running" /\ box' = [box EXCEPT !.version = Installed(v), !.set = @ \cup {u}]
            /\ Goes(u, End(v, TRUE)) /\ UNCHANGED events
         \/ Mishap /\ Goes(u, End([v EXCEPT !.said = {"bootstrap"}], TRUE)) /\ UNCHANGED box
         \/ box.state # "running" /\ Goes(u, End([v EXCEPT !.said = {"bootstrap"}], TRUE))
            /\ UNCHANGED <<box, events>>
      /\ UNCHANGED <<World, base, layer, fresh, commands>>

Finish(u) ==
  /\ At(u, "ended") /\ Goes(u, Idle)
  /\ UNCHANGED <<World, base, layer, fresh, box, commands, events>>

-----------------------------------------------------------------------------
(* Around the commands.                                                    *)

Spoil == cmd' = [u \in Ups |-> [cmd[u] EXCEPT !.alone = FALSE]]
Kill(u) ==
  /\ ~At(u, "idle") /\ ~At(u, "ended") /\ Mishap /\ Goes(u, Idle)
  /\ UNCHANGED <<World, base, layer, fresh, box, commands>>
Edit ==
  /\ Mishap /\ Spoil
  /\ \/ \E d \in Defs \ {want.def} : want' = [want EXCEPT !.def = d]
     \/ \E p \in PackageSets \ {want.packages} : want' = [want EXCEPT !.packages = p]
     \/ \E k \in Keys, x \in Values \cup {0} :
          x # want.env[k] /\ want' = [want EXCEPT !.env[k] = x]
     \/ want' = [want EXCEPT !.gvisor = ~@]
  /\ UNCHANGED <<host, sandboxed, base, layer, fresh, box, commands>>
Upgrade ==
  /\ Mishap /\ Spoil /\ host' \in Versions \ {host}
  /\ UNCHANGED <<want, sandboxed, base, layer, fresh, box, commands>>
BoxGoes ==
  /\ Mishap /\ Spoil /\ box.state # "none"
  /\ box' \in {NoBox} \cup (IF box.state = "running" THEN {[box EXCEPT !.state = "stopped"]} ELSE {})
  /\ UNCHANGED <<World, base, layer, fresh, commands>>

Step(u) ==
  \/ Begin(u) \/ Already(u) \/ NotUp(u) \/ Remove(u) \/ Image(u) \/ Measure(u) \/ Build(u)
  \/ Layer(u) \/ Create(u) \/ Check(u) \/ Boot(u) \/ Finish(u) \/ Kill(u)

Next == Edit \/ Upgrade \/ BoxGoes \/ \E u \in Ups : Step(u)
Spec == Init /\ [][Next]_vars

-----------------------------------------------------------------------------
(* What a box made now would be.                                           *)
Current ==
  /\ box.image.def = want.def /\ box.image.packages = want.packages
  /\ want.packages # {} => box.image.on = base.id
  /\ box.env = EnvOf(want.env, box.image)
  /\ box.runtime = IF want.gvisor THEN "gvisor" ELSE "own"
  /\ box.version = host

(* An image made while its file changed has the label of the old one.      *)
Mislabelled == box.image.label # <<>> /\ box.image.label[1] # box.image.def

(* Two commands at once: one looked at the box it made, and then set up    *)
(* the one the other put in its place.                                     *)
Crossed == ~(box.set \subseteq box.by)

(* An `up' that succeeds and has nothing to say leaves a box that is what  *)
(* files, config and foldyard ask for, whatever builds failed and whatever *)
(* commands were killed before it; and no box is given its tools and       *)
(* credentials outside the runtime it was asked to have.                   *)
QuietMeansCurrent ==
  /\ \A u \in Ups : LET v == cmd[u] IN
       At(u, "ended") /\ v.kind = "up" /\ v.ok /\ v.alone /\ v.said = {}
         => Mislabelled \/ Crossed \/ Current
  /\ box.version # "" /\ box.gvisor => Crossed \/ box.runtime = "gvisor"
=============================================================================
