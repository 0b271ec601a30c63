----------------------------- MODULE ImageStore -----------------------------
(***************************************************************************)
(* The engine's image store, which the stacks of the main checkout and of  *)
(* every worktree share.  A build commits layers that nothing names yet,   *)
(* tags the result for every service with the same build, and remembers    *)
(* what it replaced, to be removed once containers have moved off it.  A   *)
(* full store is swept before a build: of what nothing has named for a     *)
(* day, and of the images of worktrees that are gone.                      *)
(***************************************************************************)
EXTENDS Integers, Sequences, FiniteSets, Functions

CONSTANTS
  Prefix,       \* the main project's name, a sequence of words and dashes
  Paths,        \* paths worktrees may have under their root, sequences of words
  Services,     \* service -> its name, a sequence of words and dashes
  Mapping,      \* service -> its build mapping
  Contents,     \* what a build context may hold
  MaxBuilds, MaxEvents   \* bounds

VARIABLES
  checkouts,    \* paths with a checkout; <<>> is the main one
  files,        \* path -> what its build context holds
  images,       \* image -> "young" or "old", of those in the store
  tags,         \* reference -> [image, who built it]
  ctr,          \* <<path, service>> -> the image its container runs
  up,           \* path -> its `fy up'
  sweep,        \* the reclaim that runs
  lost,         \* live references and layers a sweep took
  builds, events

vars == <<checkouts, files, images, tags, ctr, up, sweep, lost, builds, events>>

Places == Paths \cup {<<>>}
ServiceNames == DOMAIN Services

(* A worktree's project: its path with the separators flattened.           *)
Flattened(q) == [i \in 1..2 * Len(q) |-> IF i % 2 = 1 THEN "-" ELSE q[i \div 2]]
Project(q) == Prefix \o Flattened(q)

(* Joined by podman's build, or by docker-compose's.                       *)
Ref(q, joint, s) == Project(q) \o <<joint>> \o Services[s]

NoUp == [pc |-> "idle", services |-> {}, before |-> {}, made |-> {}, fresh |-> {}, first |-> {},
         failed |-> {}, old |-> {}, doomed |-> <<>>, named |-> {}]
NoSweep == [pc |-> "idle", live |-> {}, there |-> {}, orphans |-> {}]

Init ==
  /\ checkouts = {<<>>}
  /\ files = [q \in Places |-> 1]
  /\ images = <<>> /\ tags = <<>> /\ ctr = <<>>
  /\ up = [q \in Places |-> NoUp]
  /\ sweep = NoSweep
  /\ lost = {}
  /\ builds = 0 /\ events = 0

At(q, pc) == up[q].pc = pc
Goes(q, v) == up' = [up EXCEPT ![q] = v]
With(f, x, y) == [z \in DOMAIN f \cup {x} |-> IF z = x THEN y ELSE f[z]]
Less(f, S) == Restrict(f, DOMAIN f \ S)

TagsOf(i) == {r \in DOMAIN tags : tags[r].image = i}
Held(i) == \E c \in DOMAIN ctr : ctr[c] = i
Image(q, s) == <<Mapping[s], files[q]>>
Stored(i) == IF i \in DOMAIN images THEN images ELSE With(images, i, "young")

-----------------------------------------------------------------------------
(* _podman_build(): the services rendered now, with the ids their tags     *)
(* have; one build for all that have the same mapping.                     *)
Begin(q) ==
  /\ At(q, "idle") /\ q \in checkouts /\ builds < MaxBuilds
  /\ \E S \in SUBSET ServiceNames \ {{}} :
       Goes(q, [NoUp EXCEPT !.pc = "build", !.services = S,
                  !.before = {<<s, tags[Ref(q, "_", s)].image>> :
                                s \in {t \in S : Ref(q, "_", t) \in DOMAIN tags}}])
  /\ builds' = builds + 1
  /\ UNCHANGED <<checkouts, files, images, tags, ctr, sweep, lost, events>>

(* The last layer is in the store and has no name yet; one the cache has   *)
(* keeps its age.                                                          *)
Commit(q, s) ==
  LET i == Image(q, s)
  IN  /\ At(q, "build") /\ s \in up[q].services
      /\ \A m \in up[q].made : m[1] # Mapping[s]
      /\ Mapping[s] \notin up[q].failed
      /\ images' = Stored(i)
      /\ Goes(q, [up[q] EXCEPT !.made = @ \cup {i},
                               !.fresh = @ \cup ({i} \ DOMAIN images)])
      /\ UNCHANGED <<checkouts, files, tags, ctr, sweep, lost, builds, events>>

(* The build's own tag goes on its layer, and an alias on whatever that    *)
(* tag names.  What is gone by then fails the service's build; the others  *)
(* go on.                                                                  *)
Group(q, s) == {t \in up[q].first : Mapping[t] = Mapping[s]}
Built(q, s) ==
  IF Group(q, s) = {} THEN {i \in up[q].made : i[1] = Mapping[s]}
  ELSE {tags[r].image : r \in {Ref(q, "_", t) : t \in Group(q, s)} \cap DOMAIN tags}

Tag(q, s) ==
  /\ At(q, "build") /\ s \in up[q].services /\ Mapping[s] \notin up[q].failed
  /\ \E i \in Built(q, s) \cap DOMAIN images :
       tags' = With(tags, Ref(q, "_", s), [image |-> i, by |-> q])
  /\ Goes(q, [up[q] EXCEPT !.services = @ \ {s},
                           !.first = @ \cup (IF Group(q, s) = {} THEN {s} ELSE {})])
  /\ UNCHANGED <<checkouts, files, images, ctr, sweep, lost, builds, events>>

TagFails(q, s) ==
  /\ At(q, "build") /\ s \in up[q].services
  /\ \/ Mapping[s] \in up[q].failed
     \/ /\ \E m \in up[q].made : m[1] = Mapping[s]
        /\ Built(q, s) \cap DOMAIN images = {}
  /\ Goes(q, [up[q] EXCEPT !.services = @ \ {s}, !.failed = @ \cup {Mapping[s]}])
  /\ UNCHANGED <<checkouts, files, images, tags, ctr, sweep, lost, builds, events>>

(* What the tags name now, against what they did.                          *)
Superseded(q) ==
  LET Now(s) == {tags[r].image : r \in {Ref(q, "_", s)} \cap DOMAIN tags}
  IN  /\ At(q, "build") /\ up[q].services = {}
      /\ Goes(q, IF up[q].failed # {} THEN NoUp
                 ELSE [NoUp EXCEPT !.pc = "compose",
                         !.old = {b[2] : b \in {c \in up[q].before : c[2] \notin Now(c[1])}}])
      /\ UNCHANGED <<checkouts, files, images, tags, ctr, sweep, lost, builds, events>>

(* `up -d --no-build': the project's containers move to the images its     *)
(* tags name.                                                              *)
Compose(q) ==
  LET tagged == {s \in ServiceNames : Ref(q, "_", s) \in DOMAIN tags}
  IN  /\ At(q, "compose")
      /\ ctr' = [c \in DOMAIN ctr \cup ({q} \X tagged) |->
                   IF c[1] = q /\ c[2] \in tagged THEN tags[Ref(q, "_", c[2])].image ELSE ctr[c]]
      /\ Goes(q, [up[q] EXCEPT !.pc = "old"])
      /\ UNCHANGED <<checkouts, files, images, tags, sweep, lost, builds, events>>

(* _remove_superseded(): an id no tag names, asked for one at a time ...   *)
Look(q) ==
  /\ At(q, "old")
  /\ IF up[q].old = {} THEN Goes(q, NoUp)
     ELSE \E i \in up[q].old :
            Goes(q, [up[q] EXCEPT !.old = @ \ {i}, !.doomed = i, !.named = TagsOf(i),
                       !.pc = IF i \in DOMAIN images /\ TagsOf(i) = {} THEN "rmi" ELSE "old"])
  /\ UNCHANGED <<checkouts, files, images, tags, ctr, sweep, lost, builds, events>>

(* ... and removed: the engine refuses one a container holds or several    *)
(* tags name, and takes the tag of one that has a single one.              *)
Rmi(q) ==
  LET i == up[q].doomed
      goes == i \in DOMAIN images /\ ~Held(i) /\ Cardinality(TagsOf(i)) < 2
  IN  /\ At(q, "rmi")
      /\ images' = IF goes THEN Less(images, {i}) ELSE images
      /\ tags' = IF goes THEN Less(tags, TagsOf(i)) ELSE tags
      /\ lost' = lost \cup (IF goes THEN TagsOf(i) \cap up[q].named ELSE {})
      /\ Goes(q, [up[q] EXCEPT !.pc = "old"])
      /\ UNCHANGED <<checkouts, files, ctr, sweep, builds, events>>

-----------------------------------------------------------------------------
(* reclaim(), when the store is low or by hand.                            *)

(* Untagged, and created more than a day ago.                              *)
Prunable == {i \in DOMAIN images : images[i] = "old" /\ TagsOf(i) = {} /\ ~Held(i)}

Prune ==
  /\ sweep.pc = "idle" /\ builds < MaxBuilds /\ builds' = builds + 1
  /\ images' = Less(images, Prunable)
  /\ lost' = lost \cup {i \in Prunable : \E q \in Places : i \in up[q].fresh}
  /\ sweep' = [NoSweep EXCEPT !.pc = "live"]
  /\ UNCHANGED <<checkouts, files, tags, ctr, up, events>>

(* _live_projects(); a list that cannot be read sweeps nothing, nor do     *)
(* services or images that cannot be listed.                               *)
Unreadable == sweep' = NoSweep

ListLive ==
  /\ sweep.pc = "live"
  /\ \/ sweep' = [sweep EXCEPT !.pc = "list", !.live = {Project(q) : q \in checkouts},
                               !.there = checkouts]
     \/ Unreadable
  /\ UNCHANGED <<checkouts, files, images, tags, ctr, up, lost, builds, events>>

(* _orphan_project_images(): every way to read the name as a project and a *)
(* service, with either joint.                                             *)
Readings(r) ==
  {SubSeq(r, 1, Len(r) - Len(Services[s]) - 1) :
     s \in {t \in ServiceNames : /\ Len(r) > Len(Services[t]) + 1
                          /\ SubSeq(r, Len(r) - Len(Services[t]) + 1, Len(r)) = Services[t]
                          /\ r[Len(r) - Len(Services[t])] \in {"_", "-"}}}

(* Mutant: any reading that is not a live project will do.                 *)
Orphans_Any(live) ==
  {r \in DOMAIN tags : \E p \in Readings(r) : p \notin live /\ Len(p) > Len(Prefix)}

Orphans(live) ==
  {r \in DOMAIN tags : /\ Readings(r) # {} /\ Readings(r) \cap live = {}
                       /\ \A p \in Readings(r) : Len(p) > Len(Prefix)}

ListOrphans ==
  /\ sweep.pc = "list"
  /\ \/ sweep' = [sweep EXCEPT !.pc = "rmi", !.orphans = Orphans(sweep.live)]
     \/ Unreadable
  /\ UNCHANGED <<checkouts, files, images, tags, ctr, up, lost, builds, events>>

(* `rmi' of the references: an image without another name goes with it,    *)
(* unless a container holds it.                                            *)
RmiOrphans ==
  LET gone == {r \in sweep.orphans \cap DOMAIN tags :
                 ~Held(tags[r].image) \/ TagsOf(tags[r].image) \ sweep.orphans # {}}
  IN  /\ sweep.pc = "rmi"
      /\ tags' = Less(tags, gone)
      /\ images' = Less(images, {i \in DOMAIN images : TagsOf(i) # {} /\ TagsOf(i) \subseteq gone})
      /\ lost' = lost \cup {r \in gone : tags[r].by \in checkouts \cap sweep.there}
      /\ sweep' = NoSweep
      /\ UNCHANGED <<checkouts, files, ctr, up, builds, events>>

-----------------------------------------------------------------------------
(* Worktrees come and go, contexts are edited, a day passes, docker-compose*)
(* builds, containers are removed.                                         *)
Event == events < MaxEvents /\ events' = events + 1 /\ UNCHANGED <<lost, builds, sweep>>

Worktree ==
  /\ Event
  /\ \/ \E q \in Paths \ checkouts : checkouts' = checkouts \cup {q}
     \/ \E q \in checkouts \ {<<>>} : checkouts' = checkouts \ {q}
  /\ ctr' = Less(ctr, {c \in DOMAIN ctr : c[1] \notin checkouts'})
  /\ up' = [q \in Places |-> IF q \in checkouts' THEN up[q] ELSE NoUp]
  /\ UNCHANGED <<files, images, tags>>
Edit ==
  /\ Event
  /\ \E q \in checkouts, c \in Contents : c # files[q] /\ files' = [files EXCEPT ![q] = c]
  /\ UNCHANGED <<checkouts, images, tags, ctr, up>>
DayPasses ==
  /\ Event /\ \A q \in Places : up[q].pc # "build"
  /\ images' = [i \in DOMAIN images |-> "old"]
  /\ UNCHANGED <<checkouts, files, tags, ctr, up>>
DockerBuilds ==
  /\ Event
  /\ \E q \in checkouts, s \in ServiceNames :
       /\ images' = Stored(Image(q, s))
       /\ tags' = With(tags, Ref(q, "-", s), [image |-> Image(q, s), by |-> q])
  /\ UNCHANGED <<checkouts, files, ctr, up>>
Down ==
  /\ Event
  /\ \E q \in checkouts : ctr' = Less(ctr, {c \in DOMAIN ctr : c[1] = q})
  /\ UNCHANGED <<checkouts, files, images, tags, up>>
(* A build fails; compose does, or the command is interrupted.             *)
BuildFails ==
  /\ Event
  /\ \/ \E q \in Places, s \in ServiceNames :
          /\ At(q, "build") /\ s \in up[q].services
          /\ Goes(q, [up[q] EXCEPT !.services = @ \ {s}, !.failed = @ \cup {Mapping[s]}])
     \/ \E q \in Places : ~At(q, "idle") /\ Goes(q, NoUp)
  /\ UNCHANGED <<checkouts, files, images, tags, ctr>>

World == Worktree \/ Edit \/ DayPasses \/ DockerBuilds \/ Down \/ BuildFails
Reclaim == Prune \/ ListLive \/ ListOrphans \/ RmiOrphans
Up(q) ==
  \/ Begin(q) \/ Superseded(q) \/ Compose(q) \/ Look(q) \/ Rmi(q)
  \/ \E s \in ServiceNames : Commit(q, s) \/ Tag(q, s) \/ TagFails(q, s)

Next == World \/ Reclaim \/ \E q \in Places : Up(q)
Spec == Init /\ [][Next]_vars

-----------------------------------------------------------------------------
(* The store is one and nobody locks it.  No sweep takes an image from     *)
(* under a checkout that was there when it looked, whatever its name may   *)
(* be read as, nor a tag that was there when it asked, nor the layer of a  *)
(* build in flight.                                                        *)
NothingLiveSwept == lost = {}
=============================================================================
