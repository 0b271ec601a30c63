----------------------------- MODULE MCComponents -----------------------------
(* The components that share no state with another module, each with a     *)
(* small instance of its own; EgressWall's constants have their values in  *)
(* the cfg.  A behaviour is one of them; the others are at rest for good.  *)
EXTENDS EgressWall, Integers, Sequences, FiniteSets

CONSTANTS
  Askers, Lifetime, Memory, MaxTime, MaxMints,
  Names, Main, Sessions, MaxItems, MaxCommands, MaxFaults,
  Words, StackPrefix, WorktreePaths, ServiceWords, BuildOf, ContextContents, MaxImageBuilds,
  MaxImageEvents,     \* of the image store
  Definitions, BaseDefinition, PackageSets, EnvKeys, EnvValues, AgentKey, ImageEnv, Versions,
  BoxUps, MaxBoxUps, MaxEdits,     \* of the box
  BoxSession, GitPaths, GitContents, GitSubs, GitTries, MaxGitCommits, MaxGitEvents,   \* of the two indexes
  StackServices, StackManaged, StackDeps, StackProfile, StackModes, StackEnabled, StackShaped,
  StackProviders, StackCallers, MaxVerbs, MaxMishaps      \* of the compose stack

(* A project has a name, and names are made of words.                      *)
ASSUME WordsAssumption ==
  /\ {"-", "_"} \subseteq Words
  /\ StackPrefix \in Seq(Words) /\ StackPrefix # <<>>
  /\ \A q \in WorktreePaths : q \in Seq(Words)
  /\ \A s \in DOMAIN ServiceWords : ServiceWords[s] \in Seq(Words)

(* Compose refuses a service whose dependency the enabled profiles leave   *)
(* out.                                                                    *)
ASSUME StackAssumption ==
  /\ IsFiniteSet(StackServices)
  /\ \A s \in StackServices : \A d \in StackDeps[s] :
       d \in StackServices /\ StackProfile[d] \in {"", StackProfile[s]}

(* There are tracked paths, and what one holds can be told from nothing    *)
(* staged; a terminal of the box is none of those who hold a lock beside.  *)
ASSUME GitAssumption ==
  /\ GitPaths # {} /\ -1 \notin GitContents /\ GitTries \in Nat
  /\ BoxSession \notin {"free", "stale", "host", "tick"}

(* A foldyard that answers has a version.                                  *)
ASSUME VersionsAssumption == "" \notin Versions

(* No worktree is called main: `fy worktree add` refuses it.               *)
ASSUME MainAssumption == Main \notin Names

VARIABLES
  part,
  clock, cache, failedAt, holder, calls, flight, request, revoked, mints,
  commits, head, past, seen, op, idx, lock, reflock, sync, ix, rec, stamp,
  offers, cmd, host, tick, staged, unsaid, spent,
  tree, work, parked, reg, localstate, slot, archived, vols, box, told,
  session, items, commands, faults, exempt, lost,
  ctr, conf, provider, verb, verbs, events,
  want, installed, sandboxed, base, layer, fresh, devbox, launch, launches,
  edits,
  places, files, images, tags, containers, up, sweep, swept, builds,
  changesMade

tokenVars ==
  <<clock, cache, failedAt, holder, calls, flight, request, revoked, mints>>
gitVars ==
  <<commits, head, past, seen, op, idx, lock, reflock, sync, ix, rec,
    stamp, offers, cmd, host, tick, staged, unsaid, spent>>
checkoutsVars ==
  <<tree, work, parked, reg, localstate, slot, archived, vols, box, told,
    session, items, commands, faults, exempt, lost>>
stackVars == <<ctr, conf, provider, verb, verbs, events>>
boxVars ==
  <<want, installed, sandboxed, base, layer, fresh, devbox, launch,
    launches, edits>>
imagesVars ==
  <<places, files, images, tags, containers, up, sweep, swept, builds,
    changesMade>>
allVars == <<part, tokenVars, vars, gitVars, checkoutsVars, stackVars, boxVars, imagesVars>>

(* Two credentials of one host that travel in different places and cover   *)
(* different paths; a host that may be tunnelled; and a local one.         *)
MCCredentials == {"gh", "pat"}
MCHost == [k \in MCCredentials |-> "api"]
MCScope == [k \in MCCredentials |-> IF k = "gh" THEN {"/x", "/y"} ELSE {"/x"}]
MCPlace == [k \in MCCredentials |-> IF k = "gh" THEN "header" ELSE "param"]

Settings(deny, on, held, overlaps, pass, push) ==
  [deny |-> deny, on |-> on, held |-> held, overlaps |-> overlaps, pass |-> pass, push |-> push]

LiveFiles ==
  { Settings(TRUE, {"gh"}, {"pat"}, {}, {}, {}),
    Settings(TRUE, {"gh", "pat"}, {}, {}, {"pypi"}, {"api"}),
    Settings(FALSE, {}, {}, {}, {"pypi"}, {}),
    Settings(TRUE, {}, {"gh"}, {"api"}, {"pypi"}, {}) }

AllowFiles ==
  { [allow |-> {"pypi"}, exact |-> {"pypi"}, build |-> {}],
    [allow |-> {"pypi", "ssh"}, exact |-> {"ssh"}, build |-> {"pypi"}] }

MCRequests ==
  [path : {"/x", "/y"}, names : {{}, {"pat"}, {"gh"}}, forged : {FALSE}]
    \cup {[path |-> "/push", names |-> {"gh"}, forged |-> FALSE],
          [path |-> "/x", names |-> {"gh"}, forged |-> TRUE]}

(* A stack of three, one of them in the developer's profile, and a mode's  *)
(* emulator; a mode that renders api differently, and an edit of db.       *)
MCDeps == [s \in StackServices |->
  CASE s = "api" -> {"db"} [] s = "worker" -> {"api"} [] OTHER -> {}]
MCProfile == [s \in StackServices |->
  CASE s = "worker" -> "data" [] s = "emu" -> "gcp" [] OTHER -> ""]
MCEnabled == [k \in {"off", "on", "edit"} |-> IF k = "on" THEN {"gcp"} ELSE {}]
MCShaped == [k \in {"off", "on", "edit"} |->
  CASE k = "on" -> {"api"} [] k = "edit" -> {"db"} [] OTHER -> {}]

(* Of two definitions of the box's image, the second has a key of its own. *)
MCPackages == {{}, {"jq"}}
MCImageEnv ==
  [d \in {"", "d1", "d2"} |-> [k \in {"key", "claude"} |-> IF d = "d2" /\ k = "key" THEN 1 ELSE 0]]

(* Services and paths whose names can be taken apart in more than one way: *)
(* fy-gh-bot_web is the second worktree's, and fy-gh's bot-web.            *)
MCServices == [s \in {"web", "bot"} |-> IF s = "web" THEN <<"web">> ELSE <<"bot", "-", "web">>]
MCPrefix == <<"fy">>
MCPaths == {<<"gh">>, <<"gh", "bot">>}
OneBuild == [s \in {"web", "bot"} |-> "b"]

Token == INSTANCE MintedToken WITH Requests <- Askers

Git == INSTANCE GitIndex
          WITH Sessions <- {BoxSession}, Paths <- GitPaths, Contents <- GitContents,
               Subs <- GitSubs, Tries <- GitTries,
               MaxCommits <- MaxGitCommits, MaxEvents <- MaxGitEvents

Yard == INSTANCE Checkouts

Stack == INSTANCE StackVerbs
          WITH Services <- StackServices, Managed <- StackManaged, Deps <- StackDeps,
               Profile <- StackProfile, Confs <- StackModes, Enabled <- StackEnabled,
               Shaped <- StackShaped, Providers <- StackProviders, Callers <- StackCallers,
               MaxEvents <- MaxMishaps

Box == INSTANCE BoxUp
          WITH host <- installed, box <- devbox, cmd <- launch, commands <- launches,
               events <- edits, Defs <- Definitions, Keys <- EnvKeys, Values <- EnvValues,
               Agent <- AgentKey, OfImage <- ImageEnv, VMBase <- BaseDefinition, Ups <- BoxUps,
               MaxCommands <- MaxBoxUps, MaxEvents <- MaxEdits

Store == INSTANCE ImageStore
          WITH checkouts <- places, ctr <- containers, lost <- swept, events <- changesMade,
               Prefix <- StackPrefix, Paths <- WorktreePaths, Services <- ServiceWords,
               Mapping <- BuildOf, Contents <- ContextContents,
               MaxBuilds <- MaxImageBuilds, MaxEvents <- MaxImageEvents

WallAtRest ==
  /\ live = ClosedLive /\ allow = ClosedAllow
  /\ seenLive = live /\ seenAllow = allow
  /\ conn = [c \in Clients |-> NoConn]
  /\ changes = 0 /\ requests = 0

StackAtRest ==
  /\ conf = "off" /\ provider = "podman"
  /\ ctr = [s \in StackServices |-> Stack!None]
  /\ verb = [p \in StackCallers |-> Stack!NoVerb]
  /\ verbs = 0 /\ events = 0

BoxAtRest ==
  /\ want = [def |-> "d1", packages |-> {}, env |-> Box!Unset, gvisor |-> FALSE]
  /\ installed = "1" /\ sandboxed = TRUE
  /\ base = Box!NoImage /\ layer = Box!NoImage /\ fresh = 2
  /\ devbox = Box!NoBox
  /\ launch = [u \in BoxUps |-> Box!Idle]
  /\ launches = 0 /\ edits = 0

AnyInit ==
  /\ part \in {"token", "wall", "git", "checkouts", "stack", "box", "images"}
  /\ Token!Init
  /\ IF part = "wall" THEN Init ELSE WallAtRest
  /\ Git!Init
  /\ Yard!Init
  /\ IF part = "stack" THEN Stack!Init ELSE StackAtRest
  /\ IF part = "box" THEN Box!Init ELSE BoxAtRest
  /\ Store!Init

NextToken ==
  /\ part = "token" /\ Token!Next
  /\ UNCHANGED <<part, vars, gitVars, checkoutsVars, stackVars, boxVars, imagesVars>>

NextWall ==
  /\ part = "wall" /\ Next
  /\ UNCHANGED <<part, tokenVars, gitVars, checkoutsVars, stackVars, boxVars, imagesVars>>

NextGit ==
  /\ part = "git" /\ Git!Next
  /\ UNCHANGED <<part, tokenVars, vars, checkoutsVars, stackVars, boxVars, imagesVars>>

NextYard ==
  /\ part = "checkouts" /\ Yard!Next
  /\ UNCHANGED <<part, tokenVars, vars, gitVars, stackVars, boxVars, imagesVars>>

NextStack ==
  /\ part = "stack" /\ Stack!Next
  /\ UNCHANGED <<part, tokenVars, vars, gitVars, checkoutsVars, boxVars, imagesVars>>

NextBox ==
  /\ part = "box" /\ Box!Next
  /\ UNCHANGED <<part, tokenVars, vars, gitVars, checkoutsVars, stackVars, imagesVars>>

NextStore ==
  /\ part = "images" /\ Store!Next
  /\ UNCHANGED <<part, tokenVars, vars, gitVars, checkoutsVars, stackVars, boxVars>>

AnyNext == NextToken \/ NextWall \/ NextGit \/ NextYard \/ NextStack \/ NextBox \/ NextStore

(* The threads and handlers of the token's rule are all that must go on.   *)
Fair(A) == part = "token" /\ A /\ UNCHANGED <<part, vars, gitVars, checkoutsVars, stackVars,
                                                   boxVars, imagesVars>>
FairSpec ==
  /\ AnyInit /\ [][AnyNext]_allVars
  /\ WF_allVars(Fair(Token!Thread))
  /\ \A r \in Askers : WF_allVars(Fair(Token!Handle(r)))

(* The properties of the parts beside the wall.                            *)
ReissuedWithAnother == Token!ReissuedWithAnother
EveryRequestAnswered == part = "token" => Token!EveryRequestAnswered
MasksOrSaid == Yard!MasksOrSaid
NothingLostUnasked == Yard!NothingLostUnasked
NoSilentRevert == Git!NoSilentRevert
HealKeepsStaged == Git!HealKeepsStaged
VerbsAsAsked == Stack!VerbsAsAsked
QuietMeansCurrent == Box!QuietMeansCurrent
NothingLiveSwept == Store!NothingLiveSwept
=============================================================================
