----------------------------- MODULE BuildGate -----------------------------
(***************************************************************************)
(* Image builds under the build gate: each proves itself to the proxy with *)
(* a secret of its own, kept hashed in one file of the project that every  *)
(* build rewrites; what the wall refuses it is offered host by host and    *)
(* the build tried again; and what was granted may be added to the         *)
(* checkout's foldyard.toml, and adopted if nothing else is in it.         *)
(***************************************************************************)
EXTENDS Naturals, Sequences, FiniteSets

CONSTANTS
  Builds,       \* terminals a build may run in
  Asking,       \* ... those with someone to answer
  Needs,        \* terminal -> the hosts its build asks for, in turn
  MaxAttempts,
  MaxBuilds, MaxEvents   \* bounds

VARIABLES
  tokens,       \* the secrets in the file, by their hash
  expired,      \* ... those whose six hours have passed
  lock,         \* who holds the file's lock
  gate,         \* terminal -> its build
  orphaned,     \* secrets of builds that ended without a revocation
  grants,       \* host -> "no", "once" or "kept", for builds
  tree,         \* the checkout's files the host runs from
  pin,          \* ... and their adopted copy
  reviewed,     \* what the operator was shown, without the gate's lines
  issued, events

vars == <<tokens, expired, lock, gate, orphaned, grants, tree, pin, reviewed, issued, events>>

Hosts == UNION {{Needs[b][k] : k \in DOMAIN Needs[b]} : b \in Builds}
NoBuild == [pc |-> "idle", secret |-> 0, copy |-> {}, attempt |-> 0, at |-> 0,
            seen |-> {}, stop |-> "", rc |-> 0, offer |-> {}, granted |-> {}, shared |-> {},
            seenTree |-> {}, seenPin |-> {}, missed |-> FALSE]

(* foldyard.toml, with the lines it recommends for builds, and the rest.   *)
Files(toml, other, hosts) == [toml |-> toml, other |-> other, hosts |-> hosts]
But(f) == <<f.toml, f.other>>

Init ==
  /\ tokens = {} /\ expired = {} /\ lock = ""
  /\ gate = [b \in Builds |-> NoBuild]
  /\ orphaned = {}
  /\ grants = [h \in Hosts |-> "no"]
  /\ tree = Files(1, 1, {}) /\ pin \in {{}, {Files(1, 1, {})}}
  /\ reviewed = {But(f) : f \in pin}
  /\ issued = 0 /\ events = 0

At(b, pc) == gate[b].pc = pc
Goes(b, v) == gate' = [gate EXCEPT ![b] = v]
To(b, pc) == Goes(b, [gate[b] EXCEPT !.pc = pc])
(* The build is over, and its secret goes.                                 *)
Over(v) == [NoBuild EXCEPT !.pc = "revoke", !.secret = v.secret, !.missed = v.missed]
TokenFile == <<tokens, lock>>
Config == <<tree, pin, reviewed>>

(* Mutant: without the lock.                                               *)
LockFree_Always == TRUE

LockFree == lock = ""

-----------------------------------------------------------------------------
(* _tokens_update(): read and pruned under the lock ...                    *)
Start(b) ==
  /\ At(b, "idle") /\ issued < MaxBuilds /\ issued' = issued + 1
  /\ Goes(b, [NoBuild EXCEPT !.pc = "issue", !.secret = issued + 1])
  /\ UNCHANGED <<TokenFile, expired, orphaned, grants, Config, events>>

Holding == [issue |-> "issuing", revoke |-> "revoking"]

Lock(b) ==
  /\ gate[b].pc \in DOMAIN Holding /\ LockFree
  /\ Goes(b, [gate[b] EXCEPT !.pc = Holding[@], !.copy = tokens \ expired])
  /\ lock' = b
  /\ UNCHANGED <<tokens, expired, orphaned, grants, Config, issued, events>>

(* ... changed, and put in the file's place.                               *)
Replace(b) ==
  /\ \/ /\ At(b, "issuing")
        /\ tokens' = gate[b].copy \cup {gate[b].secret} /\ To(b, "build")
     \/ /\ At(b, "revoking")
        /\ tokens' = gate[b].copy \ {gate[b].secret} /\ To(b, "ended")
  /\ lock' = ""
  /\ UNCHANGED <<expired, orphaned, grants, Config, issued, events>>

-----------------------------------------------------------------------------
(* The proxy: a build is one that shows a secret that is in the file and   *)
(* still good, and only then the grants for builds are its.                *)
Trusted(b) == gate[b].secret \in tokens \ expired
Granted(h) == grants[h] # "no"

(* An attempt.  Its mark is the whole second, so the last one's rows may   *)
(* count.                                                                  *)
Attempt(b) ==
  /\ At(b, "build")
  /\ \E early \in {{}, gate[b].seen} :
       Goes(b, [gate[b] EXCEPT !.pc = "runs", !.attempt = @ + 1, !.at = 1, !.seen = early,
                               !.stop = "", !.rc = 0])
  /\ UNCHANGED <<TokenFile, expired, orphaned, grants, Config, issued, events>>

Asks(b) == At(b, "runs") /\ gate[b].at \in DOMAIN Needs[b]

Allowed(b) ==
  /\ Asks(b) /\ Trusted(b) /\ Granted(Needs[b][gate[b].at])
  /\ Goes(b, [gate[b] EXCEPT !.at = @ + 1])
  /\ UNCHANGED <<TokenFile, expired, orphaned, grants, Config, issued, events>>

(* A host refused ends the build, or it finds another way.  The row of a   *)
(* trusted build is every running build's to read.                         *)
Refused(b) ==
  LET h == Needs[b][gate[b].at]
      row == IF Trusted(b) THEN {h} ELSE {}
      v == [gate[b] EXCEPT !.seen = @ \cup row, !.at = @ + 1]
      Ended == [v EXCEPT !.pc = "judge", !.rc = 1,
                         !.stop = IF gate[b].secret \in expired THEN "" ELSE h]
  IN  /\ Asks(b) /\ ~(Trusted(b) /\ Granted(h))
      /\ \E mine \in {v, Ended} :
           gate' = [c \in Builds |->
             IF c = b THEN mine
             ELSE IF gate[c].pc \in {"runs", "judge"} THEN [gate[c] EXCEPT !.seen = @ \cup row]
             ELSE gate[c]]
      /\ UNCHANGED <<TokenFile, expired, orphaned, grants, Config, issued, events>>

(* The build ends: well, or for reasons of its own.                        *)
Built(b) ==
  /\ At(b, "runs") /\ ~Asks(b)
  /\ \/ To(b, "judge") /\ UNCHANGED events
     \/ /\ events < MaxEvents /\ events' = events + 1
        /\ Goes(b, [gate[b] EXCEPT !.pc = "judge", !.rc = 1])
  /\ UNCHANGED <<TokenFile, expired, orphaned, grants, Config, issued>>

(* build_refusals(): what the proxy put down to a build, and is not        *)
(* granted by now.                                                         *)
Refusals(b) == {h \in gate[b].seen : ~Granted(h)}

Judge(b) ==
  LET v == [gate[b] EXCEPT !.missed = gate[b].rc # 0 /\ gate[b].stop # ""
                              /\ ~Granted(gate[b].stop) /\ gate[b].stop \notin Refusals(b)]
      done == IF b \in Asking /\ v.shared # {} THEN [v EXCEPT !.pc = "ask"] ELSE Over(v)
  IN  /\ At(b, "judge")
      /\ Goes(b, IF v.rc = 0 \/ Refusals(b) = {} \/ b \notin Asking THEN done
                 ELSE [v EXCEPT !.pc = "offer", !.offer = Refusals(b), !.granted = {}])
      /\ UNCHANGED <<TokenFile, expired, orphaned, grants, Config, issued, events>>

(* _offer(): one question per host ...                                     *)
Answer(b) ==
  /\ At(b, "offer")
  /\ \E h \in gate[b].offer, level \in {"no", "once", "kept"} :
       /\ grants' = IF level = "no" THEN grants ELSE [grants EXCEPT ![h] = level]
       /\ Goes(b, [gate[b] EXCEPT !.offer = @ \ {h},
                     !.granted = IF level = "no" THEN @ ELSE @ \cup {h}])
  /\ UNCHANGED <<TokenFile, expired, orphaned, Config, issued, events>>

(* ... and, with one granted, another attempt.                             *)
Retry(b) ==
  LET v == [gate[b] EXCEPT !.shared = @ \cup gate[b].granted]
  IN  /\ At(b, "offer") /\ gate[b].offer = {}
      /\ Goes(b, IF v.granted # {} /\ v.attempt < MaxAttempts THEN [v EXCEPT !.pc = "build"]
                 ELSE IF v.shared # {} THEN [v EXCEPT !.pc = "ask"] ELSE Over(v))
      /\ UNCHANGED <<TokenFile, expired, orphaned, grants, Config, issued, events>>

-----------------------------------------------------------------------------
(* _share(): once the operator says yes, the checkout and its adopted copy *)
(* are read (what cannot be edited safely ends it) ...                     *)
Inspect(b) ==
  /\ At(b, "ask")
  /\ \/ Goes(b, Over(gate[b]))
     \/ Goes(b, [gate[b] EXCEPT !.pc = "compare", !.seenTree = {tree}, !.seenPin = pin])
  /\ UNCHANGED <<TokenFile, expired, orphaned, grants, Config, issued, events>>

(* ... the file compared with what was read ...                            *)
Compare(b) ==
  LET same == \E f \in gate[b].seenTree : tree.toml = f.toml /\ tree.hosts = f.hosts
  IN  /\ At(b, "compare")
      /\ IF same THEN To(b, "write") ELSE Goes(b, Over(gate[b]))
      /\ UNCHANGED <<TokenFile, expired, orphaned, grants, Config, issued, events>>

Edited(b) == {[f EXCEPT !.hosts = @ \cup gate[b].shared] : f \in gate[b].seenTree}

OwnEdit(b) == gate[b].seenPin = gate[b].seenTree

(* ... and written over, with the lines added; what the box put there      *)
(* since the comparison is gone.                                           *)
WriteLines(b) ==
  /\ At(b, "write")
  /\ \E f \in Edited(b) : tree' = [f EXCEPT !.other = tree.other]
  /\ IF OwnEdit(b) THEN To(b, "adopt") ELSE Goes(b, Over(gate[b]))
  /\ UNCHANGED <<TokenFile, expired, orphaned, grants, pin, reviewed, issued, events>>

(* Mutant: whatever the tree holds by now is adopted.                      *)
AsReviewed_Any(b) == TRUE

(* It is adopted, pinned to exactly what was written.                      *)
AsReviewed(b) == {tree} = Edited(b)

AdoptLines(b) ==
  /\ At(b, "adopt")
  /\ pin' = IF AsReviewed(b) THEN {tree} ELSE pin
  /\ Goes(b, Over(gate[b]))
  /\ UNCHANGED <<TokenFile, expired, orphaned, grants, tree, reviewed, issued, events>>

Finish(b) ==
  /\ At(b, "ended") /\ Goes(b, NoBuild)
  /\ UNCHANGED <<TokenFile, expired, orphaned, grants, Config, issued, events>>

-----------------------------------------------------------------------------
(* Around the builds.  A process that dies lets go of its lock.            *)
Mishap == events < MaxEvents /\ events' = events + 1 /\ UNCHANGED issued

LetsGo(b) == lock' = IF lock = b THEN "" ELSE lock

(* An exception or Ctrl-C.  Within the build, its secret is still revoked; *)
(* while the file is being rewritten, it stays as it was.                  *)
Raises(b) ==
  /\ \/ /\ gate[b].pc \in {"build", "runs", "judge", "offer", "ask", "compare", "write", "adopt"}
        /\ Goes(b, Over(gate[b])) /\ UNCHANGED orphaned
     \/ gate[b].pc \in {"issue", "issuing"} /\ Goes(b, NoBuild) /\ UNCHANGED orphaned
     \/ /\ gate[b].pc \in {"revoke", "revoking"}
        /\ Goes(b, NoBuild) /\ orphaned' = orphaned \cup {gate[b].secret}
  /\ LetsGo(b) /\ Mishap
  /\ UNCHANGED <<tokens, expired, grants, Config>>

Kill(b) ==
  /\ ~At(b, "idle") /\ Mishap
  /\ LetsGo(b)
  /\ orphaned' = orphaned \cup {gate[b].secret}
  /\ Goes(b, NoBuild)
  /\ UNCHANGED <<tokens, expired, grants, Config>>
Expire(b) ==
  /\ ~At(b, "idle") /\ gate[b].secret \notin expired /\ Mishap
  /\ expired' = expired \cup {gate[b].secret}
  /\ UNCHANGED <<TokenFile, gate, orphaned, grants, Config>>
Lapse ==
  /\ \E h \in Hosts : grants[h] = "once" /\ grants' = [grants EXCEPT ![h] = "no"]
  /\ Mishap /\ UNCHANGED <<TokenFile, expired, gate, orphaned, Config>>
BoxEdits ==
  /\ tree' \in {[tree EXCEPT !.toml = 3 - @], [tree EXCEPT !.other = 3 - @]}
  /\ Mishap /\ UNCHANGED <<TokenFile, expired, gate, orphaned, grants, pin, reviewed>>
GateAdopts ==
  /\ pin' = {tree} /\ reviewed' = reviewed \cup {But(tree)}
  /\ Mishap /\ UNCHANGED <<TokenFile, expired, gate, orphaned, grants, tree>>

Step(b) ==
  \/ Start(b) \/ Lock(b) \/ Replace(b) \/ Attempt(b) \/ Allowed(b) \/ Refused(b) \/ Built(b)
  \/ Judge(b) \/ Answer(b) \/ Retry(b)
  \/ Inspect(b) \/ Compare(b) \/ WriteLines(b) \/ AdoptLines(b)
  \/ Finish(b) \/ Raises(b) \/ Kill(b) \/ Expire(b)

Next == Lapse \/ BoxEdits \/ GateAdopts \/ \E b \in Builds : Step(b)
Spec == Init /\ [][Next]_vars

-----------------------------------------------------------------------------
(* Builds in several worktrees rewrite one file.  A secret is good for as  *)
(* long as its build runs and no longer: what a build that still has its   *)
(* time was refused is said at its end, and no build that ended is trusted *)
(* (one that was killed, or whose revocation failed, is until its six      *)
(* hours are over).                                                        *)
SecretsOfTheRunning ==
  /\ \A b \in Builds : ~gate[b].missed
  /\ \A s \in tokens \ (expired \cup orphaned) :
       \E b \in Builds : gate[b].secret = s /\ ~At(b, "ended")

(* The host never runs from files the operator was not shown: what the     *)
(* gate adopts is what was adopted before, with the lines he said yes to,  *)
(* whenever the box writes the checkout.                                   *)
OnlyTheOperatorsLines == \A f \in pin : But(f) \in reviewed
=============================================================================
