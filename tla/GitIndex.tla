------------------------------- MODULE GitIndex -------------------------------
(***************************************************************************)
(* One checkout shared by two kernels: the computer's git keeps its index  *)
(* in .git/index, the box's git its own in index-box, and both move the    *)
(* same branch.  Whoever commits leaves the other index describing an      *)
(* older commit; committed as it is, that index would take the other       *)
(* side's work back.  The box's git shim heals both indexes, judges every  *)
(* move of the branch under git's own lock on it, and seals the shared     *)
(* index's heal to the move; the supervisor's tick installs the heals the  *)
(* shim could only offer (assets/box/git-index-shim.sh, githeal.py).       *)
(*                                                                         *)
(* A tree gives each path its content, a commit is a number, 0 stands for  *)
(* a branch with no commit.  The box's kernel may read a name the computer *)
(* just replaced as it was, or as absent (seen), until it looks it up      *)
(* again.  What the users staged, and what each commit was made from, is   *)
(* remembered beside the program's state for the properties to speak of.   *)
(***************************************************************************)
EXTENDS Integers, Sequences, SequencesExt, FiniteSets

CONSTANTS
  Sessions,     \* box sessions that run git in the checkout
  Paths,        \* tracked paths
  Contents,     \* what a path may hold; 0 at first
  Subs,         \* the git commands the box runs, of AllSubs
  Tries,        \* how often the shim heals before it gives up on a moving HEAD
  MaxCommits,   \* bound: commits made
  MaxEvents     \* bound: git commands of either side, and box commands killed

VARIABLES
  commits,  \* commit -> [parent, tree, by, asked, synced]
  head,     \* the branch, as it is on the computer's file system
  past,     \* HEAD's reflog: where the branch has been
  seen,     \* the branch as the box's kernel would read it now
  op,       \* the computer's git is in the middle of an operation
  idx,      \* the shared index: [tree, stat], stat standing for its stat cache
  lock,     \* who holds index.lock
  reflock,  \* who holds the branch's lock
  sync,     \* index.fy-head: the HEAD the shared index was last meant for
  ix,       \* index-box, NoTree when there is none
  rec,      \* index-box.head, the same for index-box
  stamp,    \* fy-box-head: the last HEAD a box git made
  offers,   \* index.fy-record, -proposed and -refused files, newest first
  cmd,      \* each session's git command
  host,     \* the computer's git command
  tick,     \* the supervisor's pass over the offers
  staged,   \* side -> path -> what its user staged there; "seed": what a first heal,
            \* or a checkout -B that moved ahead, took as meant
  unsaid,   \* [at, why]: a commit at which an index was left behind, or taken for
            \* its side's own, unsaid (see Excused)
  spent     \* the commands and kills so far

vars == <<commits, head, past, seen, op, idx, lock, reflock, sync, ix, rec, stamp,
          offers, cmd, host, tick, staged, unsaid, spent>>
refs == <<commits, head, past>>
shared == <<idx, lock, sync, offers>>
boxed == <<ix, rec, stamp>>
ghosts == <<staged, unsaid>>

AllSubs == {"add", "commit", "soft", "mixed", "force"}
HeadSubs == {"commit", "soft", "mixed", "force"}
Nothing == -1
NoTree == <<>>
Unstaged == [p \in Paths |-> Nothing]
NoCmd == [pc |-> "idle"]
NoHost == [pc |-> "idle"]
NoPass == [pc |-> "idle"]

Tree(c) == commits[c].tree
Parent(c) == commits[c].parent

(* merge-base --is-ancestor.                                               *)
Ancestors(c) ==
  LET up[b \in 0..Len(commits)] == IF b = 0 THEN {} ELSE {b} \cup up[Parent(b)] IN up[c]

(* Mutant: a heal takes the new commit's tree, staged work and all.        *)
Carried_Nothing(r, h, t) == Tree(h)

(* The staged work an index t holds against r, carried onto h: h's tree,   *)
(* with exactly the staged paths; a path the move also changed overlaps,   *)
(* unless h already holds what was staged.                                 *)
StagedPaths(r, t) == {p \in Paths : t[p] # Tree(r)[p]}
OverlapsWith(r, h, t) ==
  \E p \in StagedPaths(r, t) : t[p] # Tree(h)[p] /\ Tree(r)[p] # Tree(h)[p]
Carried(r, h, t) == [p \in Paths |-> IF p \in StagedPaths(r, t) THEN t[p] ELSE Tree(h)[p]]

(* An index that is exactly a tree HEAD has been at holds nothing of       *)
(* anyone's.                                                               *)
MatchesPastHead(t) == \E c \in past : Tree(c) = t
PurelyStale(r, t) == (r # 0 /\ t = Tree(r)) \/ MatchesPastHead(t)

(* What a heal of an index t last meant for r makes of it at h.            *)
Judged(r, h, t) ==
  CASE t = Tree(h) -> "matches"
    [] t # Tree(h) /\ PurelyStale(r, t) -> "ff"
    [] t # Tree(h) /\ ~PurelyStale(r, t) /\ r = 0 -> "meant"
    [] t # Tree(h) /\ ~PurelyStale(r, t) /\ r # 0 ->
         IF OverlapsWith(r, h, t) THEN "overlap" ELSE "carry"
Healed(r, h, t) == IF Judged(r, h, t) = "carry" THEN Carried(r, h, t) ELSE Tree(h)

Record(h) == [kind |-> "record", head |-> h, of |-> 0, base |-> NoTree, tree |-> NoTree]
Refusal(r, h, b) == [kind |-> "refused", head |-> h, of |-> r, base |-> b, tree |-> NoTree]
Proposal(h, b, t) == [kind |-> "proposed", head |-> h, of |-> 0, base |-> b, tree |-> t]

(* The offers of a set, in their order.                                    *)
Only(kept) ==
  LET upTo[i \in 0..Len(offers)] ==
        IF i = 0 THEN <<>>
        ELSE IF offers[i] \in kept THEN Append(upTo[i - 1], offers[i]) ELSE upTo[i - 1]
  IN upTo[Len(offers)]
Unlinked(o) == Only(ToSet(offers) \ {o})
WithOffer(o) == <<o>> \o Unlinked(o)
HasOffer(h, kinds) == \E o \in ToSet(offers) : o.head = h /\ o.kind \in kinds

AskedBy(sides) == [p \in Paths |-> {staged[side][p] : side \in sides}]

Init ==
  /\ commits = <<[parent |-> 0, tree |-> [p \in Paths |-> 0], by |-> "start",
                  asked |-> [p \in Paths |-> {}], synced |-> TRUE]>>
  /\ head = 1 /\ past = {1} /\ seen = 1 /\ op = FALSE
  /\ idx = [tree |-> [p \in Paths |-> 0], stat |-> 0] /\ lock = "free" /\ reflock = "free"
  /\ sync = 0
  /\ ix = NoTree /\ rec = 0 /\ stamp = 0
  /\ offers = <<>>
  /\ cmd = [s \in Sessions |-> NoCmd] /\ host = NoHost /\ tick = NoPass
  /\ staged = [side \in {"box", "host", "seed"} |-> Unstaged]
  /\ unsaid = {}
  /\ spent = 0

(* What is staged, by intent, in a tree t that describes c.                *)
Differing(t, c) == [p \in Paths |-> IF t[p] # Tree(c)[p] THEN t[p] ELSE Nothing]
Committed(st, t) == [p \in Paths |-> IF st[p] = t[p] THEN Nothing ELSE st[p]]
Unsaid(why, c) == {[at |-> c, why |-> why]}
NewCommit(p, t, by, asked, synced) ==
  [parent |-> p, tree |-> t, by |-> by, asked |-> asked, synced |-> synced]

-----------------------------------------------------------------------------
(* A git command of the box, through the shim.                             *)

Goto(s, pc) == cmd' = [cmd EXCEPT ![s].pc = pc]
Done(s) == cmd' = [cmd EXCEPT ![s] = NoCmd]

(* HEAD is looked up again; a command that moves it waits for the          *)
(* computer's operation to be over.                                        *)
Start(s, sub) ==
  /\ cmd[s].pc = "idle" /\ spent < MaxEvents
  /\ ~(op /\ sub \in HeadSubs)
  /\ seen' = head
  /\ cmd' = [cmd EXCEPT ![s] =
       [pc |-> IF ix = NoTree THEN "seed" ELSE "heal", sub |-> sub, cur |-> 0, tries |-> Tries,
        ok |-> TRUE, old |-> 0, new |-> 0, tree |-> NoTree, build |-> NoTree, base |-> NoTree,
        of |-> 0, held |-> NoTree, back |-> "idle", skipped |-> FALSE, asked |-> [p \in Paths |-> {}]]]
  /\ spent' = spent + 1
  /\ UNCHANGED <<refs, op, shared, reflock, boxed, host, tick, ghosts>>

(* A missing index-box is seeded from the shared index, or from HEAD when  *)
(* that never shows over the mount; published only while it is missing.    *)
Seed(s) ==
  /\ cmd[s].pc = "seed"
  /\ ix' \in IF ix # NoTree THEN {ix} ELSE {idx.tree, Tree(head)}
  /\ Goto(s, "heal")
  /\ UNCHANGED <<refs, seen, op, shared, reflock, rec, stamp, host, tick, ghosts, spent>>

(* Mutant: whoever moved HEAD, its move is taken for this side's.          *)
Verdict_Ours(c) == IF c = 0 \/ rec = c \/ op THEN "leave" ELSE "matches"

(* fy_heal.  A move this side made is deliberate; so is an index mid-way   *)
(* through an operation.                                                   *)
Verdict(c) ==
  IF c = 0 \/ rec = c \/ op THEN "leave"
  ELSE IF stamp = c THEN "matches" ELSE Judged(rec, c, ix)

Heal(s) ==
  /\ cmd[s].pc = "heal"
  /\ \E v \in {Verdict(seen)} :
       /\ cmd' = [cmd EXCEPT ![s].cur = seen, ![s].ok = v # "overlap",
                             ![s].skipped = op /\ seen # 0 /\ rec # seen,
                             ![s].pc = IF v = "ff" THEN "reset" ELSE "share"]
       /\ rec' = IF v \in {"matches", "meant", "carry"} THEN seen ELSE rec
       /\ ix' = IF v = "carry" THEN Carried(rec, seen, ix) ELSE ix
       /\ staged' = IF v = "meant" THEN [staged EXCEPT !["seed"] = ix] ELSE staged
  /\ unsaid' = IF ~op /\ stamp = seen /\ rec # seen /\ seen # 0
               THEN unsaid \cup Unsaid("ours", seen) ELSE unsaid
  /\ UNCHANGED <<refs, seen, op, shared, reflock, stamp, host, tick, spent>>

(* The one-way read-tree of a purely stale index.                          *)
HealReset(s) ==
  /\ cmd[s].pc = "reset"
  /\ ix' = Tree(cmd[s].cur) /\ rec' = cmd[s].cur
  /\ Goto(s, "share")
  /\ UNCHANGED <<refs, seen, op, shared, reflock, stamp, host, tick, ghosts, spent>>

(* fy_propose: offer, or build, what the shared index lacks for h.         *)
Propose(s, h, back) ==
  IF op \/ sync = h \/ HasOffer(h, {"record", "refused"})
  THEN Goto(s, back) /\ UNCHANGED offers
  ELSE \E v \in {Judged(sync, h, idx.tree)} :
         /\ offers' = CASE v \in {"matches", "meant"} -> WithOffer(Record(h))
                        [] v = "overlap" -> WithOffer(Refusal(sync, h, idx))
                        [] OTHER -> offers
         /\ cmd' = [cmd EXCEPT ![s].pc = IF v \in {"ff", "carry"} THEN "install" ELSE back,
                      ![s].build = IF v \in {"ff", "carry"} THEN Healed(sync, h, idx.tree) ELSE NoTree,
                      ![s].base = idx, ![s].of = h, ![s].back = back]

(* fy_shared_sync.                                                         *)
Share(s) ==
  /\ cmd[s].pc = "share"
  /\ LET c == cmd[s].cur IN
     IF c = 0 \/ sync = c THEN Goto(s, "again") /\ UNCHANGED <<sync, offers>>
     ELSE IF stamp = c THEN Propose(s, c, "again") /\ UNCHANGED sync
     ELSE /\ IF sync = 0 THEN sync' = c /\ UNCHANGED offers
             ELSE /\ offers' = IF HasOffer(c, {"record", "refused", "proposed"})
                               THEN offers ELSE WithOffer(Record(c))
                  /\ UNCHANGED sync
          /\ Goto(s, "again")
  /\ UNCHANGED <<refs, seen, op, idx, lock, reflock, boxed, host, tick, ghosts, spent>>

(* fy_install_shared: under index.lock, over the very entries it was built *)
(* from, while HEAD is what it was built for; otherwise left as an offer.  *)
Install(s) ==
  /\ cmd[s].pc = "install"
  /\ LET c == cmd[s] IN
     IF lock = "free" /\ head = c.of /\ idx.tree = c.base.tree
     THEN /\ lock' = s /\ idx' = [tree |-> c.build, stat |-> 0]
          /\ cmd' = [cmd EXCEPT ![s].pc = "installed", ![s].base = idx]
          /\ seen' = head /\ UNCHANGED offers
     ELSE /\ offers' = WithOffer(Proposal(c.of, c.base, c.build))
          /\ seen' = IF lock = "free" THEN head ELSE seen
          /\ Goto(s, c.back) /\ UNCHANGED <<lock, idx>>
  /\ UNCHANGED <<refs, op, reflock, sync, boxed, host, tick, ghosts, spent>>

(* ...and put back when HEAD moved meanwhile: the lock guards no ref.      *)
Installed(s) ==
  /\ cmd[s].pc = "installed"
  /\ seen' = head /\ lock' = "free"
  /\ idx' = IF head = cmd[s].of THEN idx ELSE cmd[s].base
  /\ Goto(s, IF head = cmd[s].of THEN "mark" ELSE cmd[s].back)
  /\ UNCHANGED <<refs, op, sync, offers, reflock, boxed, host, tick, ghosts, spent>>

Mark(s) ==
  /\ cmd[s].pc = "mark"
  /\ sync' = cmd[s].of
  /\ offers' = Only({o \in ToSet(offers) : o.kind # "proposed" \/ o.head # cmd[s].of})
  /\ Goto(s, cmd[s].back)
  /\ UNCHANGED <<refs, seen, op, idx, lock, reflock, boxed, host, tick, ghosts, spent>>

(* HEAD may have moved while the indexes were healed: heal again, a few    *)
(* times.  A commit is refused on a HEAD that keeps moving, on an index    *)
(* that could not be healed, and (as every move) on a branch that reads as *)
(* having no commit.                                                       *)
LookAgain(s) ==
  /\ cmd[s].pc = "again"
  /\ seen' = head
  /\ LET c == cmd[s]
         settled == head = c.cur
         refused == \/ c.sub = "commit" /\ (~settled \/ ~c.ok)
                    \/ c.cur = 0 /\ c.sub \in HeadSubs IN
     cmd' = [cmd EXCEPT ![s] =
       IF ~settled /\ c.tries > 1 THEN [c EXCEPT !.pc = "heal", !.tries = @ - 1]
       ELSE IF refused THEN NoCmd ELSE [c EXCEPT !.pc = "run"]]
  /\ UNCHANGED <<refs, op, shared, reflock, boxed, host, tick, ghosts, spent>>

(* The real git, reading HEAD as this kernel has it.  A commit takes its   *)
(* parent from that read, a reset its target; checkout -B gives the ref    *)
(* update no value to check.                                               *)
RunAdd(s) ==
  /\ cmd[s].pc = "run" /\ cmd[s].sub = "add"
  /\ \E p \in Paths, v \in Contents :
       /\ v # ix[p]
       /\ ix' = [ix EXCEPT ![p] = v]
       /\ staged' = [staged EXCEPT !["box"][p] = v]
  /\ Done(s)
  /\ UNCHANGED <<refs, seen, op, shared, reflock, rec, stamp, host, tick, unsaid, spent>>

RunCommit(s) ==
  /\ cmd[s].pc = "run" /\ cmd[s].sub = "commit"
  /\ IF Len(commits) < MaxCommits /\ (seen # 0 => ix # Tree(seen))
     THEN cmd' = [cmd EXCEPT ![s].pc = "ref", ![s].old = seen, ![s].tree = ix,
                             ![s].new = Len(commits) + 1, ![s].asked = AskedBy({"box", "seed"})]
     ELSE Done(s)
  /\ UNCHANGED <<refs, seen, op, shared, reflock, boxed, host, tick, ghosts, spent>>

RunMove(s) ==
  /\ cmd[s].pc = "run" /\ cmd[s].sub \in {"soft", "mixed", "force"}
  /\ LET to == IF seen = 0 \/ cmd[s].sub = "force" THEN seen ELSE Parent(seen) IN
     IF to = 0 THEN Done(s) /\ UNCHANGED <<ix, staged>>
     ELSE /\ cmd' = [cmd EXCEPT ![s].pc = "ref", ![s].new = to, ![s].tree = Tree(to)]
          /\ IF cmd[s].sub = "mixed"
             THEN ix' = Tree(to) /\ staged' = [staged EXCEPT !["box"] = Differing(Tree(to), head)]
             ELSE UNCHANGED <<ix, staged>>
  /\ UNCHANGED <<refs, seen, op, shared, reflock, rec, stamp, host, tick, unsaid, spent>>

(* fy_verify_transaction, under the lock on the branch, where a fresh read *)
(* is the truth: what git read must be it, a commit's parent must be the   *)
(* HEAD its index was healed for, the branch must be where the command     *)
(* found it, and a move with nothing to check it against must not go back. *)
Verified(c, old) ==
  /\ c.sub = "commit" => old = c.cur
  /\ ~op
  /\ head = c.cur
  /\ IF c.sub = "force" THEN c.new = c.cur \/ c.cur \in Ancestors(c.new)
     ELSE old = 0 \/ head = old

Prepare(s) ==
  /\ cmd[s].pc = "ref" /\ reflock = "free"
  /\ LET c == cmd[s]
         old == IF c.sub = "commit" THEN c.old ELSE seen IN
     \* git's own check reads the ref the same stale way
     IF (c.sub = "commit" => seen = old) /\ Verified(c, old)
     THEN reflock' = s /\ Goto(s, "build")
     ELSE Done(s) /\ UNCHANGED reflock
  /\ seen' = head
  /\ UNCHANGED <<refs, op, shared, boxed, host, tick, ghosts, spent>>

(* fy_tx_prepare: the healed shared index, built from a copy...  The tree  *)
(* of the commit about to land is in the transaction.                      *)
Sealing(r, t, target) ==
  LET mine == StagedPaths(r, t) IN
  IF \E p \in mine : t[p] # target[p] /\ Tree(r)[p] # target[p] THEN NoTree
  ELSE [p \in Paths |-> IF p \in mine THEN t[p] ELSE target[p]]

Lagging(c) ==
  unsaid \cup (IF sync # c.cur
               THEN Unsaid(IF c.sub \in {"soft", "mixed"} THEN "behind" ELSE "sealed", c.new) ELSE {})
         \cup (IF c.skipped THEN Unsaid("behind", c.new) ELSE {})

SealBuild(s) ==
  /\ cmd[s].pc = "build"
  /\ LET c == cmd[s] IN
     cmd' = [cmd EXCEPT ![s] =
       IF op \/ sync = 0 \/ Sealing(sync, idx.tree, c.tree) = NoTree
       THEN [c EXCEPT !.pc = "land"]
       ELSE [c EXCEPT !.pc = "seal", !.of = sync, !.base = idx,
                      !.build = Sealing(sync, idx.tree, c.tree)]]
  /\ unsaid' = Lagging(cmd[s])
  /\ UNCHANGED <<refs, seen, op, shared, reflock, boxed, host, tick, staged, spent>>

(* ...and put into index.lock, taken for as long as the move takes; built  *)
(* again if the index changed since.                                       *)
Seal(s) ==
  /\ cmd[s].pc = "seal"
  /\ LET c == cmd[s]
         build == IF idx = c.base THEN c.build ELSE Sealing(c.of, idx.tree, c.tree)
         sealed == lock = "free" /\ build # NoTree IN
     /\ lock' = IF sealed THEN s ELSE lock
     /\ cmd' = [cmd EXCEPT ![s].pc = "land", ![s].held = IF sealed THEN build ELSE NoTree]
  /\ UNCHANGED <<refs, seen, op, idx, sync, offers, reflock, boxed, host, tick, ghosts, spent>>

(* The branch moves; or the repository's own hook refuses, and the lock is *)
(* given back.                                                             *)
Land(s) ==
  /\ cmd[s].pc = "land"
  /\ LET c == cmd[s]
         to == IF c.sub = "commit" THEN Len(commits) + 1 ELSE c.new IN
     /\ commits' = IF c.sub = "commit"
                   THEN Append(commits, NewCommit(c.old, c.tree, "box", c.asked, ~c.skipped))
                   ELSE commits
     /\ head' = to /\ past' = past \cup {to} /\ seen' = to
     /\ staged' = CASE c.sub = "commit" -> [staged EXCEPT !["box"] = Committed(@, c.tree)]
                    [] c.sub \in {"soft", "mixed"} -> [staged EXCEPT !["box"] = Differing(ix, to)]
                    [] OTHER -> IF to = c.cur THEN staged ELSE [staged EXCEPT !["seed"] = ix]
     /\ cmd' = [cmd EXCEPT ![s].pc = "finish", ![s].new = to]
  /\ reflock' = "free" /\ unsaid' = Lagging(cmd[s])
  /\ UNCHANGED <<op, shared, boxed, host, tick, spent>>

Abort(s) ==
  /\ cmd[s].pc = "land"
  /\ reflock' = "free" /\ lock' = IF cmd[s].held # NoTree THEN "free" ELSE lock
  /\ Done(s)
  /\ UNCHANGED <<refs, seen, op, idx, sync, offers, boxed, host, tick, ghosts, spent>>

(* fy_tx_finish: the sealed index is renamed into place.  A reset of the   *)
(* computer's in between finds it as if it had come just after.            *)
Finish(s) ==
  /\ cmd[s].pc = "finish"
  /\ LET c == cmd[s] IN
     IF c.held # NoTree
     THEN /\ idx' = [tree |-> c.held, stat |-> 0] /\ lock' = "free" /\ sync' = c.new
          /\ staged' = IF head = c.new THEN staged
                       ELSE [staged EXCEPT !["host"] = Differing(c.held, head)]
     ELSE UNCHANGED <<idx, lock, sync, staged>>
  /\ Goto(s, "post")
  /\ UNCHANGED <<refs, seen, op, offers, reflock, boxed, host, tick, unsaid, spent>>

(* A move of our own is stamped, and whatever index it left is meant; a    *)
(* computer's move right after it is not ours to claim.                    *)
Post(s) ==
  /\ cmd[s].pc = "post"
  /\ IF seen = cmd[s].new /\ seen # cmd[s].cur
     THEN stamp' = seen /\ rec' = seen /\ Goto(s, "propose")
     ELSE Done(s) /\ UNCHANGED <<stamp, rec>>
  /\ UNCHANGED <<refs, seen, op, shared, reflock, ix, host, tick, ghosts, spent>>

ProposePost(s) ==
  /\ cmd[s].pc = "propose"
  /\ Propose(s, cmd[s].new, "idle")
  /\ UNCHANGED <<refs, seen, op, idx, lock, sync, reflock, boxed, host, tick, ghosts, spent>>

(* A box command killed anywhere leaves its locks behind, until someone    *)
(* removes them.                                                           *)
Kill(s) ==
  /\ cmd[s].pc # "idle" /\ spent < MaxEvents
  /\ lock' = IF lock = s THEN "stale" ELSE lock
  /\ reflock' = IF reflock = s THEN "stale" ELSE reflock
  /\ unsaid' = IF cmd[s].pc \in {"finish", "post"} THEN unsaid \cup Unsaid("killed", cmd[s].new) ELSE unsaid
  /\ staged' = IF cmd[s].pc = "installed" /\ cmd[s].of # head
               THEN [staged EXCEPT !["host"] = Differing(idx.tree, head)] ELSE staged
  /\ Done(s)
  /\ spent' = spent + 1
  /\ UNCHANGED <<refs, seen, op, idx, sync, offers, boxed, host, tick>>

RemoveLock ==
  /\ \/ lock = "stale" /\ lock' = "free" /\ UNCHANGED reflock
     \/ reflock = "stale" /\ reflock' = "free" /\ UNCHANGED lock
  /\ UNCHANGED <<refs, seen, op, idx, sync, offers, boxed, cmd, host, tick, ghosts, spent>>

(* The box's kernel looks a stale name up again by itself, in time.        *)
CatchUp ==
  /\ seen # head /\ seen' = head
  /\ UNCHANGED <<refs, op, shared, reflock, boxed, cmd, host, tick, ghosts, spent>>

BoxStep(s) ==
  \/ \E sub \in Subs : Start(s, sub)
  \/ Seed(s) \/ Heal(s) \/ HealReset(s) \/ Share(s) \/ Install(s) \/ Installed(s) \/ Mark(s)
  \/ LookAgain(s) \/ RunAdd(s) \/ RunCommit(s) \/ RunMove(s) \/ Prepare(s)
  \/ SealBuild(s) \/ Seal(s) \/ Land(s) \/ Abort(s) \/ Finish(s) \/ Post(s) \/ ProposePost(s)
  \/ Kill(s)

-----------------------------------------------------------------------------
(* The computer's git, which knows nothing of the box.                     *)

HostIdle == host.pc = "idle" /\ spent < MaxEvents
Glimpse(to) == seen' \in {seen, 0, to}   \* what the box then reads

(* An add, or a status that rewrites the stat cache: the lock, the file.   *)
HostLocks ==
  /\ HostIdle /\ lock = "free" /\ lock' = "host"
  /\ host' = [pc |-> "writing"] /\ spent' = spent + 1
  /\ UNCHANGED <<refs, seen, op, idx, sync, offers, reflock, boxed, cmd, tick, ghosts>>

HostWrites ==
  /\ host.pc = "writing" /\ lock' = "free" /\ host' = NoHost
  /\ \/ idx' = [idx EXCEPT !.stat = 1] /\ UNCHANGED staged
     \/ \E p \in Paths, v \in Contents :
          /\ v # idx.tree[p]
          /\ idx' = [tree |-> [idx.tree EXCEPT ![p] = v], stat |-> 1]
          /\ staged' = [staged EXCEPT !["host"][p] = v]
  /\ UNCHANGED <<refs, seen, op, sync, offers, reflock, boxed, cmd, tick, unsaid, spent>>

(* A commit reads HEAD and, under index.lock, the index...                 *)
HostBegins ==
  /\ HostIdle /\ lock = "free" /\ ~op
  /\ Len(commits) < MaxCommits /\ idx.tree # Tree(head)
  /\ host' = [pc |-> "committing", parent |-> head, tree |-> idx.tree,
              asked |-> AskedBy({"host"}), synced |-> sync = head]
  /\ spent' = spent + 1
  /\ UNCHANGED <<refs, seen, op, shared, reflock, boxed, cmd, tick, ghosts>>

(* ...and moves the branch from that HEAD, or not at all.                  *)
HostLands ==
  /\ host.pc = "committing" /\ reflock = "free" /\ host' = NoHost
  /\ IF head = host.parent /\ Len(commits) < MaxCommits
     THEN LET to == Len(commits) + 1 IN
          /\ commits' = Append(commits, NewCommit(host.parent, host.tree, "host", host.asked, host.synced))
          /\ head' = to /\ past' = past \cup {to} /\ Glimpse(to)
          /\ staged' = [staged EXCEPT !["host"] = Committed(@, host.tree)]
          /\ unsaid' = IF host.synced /\ (idx.stat = 0 => idx.tree = host.tree) THEN unsaid
                       ELSE unsaid \cup Unsaid("behind", to)
     ELSE UNCHANGED <<refs, seen, ghosts>>
  /\ UNCHANGED <<op, shared, reflock, boxed, cmd, tick, spent>>

(* The shared index as it will be once a heal that is in the middle of     *)
(* installing has found HEAD at a commit.                                  *)
Standing(to) ==
  IF tick.pc = "written" /\ Head(tick.left).head # to THEN tick.kept.tree
  ELSE IF \E s \in Sessions : cmd[s].pc = "installed" /\ cmd[s].of # to
       THEN cmd[CHOOSE s \in Sessions : cmd[s].pc = "installed" /\ cmd[s].of # to].base.tree
       ELSE idx.tree

HostResets ==
  /\ HostIdle /\ reflock = "free" /\ ~op /\ Parent(head) # 0
  /\ LET to == Parent(head) IN
     /\ head' = to /\ past' = past \cup {to} /\ Glimpse(to)
     /\ \E mixed \in {FALSE} \cup (IF lock = "free" THEN {TRUE} ELSE {}) :
          /\ idx' = IF mixed THEN [tree |-> Tree(to), stat |-> 1] ELSE idx
          /\ staged' = [staged EXCEPT
               !["host"] = IF mixed THEN Unstaged ELSE Differing(Standing(to), to),
               !["box"] = IF rec = to THEN Differing(ix, to) ELSE @]
  /\ spent' = spent + 1
  /\ UNCHANGED <<commits, op, lock, sync, offers, reflock, boxed, cmd, host, tick, unsaid>>

(* A merge, a cherry-pick, a rebase: it wants a clean index, leaves its    *)
(* state files, and moves the branch and the index to what it made, or is  *)
(* given up.                                                               *)
HostOperates ==
  /\ HostIdle /\ ~op /\ lock = "free" /\ idx.tree = Tree(head)
  /\ op' = TRUE /\ host' = [pc |-> "operating", from |-> head] /\ spent' = spent + 1
  /\ UNCHANGED <<refs, seen, shared, reflock, boxed, cmd, tick, ghosts>>

HostOperated ==
  /\ host.pc = "operating" /\ reflock = "free" /\ lock = "free"
  /\ op' = FALSE /\ host' = NoHost
  /\ \/ /\ head = host.from /\ Len(commits) < MaxCommits
        /\ \E p \in Paths, v \in Contents :
             LET to == Len(commits) + 1
                 t == [Tree(head) EXCEPT ![p] = v] IN
             /\ v # Tree(head)[p]
             /\ commits' = Append(commits, NewCommit(head, t, "host", [q \in Paths |-> IF q = p THEN {v} ELSE {}], TRUE))
             /\ head' = to /\ past' = past \cup {to} /\ Glimpse(to)
             /\ idx' = [tree |-> t, stat |-> 1]
             /\ staged' = [staged EXCEPT !["host"] = Unstaged]
     \/ UNCHANGED <<refs, seen, idx, staged>>
  /\ UNCHANGED <<lock, sync, offers, reflock, boxed, cmd, tick, unsaid, spent>>

HostStep ==
  HostLocks \/ HostWrites \/ HostBegins \/ HostLands \/ HostResets \/ HostOperates \/ HostOperated

-----------------------------------------------------------------------------
(* The supervisor's tick: the offers, newest first, one install a pass.    *)

Sweep ==
  /\ tick.pc = "idle" /\ offers # <<>> /\ ~op /\ lock = "free"
  /\ tick' = [pc |-> "pass", left |-> offers, head |-> head, done |-> FALSE, kept |-> NoTree]
  /\ UNCHANGED <<refs, seen, op, shared, reflock, boxed, cmd, host, ghosts, spent>>

NextOffer == [tick EXCEPT !.left = Tail(@)]

SweepOffer ==
  /\ tick.pc = "pass"
  /\ IF tick.left = <<>> THEN tick' = NoPass /\ UNCHANGED shared
     ELSE LET o == Head(tick.left) IN
       CASE o.kind = "record" ->
              /\ sync' = IF o.head = tick.head THEN o.head ELSE sync
              /\ offers' = Unlinked(o) /\ tick' = NextOffer /\ UNCHANGED <<idx, lock>>
         [] o.kind = "refused" ->
              /\ offers' = IF o.head # tick.head \/ idx # o.base THEN Unlinked(o) ELSE offers
              /\ tick' = NextOffer /\ UNCHANGED <<idx, lock, sync>>
         [] o.kind = "proposed" ->
              IF ~tick.done /\ o.head = tick.head /\ lock = "free" /\ idx = o.base /\ head = o.head
              THEN /\ lock' = "tick" /\ idx' = [tree |-> o.tree, stat |-> 0]
                   /\ tick' = [tick EXCEPT !.pc = "written", !.kept = idx]
                   /\ UNCHANGED <<sync, offers>>
              ELSE offers' = Unlinked(o) /\ tick' = NextOffer /\ UNCHANGED <<idx, lock, sync>>
  /\ UNCHANGED <<refs, seen, op, reflock, boxed, cmd, host, ghosts, spent>>

(* HEAD once more: the lock guards no ref.                                 *)
SweepRecheck ==
  /\ tick.pc = "written" /\ lock' = "free"
  /\ idx' = IF head = Head(tick.left).head THEN idx ELSE tick.kept
  /\ tick' = [tick EXCEPT !.pc = IF head = Head(tick.left).head THEN "note" ELSE "drop", !.kept = NoTree]
  /\ UNCHANGED <<refs, seen, op, sync, offers, reflock, boxed, cmd, host, ghosts, spent>>

SweepNote ==
  /\ tick.pc \in {"note", "drop"}
  /\ sync' = IF tick.pc = "note" THEN Head(tick.left).head ELSE sync
  /\ offers' = Unlinked(Head(tick.left))
  /\ tick' = [NextOffer EXCEPT !.pc = "pass", !.done = tick.done \/ tick.pc = "note"]
  /\ UNCHANGED <<refs, seen, op, idx, lock, reflock, boxed, cmd, host, ghosts, spent>>

TickStep == Sweep \/ SweepOffer \/ SweepRecheck \/ SweepNote

Next == (\E s \in Sessions : BoxStep(s)) \/ RemoveLock \/ CatchUp \/ HostStep \/ TickStep
Spec == Init /\ [][Next]_vars

-----------------------------------------------------------------------------
(* What a commit changes that the side that made it had not staged.        *)
Taken(c) ==
  IF Parent(c) = 0 THEN {}
  ELSE {p \in Paths : Tree(c)[p] # Tree(Parent(c))[p] /\ Tree(c)[p] \notin commits[c].asked[p]}

(* The commits no promise is made of: one whose heal was passed over       *)
(* because the computer was in the middle of an operation then, and no     *)
(* longer when the move was judged; one of the computer's while the sync   *)
(* point says its index is not meant for the HEAD it is made on; and one   *)
(* made where an index had been left                                       *)
(*   killed: by a box command killed before it could stamp its move,       *)
(*   behind: by a reset of the box, or such a commit, while it lagged, or  *)
(*     by one of the computer's under whose message a heal was installed,  *)
(*   sealed: by a move of the box sealed against a lagging sync point,     *)
(*   ours: by the computer's going back to the HEAD a box's git last made. *)
Excused(c, whys) ==
  ~commits[c].synced \/ \E u \in unsaid : u.at = Parent(c) /\ u.why \in whys

(* No commit takes the other side's work back: it changes only paths its   *)
(* own user staged, and is never made as a root                            *)
(* (git-index-shim.sh fy_heal, fy_verify_transaction, fy_tx_finish).       *)
NoSilentRevert ==
  \A c \in 2..Len(commits) :
    /\ Excused(c, {"killed", "behind", "sealed", "ours"}) \/ Taken(c) = {}
    /\ Parent(c) # 0

(* The heal sealed to a move never leaves the computer's index holding, as *)
(* staged, what the move took out of a commit of the computer's own        *)
(* (git-index-shim.sh fy_tx_prepare, fy_carry).                            *)
SealedForTheMove ==
  \A c \in 2..Len(commits) : Excused(c, {"killed", "behind", "ours"}) \/ Taken(c) = {}

(* A HEAD the box's git once made is not taken for its move when the       *)
(* computer went back to it (git-index-shim.sh fy_heal).                   *)
StampSaysWhoMoved ==
  \A c \in 2..Len(commits) : Excused(c, {"killed", "behind", "sealed"}) \/ Taken(c) = {}

(* No heal drops work that only an index holds: one changed by other than  *)
(* its own side's git keeps whatever its user staged at a path that HEAD   *)
(* has never had there (git-index-shim.sh fy_carry, githeal.py _install).  *)
Kept(side, t, u) ==
  \A p \in Paths :
    t[p] = staged[side][p] /\ (\A c \in past : Tree(c)[p] # t[p]) => u[p] = t[p]
HealKeepsStaged ==
  [][/\ ix # NoTree /\ staged'["box"] = staged["box"] => Kept("box", ix, ix')
     /\ staged'["host"] = staged["host"] => Kept("host", idx.tree, idx'.tree)]_vars
=============================================================================
