----------------------------- MODULE AllowStore -----------------------------
(***************************************************************************)
(* The egress allow-store: the grants an operator gave, the wall (is       *)
(* egress enforced?), the learn window that suspends it, and the two files *)
(* the proxy follows: the effective list it reads per request and the live *)
(* settings the supervisor's tick writes.                                  *)
(*                                                                         *)
(* Every file is replaced whole, so no reader sees half of one.  Nothing   *)
(* locks the store: an operation reads it once or twice, replaces it, and  *)
(* then builds the effective list from three more reads.  Operators (any   *)
(* number of `fy allow' runs, the TUI, a launch) and the supervisor's      *)
(* sweep interleave at those reads and writes, and may be killed there.    *)
(***************************************************************************)
EXTENDS Integers, FiniteSets

CONSTANTS
  Operators,        \* processes that run an operator's commands
  Launchers,        \* those among them that may be a launch
  Supervisor,       \* the one supervisor
  Hosts,            \* the hosts that may be granted
  None,             \* no grant, no window, no time
  Kinds,            \* the commands the operators of this run use
  Levels,           \* the levels they grant at
  Scopes,           \* the scopes they grant for
  TTLs,             \* lifetimes of a `once' grant
  WindowTTLs,       \* lengths of a learn window
  SeedEnforce,      \* what [proxy] enforce says while the store has no answer
  MaxTime,          \* bound: time stops here
  MaxCalls,         \* bound: operators' commands
  OperatorKills,    \* bound: operators killed in mid-command
  SupervisorKills   \* bound: supervisors killed

ASSUME ProcessesAssumption == Supervisor \notin Operators /\ Launchers \subseteq Operators
ASSUME NoneAssumption == None \notin Int
ASSUME LevelsAssumption ==
  /\ Levels \subseteq {"once", "session", "permanent"}
  /\ Scopes \subseteq {"runtime", "build"}
ASSUME TimesAssumption ==
  TTLs \subseteq Nat \ {0} /\ WindowTTLs \subseteq Nat \ {0} /\ MaxTime \in Nat
ASSUME SeedAssumption == SeedEnforce \in BOOLEAN
ASSUME BudgetAssumption ==
  MaxCalls \in Nat /\ OperatorKills \in Nat /\ SupervisorKills \in Nat

Processes == Operators \cup {Supervisor}

(* A store entry; `until' is its deadline, None if it has none.            *)
Grants == [level : Levels, until : Nat \cup {None}, scope : Scopes]
Windows == [since : Nat, until : Nat]
ASSUME NotARecordAssumption == None \notin Grants /\ None \notin Windows

Tables == [Hosts -> Grants \cup {None}]
NoGrants == [h \in Hosts |-> None]

Docs == [hosts : Tables, wall : {"unset", "on", "off"},
         learn : Windows \cup {None}, learned : Windows \cup {None},
         reviewed : Nat \cup {None}]
FirstRun == [hosts |-> NoGrants, wall |-> "unset", learn |-> None, learned |-> None,
             reviewed |-> None]

VARIABLES
  now,         \* the time
  store,       \* allow-store.json
  effective,   \* allow-effective.json
  live,        \* the live settings: does the proxy enforce?
  proc,        \* process -> the operation it is in
  sup,         \* the supervisor's place in its loop, or "dead"
  supDeny,     \* the wall as this tick read it
  offering,    \* the launches between their clear and their spawn
  asked,       \* every grant an operator asked for (history)
  raced,       \* two operations have overlapped (history)
  answers,     \* hosts answered to last at a launch (history)
  unseen,      \* times of would-block rows in a window no review showed (history)
  late,        \* those among them recorded at an awkward moment (history)
  calls,       \* operators' commands so far
  opKills,     \* operators killed so far
  supKills     \* supervisors killed so far

files == <<store, effective, live>>
history == <<asked, raced, answers, unseen, late>>
kills == <<opKills, supKills>>
vars == <<now, files, proc, sup, supDeny, offering, history, calls, kills>>

-----------------------------------------------------------------------------
(* Reading the store.                                                      *)

Expired(grant) == grant # None /\ grant.until # None /\ grant.until <= now

(* _prune: without the lapsed `once' grants.                               *)
Pruned(hosts) == [h \in Hosts |-> IF Expired(hosts[h]) THEN None ELSE hosts[h]]

(* Mutant: a window in the store is an open window.                        *)
WindowOpen_NoDeadline(doc) == doc.learn # None

(* _open_window.                                                           *)
WindowOpen(doc) == doc.learn # None /\ doc.learn.until > now

(* default_deny: the store's answer, or the seed; an open window suspends  *)
(* both.                                                                   *)
DefaultDeny(doc) ==
  /\ ~WindowOpen(doc)
  /\ IF doc.wall = "unset" THEN SeedEnforce ELSE doc.wall = "on"

(* live_hosts and build_hosts.                                             *)
Allowed(doc, scope) ==
  {h \in Hosts : Pruned(doc.hosts)[h] # None /\ doc.hosts[h].scope = scope}

Effective(doc) ==
  [deny |-> DefaultDeny(doc), allow |-> Allowed(doc, "runtime"),
   build |-> Allowed(doc, "build")]

Earlier(a, b) == IF a <= b THEN a ELSE b

(* _close_window: the record of what was observed outlives the window.     *)
CloseWindow(doc) ==
  IF doc.learn = None THEN doc
  ELSE [doc EXCEPT !.learn = None,
                   !.learned = [since |-> doc.learn.since,
                                until |-> Earlier(doc.learn.until, now)]]

(* last_window: the open window, else the last one closed.                 *)
LastWindow(doc) == IF doc.learn # None THEN doc.learn ELSE doc.learned

(* _unreviewed_since: where the part of the last window not yet reviewed   *)
(* begins.                                                                 *)
UnreviewedSince(doc) ==
  LET prior == LastWindow(doc) IN
  IF prior = None THEN None
  ELSE IF doc.reviewed = None \/ doc.reviewed <= prior.since THEN prior.since
  ELSE IF doc.reviewed < Earlier(prior.until, now) THEN doc.reviewed
  ELSE None

-----------------------------------------------------------------------------
(* An operation, read by read.  `hosts' is the edited table of its first   *)
(* read, `close' whether it found a lapsed window, `doc' what it will      *)
(* save, `publish' whether it goes on to write the effective list.         *)
Nothing == [deny |-> TRUE, allow |-> {}, build |-> {}]
AtRest == [pc |-> "idle", target |-> None, hosts |-> NoGrants, close |-> FALSE,
           doc |-> FirstRun, publish |-> FALSE, window |-> None, list |-> Nothing]

Busy(p) == proc[p].pc # "idle"

(* p's operation begins at place pc; it races if another is under way.     *)
Enter(p, operation) ==
  /\ ~Busy(p)
  /\ proc' = [proc EXCEPT ![p] = operation]
  /\ raced' = (raced \/ \E q \in Processes : Busy(q))

(* Replace the table in a fresh read of the document, then save.           *)
Edit(host, hosts, close) ==
  [AtRest EXCEPT !.pc = "doc", !.target = host, !.hosts = hosts, !.close = close,
                 !.publish = TRUE]
Save(doc, publish) == [AtRest EXCEPT !.pc = "save", !.doc = doc, !.publish = publish]
Publish == [AtRest EXCEPT !.pc = "deny"]

(* The second read of the store.                                           *)
ReadDoc(p) ==
  LET doc == [store EXCEPT !.hosts = proc[p].hosts] IN
  /\ proc[p].pc = "doc"
  /\ proc' = [proc EXCEPT ![p] =
       [Save(IF proc[p].close THEN CloseWindow(doc) ELSE doc, TRUE) EXCEPT
          !.target = proc[p].target]]
  /\ UNCHANGED <<now, files, sup, supDeny, offering, history, calls, kills>>

SaveDoc(p) ==
  /\ proc[p].pc = "save"
  /\ store' = proc[p].doc
  /\ proc' = [proc EXCEPT ![p] = IF proc[p].publish THEN Publish ELSE AtRest]
  /\ UNCHANGED <<now, effective, live, sup, supDeny, offering, history, calls, kills>>

(* write_effective: three reads of the store, then the file.               *)
ReadDeny(p) ==
  /\ proc[p].pc = "deny"
  /\ proc' = [proc EXCEPT ![p].pc = "allow", ![p].list.deny = DefaultDeny(store)]
  /\ UNCHANGED <<now, files, sup, supDeny, offering, history, calls, kills>>

ReadAllow(p) ==
  /\ proc[p].pc = "allow"
  /\ proc' = [proc EXCEPT ![p].pc = "build", ![p].list.allow = Allowed(store, "runtime")]
  /\ UNCHANGED <<now, files, sup, supDeny, offering, history, calls, kills>>

ReadBuild(p) ==
  /\ proc[p].pc = "build"
  /\ proc' = [proc EXCEPT ![p].pc = "publish", ![p].list.build = Allowed(store, "build")]
  /\ UNCHANGED <<now, files, sup, supDeny, offering, history, calls, kills>>

WriteEffective(p) ==
  /\ proc[p].pc = "publish"
  /\ effective' = proc[p].list
  /\ proc' = [proc EXCEPT ![p] = AtRest]
  /\ UNCHANGED <<now, store, live, sup, supDeny, offering, history, calls, kills>>

-----------------------------------------------------------------------------
(* What operators do.  A refused command changes nothing and is no step.   *)
Command(p, kind, offerable) ==
  /\ kind \in Kinds
  /\ calls < MaxCalls
  /\ calls' = calls + 1
  /\ p \in offering => offerable

Strength == [once |-> 0, session |-> 1, permanent |-> 2]

(* _lasts_as_long.                                                         *)
Outlasts(current, grant) ==
  \/ Strength[current.level] > Strength[grant.level]
  \/ /\ current.level = grant.level
     /\ grant.level = "once" => current.until >= grant.until

(* What an operator may ask for; only `once' has a lifetime.               *)
Terms == [level : Levels \cap {"once"}, ttl : TTLs, scope : Scopes]
         \cup [level : Levels \ {"once"}, ttl : {None}, scope : Scopes]

Deadline(terms) == IF terms.ttl = None THEN None ELSE now + terms.ttl

Ask(terms) == [level |-> terms.level, until |-> Deadline(terms), scope |-> terms.scope]

(* The entry grant stores.                                                 *)
NewGrant(terms) == [level |-> terms.level, until |-> Deadline(terms), scope |-> terms.scope]

(* A build grant never replaces a live runtime one, which covers builds.   *)
Covered(scope, current) ==
  scope = "build" /\ current # None /\ current.scope = "runtime"

(* grant.                                                                  *)
Grant(p, h, terms) ==
  LET kept    == Pruned(store.hosts)
      covered == Covered(terms.scope, kept[h])
  IN /\ Command(p, "grant", TRUE)
     /\ covered => Outlasts(kept[h], NewGrant(terms))
     /\ Enter(p, IF covered THEN Publish
                 ELSE Edit(h, [kept EXCEPT ![h] = NewGrant(terms)], FALSE))
     /\ asked' = asked \cup {<<h, Ask(terms)>>}
     /\ answers' = IF covered THEN answers
                   ELSE IF p \in offering /\ terms.level # "once" THEN answers \cup {h}
                   ELSE answers \ {h}
     /\ UNCHANGED <<now, files, sup, supDeny, offering, unseen, late, kills>>

(* revoke: an absent host is not saved, but the list is written all the    *)
(* same.                                                                   *)
Revoke(p, h) ==
  LET kept == Pruned(store.hosts) IN
  /\ Command(p, "revoke", FALSE)
  /\ Enter(p, IF kept[h] = None THEN Publish ELSE Edit(h, [kept EXCEPT ![h] = None], FALSE))
  /\ answers' = answers \ {h}
  /\ UNCHANGED <<now, files, sup, supDeny, offering, asked, unseen, late, kills>>

(* decline.  The record only silences offers; what matters here is that    *)
(* the whole document is read and written back, and nothing is published.  *)
Decline(p) ==
  /\ Command(p, "decline", TRUE)
  /\ Enter(p, Save(store, FALSE))
  /\ UNCHANGED <<now, files, sup, supDeny, offering, asked, answers, unseen, late, kills>>

Walled(doc, on) == CloseWindow([doc EXCEPT !.wall = IF on THEN "on" ELSE "off"])

(* set_wall: `fy allow enforce on|off'.                                    *)
SetWall(p, on) ==
  /\ Command(p, "wall", FALSE)
  /\ Enter(p, Save(Walled(store, on), TRUE))
  /\ UNCHANGED <<now, files, sup, supDeny, offering, asked, answers, unseen, late, kills>>

(* What start_learning saves: whatever the wall was, it will enforce.      *)
Learning(doc, ttl) ==
  [doc EXCEPT !.learn = [since |-> IF UnreviewedSince(doc) = None THEN now
                                   ELSE UnreviewedSince(doc),
                         until |-> now + ttl],
              !.wall = "on"]

(* `fy allow enforce learn'.                                               *)
StartLearning(p, ttl) ==
  /\ Command(p, "learn", FALSE)
  /\ Enter(p, Save(Learning(store, ttl), TRUE))
  /\ UNCHANGED <<now, files, sup, supDeny, offering, asked, answers, unseen, late, kills>>

(* seed_learning, at a launch: only a store that never answered ...        *)
Seed(p) ==
  /\ Command(p, "seed", FALSE)
  /\ store.wall = "unset" /\ store.learn = None /\ store.learned = None
  /\ Enter(p, [AtRest EXCEPT !.pc = "seed"])
  /\ UNCHANGED <<now, files, sup, supDeny, offering, asked, answers, unseen, late, kills>>

(* ... gets a window, by a second read.                                    *)
SeedLearns(p, ttl) ==
  /\ proc[p].pc = "seed"
  /\ proc' = [proc EXCEPT ![p] = Save(Learning(store, ttl), TRUE)]
  /\ UNCHANGED <<now, files, sup, supDeny, offering, history, calls, kills>>

(* `fy allow learn': which window, then the rows in it, then the mark.     *)
Review(p) ==
  /\ Command(p, "review", FALSE)
  /\ LastWindow(store) # None
  /\ Enter(p, [AtRest EXCEPT !.pc = "rows", !.window = LastWindow(store)])
  /\ UNCHANGED <<now, files, sup, supDeny, offering, asked, answers, unseen, late, kills>>

Within(t, window) == window.since <= t /\ t <= window.until

ReviewRows(p) ==
  /\ proc[p].pc = "rows"
  /\ unseen' = {t \in unseen : ~Within(t, proc[p].window)}
  /\ late' = late \cap unseen'
  /\ proc' = [proc EXCEPT ![p] = [AtRest EXCEPT !.pc = "mark"]]
  /\ UNCHANGED <<now, files, sup, supDeny, offering, asked, raced, answers, calls, kills>>

MarkReviewed(p) ==
  /\ proc[p].pc = "mark"
  /\ proc' = [proc EXCEPT ![p] = Save([store EXCEPT !.reviewed = now], FALSE)]
  /\ UNCHANGED <<now, files, sup, supDeny, offering, history, calls, kills>>

(* clear_ephemeral's table: only the permanent grants.                     *)
Kept(hosts) ==
  [h \in Hosts |-> IF hosts[h] # None /\ hosts[h].level = "permanent" THEN hosts[h] ELSE None]

(* ensure_background with no supervisor: the launch ends the session's     *)
(* grants itself, so that the offers it makes next outlive the boot.       *)
Launch(p) ==
  /\ Command(p, "launch", FALSE)
  /\ p \in Launchers
  /\ sup = "dead"
  /\ Enter(p, Edit(None, Kept(Pruned(store.hosts)), FALSE))
  /\ offering' = offering \cup {p}
  /\ UNCHANGED <<now, files, sup, supDeny, asked, answers, unseen, late, kills>>

(* _spawn(grants_cleared=True).  A process that finds the lock held ends.  *)
Spawn(p) ==
  /\ p \in offering
  /\ ~Busy(p)
  /\ offering' = offering \ {p}
  /\ sup' = IF sup = "dead" THEN "write" ELSE sup
  /\ UNCHANGED <<now, files, proc, supDeny, history, calls, kills>>

(* `fy host restart': the old supervisor stops between two ticks, and the  *)
(* new one was not told that the grants are cleared.                       *)
Restart ==
  /\ "restart" \in Kinds
  /\ calls < MaxCalls
  /\ calls' = calls + 1
  /\ sup = "tick"
  /\ ~Busy(Supervisor)
  /\ sup' = "clear"
  /\ answers' = {}
  /\ UNCHANGED <<now, files, proc, supDeny, offering, asked, raced, unseen, late, kills>>

-----------------------------------------------------------------------------
(* What the supervisor does.                                               *)

(* Mutant: main() clears whatever its launcher did.                        *)
Boot_AlwaysClears ==
  /\ sup \in {"clear", "write"}
  /\ Enter(Supervisor, Edit(None, Kept(Pruned(store.hosts)), FALSE))
  /\ sup' = "tick"
  /\ UNCHANGED <<now, files, supDeny, offering, asked, answers, unseen, late, calls, kills>>

(* main(): clear_ephemeral, or only write_effective if the launcher did.   *)
Boot ==
  /\ sup \in {"clear", "write"}
  /\ Enter(Supervisor, IF sup = "clear" THEN Edit(None, Kept(Pruned(store.hosts)), FALSE)
                       ELSE Publish)
  /\ sup' = "tick"
  /\ UNCHANGED <<now, files, supDeny, offering, asked, answers, unseen, late, calls, kills>>

(* Mutant: a lapsed grant alone does not make the sweep write.             *)
Sweep_OnlyWindows ==
  LET kept   == Pruned(store.hosts)
      lapsed == store.learn # None /\ ~WindowOpen(store)
  IN /\ sup = "tick"
     /\ ~Busy(Supervisor)
     /\ sup' = "wall"
     /\ IF lapsed THEN Enter(Supervisor, Edit(None, kept, lapsed))
        ELSE UNCHANGED <<proc, raced>>
     /\ UNCHANGED <<now, files, supDeny, offering, asked, answers, unseen, late, calls, kills>>

(* sweep, first thing in a tick.                                           *)
Sweep ==
  LET kept   == Pruned(store.hosts)
      lapsed == store.learn # None /\ ~WindowOpen(store)
  IN /\ sup = "tick"
     /\ ~Busy(Supervisor)
     /\ sup' = "wall"
     /\ IF kept # store.hosts \/ lapsed THEN Enter(Supervisor, Edit(None, kept, lapsed))
        ELSE UNCHANGED <<proc, raced>>
     /\ UNCHANGED <<now, files, supDeny, offering, asked, answers, unseen, late, calls, kills>>

(* The proxy's spec asks for the wall ...                                  *)
ReadWall ==
  /\ sup = "wall"
  /\ ~Busy(Supervisor)
  /\ supDeny' = DefaultDeny(store)
  /\ sup' = "live"
  /\ UNCHANGED <<now, files, proc, offering, history, calls, kills>>

(* ... and _sync_live writes what the running proxy re-reads.              *)
WriteLive ==
  /\ sup = "live"
  /\ live' = supDeny
  /\ sup' = "tick"
  /\ UNCHANGED <<now, store, effective, proc, supDeny, offering, history, calls, kills>>

-----------------------------------------------------------------------------
(* The rest of the world.                                                  *)
Pass ==
  /\ now < MaxTime
  /\ now' = now + 1
  /\ UNCHANGED <<files, proc, sup, supDeny, offering, history, calls, kills>>

(* The proxy lets through a host the wall would refuse, and records it.    *)
(* Rows outside a window are nobody's to review.                           *)
WouldBlock ==
  /\ "review" \in Kinds
  /\ ~live
  /\ WindowOpen(store)
  /\ unseen' = unseen \cup {now}
  /\ late' = IF store.reviewed = now \/ \E p \in Processes : Busy(p)
             THEN late \cup {now} ELSE late
  /\ UNCHANGED <<now, files, proc, sup, supDeny, offering, asked, raced, answers, calls, kills>>

KillOperator(p) ==
  /\ opKills < OperatorKills
  /\ opKills' = opKills + 1
  /\ Busy(p) \/ p \in offering
  /\ proc' = [proc EXCEPT ![p] = AtRest]
  /\ offering' = offering \ {p}
  /\ answers' = IF p \in offering THEN {} ELSE answers \ {proc[p].target}
  /\ UNCHANGED <<now, files, sup, supDeny, asked, raced, unseen, late, calls, supKills>>

(* Nothing stops the proxy of a supervisor that was killed.                *)
KillSupervisor ==
  /\ supKills < SupervisorKills
  /\ supKills' = supKills + 1
  /\ sup # "dead"
  /\ sup' = "dead"
  /\ proc' = [proc EXCEPT ![Supervisor] = AtRest]
  /\ answers' = {}
  /\ UNCHANGED <<now, files, supDeny, offering, asked, raced, unseen, late, calls, opKills>>

Init ==
  /\ now = 0
  /\ store = FirstRun
  /\ effective = Nothing
  /\ live = TRUE
  /\ proc = [p \in Processes |-> AtRest]
  /\ sup \in {"dead", "clear"}
  /\ supDeny = TRUE
  /\ offering = {}
  /\ asked = {} /\ raced = FALSE /\ answers = {} /\ unseen = {} /\ late = {}
  /\ calls = 0 /\ opKills = 0 /\ supKills = 0

GoOn(p) ==
  \/ ReadDoc(p) \/ SaveDoc(p)
  \/ ReadDeny(p) \/ ReadAllow(p) \/ ReadBuild(p) \/ WriteEffective(p)
  \/ ReviewRows(p) \/ MarkReviewed(p)
  \/ \E ttl \in WindowTTLs : SeedLearns(p, ttl)

Start(p) ==
  \/ \E h \in Hosts, terms \in Terms : Grant(p, h, terms)
  \/ \E h \in Hosts : Revoke(p, h)
  \/ \E on \in BOOLEAN : SetWall(p, on)
  \/ \E ttl \in WindowTTLs : StartLearning(p, ttl)
  \/ Decline(p) \/ Seed(p) \/ Review(p) \/ Launch(p)

SupervisorStep == Boot \/ Sweep \/ ReadWall \/ WriteLive

Next ==
  \/ \E p \in Operators : Start(p) \/ Spawn(p) \/ KillOperator(p)
  \/ \E p \in Processes : GoOn(p)
  \/ Restart
  \/ SupervisorStep
  \/ KillSupervisor
  \/ Pass
  \/ WouldBlock

(* What has begun goes on, a supervisor that runs ticks, and time passes.  *)
Fairness ==
  /\ \A p \in Processes : WF_vars(GoOn(p))
  /\ WF_vars(SupervisorStep)
  /\ WF_vars(Pass)

Spec == Init /\ [][Next]_vars /\ Fairness

-----------------------------------------------------------------------------
Places == {"idle", "doc", "save", "deny", "allow", "build", "publish", "rows", "mark", "seed"}
Lists == [deny : BOOLEAN, allow : SUBSET Hosts, build : SUBSET Hosts]
Operations == [pc : Places, target : Hosts \cup {None}, hosts : Tables, close : BOOLEAN,
               doc : Docs, publish : BOOLEAN, window : Windows \cup {None}, list : Lists]

(* Every part of the state has its type.                                   *)
TypeOK ==
  /\ now \in 0..MaxTime
  /\ store \in Docs
  /\ effective \in Lists
  /\ live \in BOOLEAN /\ supDeny \in BOOLEAN /\ raced \in BOOLEAN
  /\ proc \in [Processes -> Operations]
  /\ sup \in {"dead", "clear", "write", "tick", "wall", "live"}
  /\ offering \subseteq Operators
  /\ asked \subseteq Hosts \X Grants
  /\ answers \subseteq Hosts
  /\ unseen \subseteq 0..MaxTime /\ late \subseteq unseen
  /\ calls \in 0..MaxCalls /\ opKills \in 0..OperatorKills /\ supKills \in 0..SupervisorKills

(* Whatever overlaps or dies, the store never holds a grant no operator    *)
(* asked for with that level, scope and deadline: stale write-backs of     *)
(* the whole table can bring a grant back, never make one up or lengthen   *)
(* it (allowlist.grant, _save_store, sweep).                               *)
GrantsWereAsked ==
  \A h \in Hosts : store.hosts[h] # None => <<h, store.hosts[h]>> \in asked

(* A host the proxy lets the box reach was asked for at runtime scope: a   *)
(* grant for image builds never opens it to the box, from whichever reads  *)
(* of whichever stores the list was put together (allowlist.effective).    *)
BuildStaysBuild ==
  \A h \in effective.allow : \E a \in asked : a[1] = h /\ a[2].scope = "runtime"

(* A store with a window in it enforces once the window is over, however   *)
(* `enforce off', a second window, a review and the sweep's tidying        *)
(* overlap: the two fields are always written together.                    *)
WindowResumesEnforcing == store.learn # None => store.wall = "on"

Permanent(doc, h) == doc.hosts[h] # None /\ doc.hosts[h].level = "permanent"

Saving(p, h) == proc[p].pc = "save" /\ proc[p].target = h /\ proc'[p].pc # "save"

(* allowlist.py:10 "permanent    no expiry; survives a supervisor restart": *)
(* only a command about that host ends a permanent grant.                  *)
PermanentStays ==
  [][\A h \in Hosts : Permanent(store, h) /\ ~Permanent(store', h)
       => \E p \in Operators : Saving(p, h)]_vars

(* A host answered to with more than `once' at a launch is still granted   *)
(* when the supervisor that launch started is running: the boot does not   *)
(* wipe what the operator has just said (supervisor.ensure_background).    *)
AnswersReachTheBox ==
  ~raced /\ (\A p \in Processes : ~Busy(p)) => \A h \in answers : store.hosts[h] # None

Covers(window, t) == window # None /\ Within(t, window)

(* While operations do not overlap, every would-block row of a learn       *)
(* window that no review has shown is in the window the next review reads, *)
(* across windows closed early, lapsed, replaced and partly reviewed --    *)
(* but for rows recorded in the middle of an operation, or in the very     *)
(* second of a review (the store's times are whole seconds).               *)
UnseenReviewed ==
  ~raced => \A t \in unseen \ late : Covers(LastWindow(store), t)

(* The same for every row: allowlist.py:342, "a window replaced before its *)
(* review would take every host only it had seen out of the workflow.  The *)
(* replacement reaches back instead".                                      *)
ReviewLosesNothing ==
  ~raced => \A t \in unseen : Covers(LastWindow(store), t)

(* seed_learning: "an operator's own `fy allow enforce ...' always wins":  *)
(* the seed never overwrites an answer.                                    *)
SeedNeverOverrides ==
  [][\A p \in Operators : proc[p].pc = "seed" /\ proc'[p].pc = "save" => store.wall = "unset"]_vars

(* With operations that do not overlap and a supervisor that stays up, the *)
(* list the proxy reads ends up saying what the store says, lapsed grants  *)
(* left out, although most of it is written by whoever came last.          *)
EffectiveConverges ==
  []~raced /\ <>[](sup # "dead") => <>[](effective = Effective(store))

(* start_learning: "That last part is the point: a window cannot be        *)
(* forgotten into an open wall": once a window has lapsed the proxy comes  *)
(* to enforce, unless an operator opens the wall again.                    *)
WallReturns ==
  store.learn # None /\ store.learn.until <= now
    ~> live \/ store.wall = "off" \/ (store.learn # None /\ store.learn.until > now)

(* allowlist.py:8 "once  a short TTL (default 2 min), then auto-reverts":  *)
(* a host whose grant is over leaves the list the proxy reads, even if no  *)
(* two operations ever overlap.                                            *)
OnceReverts ==
  []~raced => \A h \in Hosts :
    h \in effective.allow /\ h \notin Allowed(store, "runtime")
      ~> h \notin effective.allow \/ h \in Allowed(store, "runtime") \/ sup = "dead"
=============================================================================
