-------------------------- MODULE AllowStoreProofs --------------------------
(***************************************************************************)
(* Proofs about module AllowStore, for any operators, hosts, lifetimes and *)
(* bounds.  The invariants of the two files hold because whatever an       *)
(* operation in flight still carries -- an edited table, a document to     *)
(* save, a list to publish -- satisfies them as well.  Then about the      *)
(* transcripts, which a migration may delete only once they are elsewhere. *)
(***************************************************************************)
EXTENDS MCAllowStore, TLAPS

(* Every grant in the table was asked for; every host of the set was asked  *)
(* for at runtime scope; the document's window will close into a wall.     *)
AskedOnly(hosts, grants) == \A h \in Hosts : hosts[h] # None => <<h, hosts[h]>> \in grants
RuntimeAsked(allow, grants) ==
  \A h \in allow : \E a \in grants : a[1] = h /\ a[2].scope = "runtime"
Enforces(doc) == doc.learn # None => doc.wall = "on"

SoundDoc(doc, grants) == AskedOnly(doc.hosts, grants) /\ Enforces(doc)

SoundOperation(operation, grants) ==
  /\ AskedOnly(operation.hosts, grants)
  /\ SoundDoc(operation.doc, grants)
  /\ RuntimeAsked(operation.list.allow, grants)

(* The inductive invariant: the files, and all that is on its way to them. *)
Sound ==
  /\ SoundDoc(store, asked)
  /\ RuntimeAsked(effective.allow, asked)
  /\ \A p \in Processes : SoundOperation(proc[p], asked)

-----------------------------------------------------------------------------
(* Types.                                                                  *)

LEMMA FirstRunType == NoGrants \in Tables /\ FirstRun \in Docs
  BY DEF NoGrants, Tables, FirstRun, Docs

LEMMA AtRestType == AtRest \in Operations
  BY FirstRunType DEF AtRest, Operations, Places, Lists, Nothing

LEMMA EditType ==
  ASSUME NEW host \in Hosts \cup {None}, NEW hosts \in Tables, NEW close \in BOOLEAN
  PROVE Edit(host, hosts, close) \in Operations
  BY AtRestType DEF Edit, Operations, Places

LEMMA SaveType ==
  ASSUME NEW doc \in Docs, NEW publish \in BOOLEAN
  PROVE Save(doc, publish) \in Operations
  BY AtRestType DEF Save, Operations, Places

LEMMA PublishType == Publish \in Operations
  BY AtRestType DEF Publish, Operations, Places

LEMMA PrunedType ==
  ASSUME NEW hosts \in Tables PROVE Pruned(hosts) \in Tables
  BY DEF Pruned, Tables

LEMMA KeptType ==
  ASSUME NEW hosts \in Tables PROVE Kept(hosts) \in Tables
  BY DEF Kept, Tables

LEMMA DefaultDenyType ==
  ASSUME NEW doc PROVE DefaultDeny(doc) \in BOOLEAN
  BY SeedAssumption DEF DefaultDeny, WindowOpen

LEMMA AllowedType ==
  ASSUME NEW doc, NEW scope PROVE Allowed(doc, scope) \in SUBSET Hosts
  BY DEF Allowed

LEMMA EarlierType ==
  ASSUME NEW a \in Nat, NEW b \in Nat PROVE Earlier(a, b) \in Nat
  BY DEF Earlier

LEMMA CloseWindowType ==
  ASSUME TypeOK, NEW doc \in Docs PROVE CloseWindow(doc) \in Docs
<1>1. now \in Nat
  BY TimesAssumption DEF TypeOK
<1>2. CASE doc.learn = None
  BY <1>2 DEF CloseWindow
<1>3. CASE doc.learn # None
  <2>1. doc.learn \in Windows /\ doc.learn.until \in Nat /\ doc.learn.since \in Nat
    BY <1>3 DEF Docs, Windows
  <2>2. [since |-> doc.learn.since, until |-> Earlier(doc.learn.until, now)] \in Windows
    BY <1>1, <2>1, EarlierType DEF Windows
  <2> QED
    BY <1>3, <2>2 DEF CloseWindow, Docs
<1> QED
  BY <1>2, <1>3

LEMMA UnreviewedType ==
  ASSUME TypeOK, NEW doc \in Docs PROVE UnreviewedSince(doc) \in Nat \cup {None}
<1>1. LastWindow(doc) \in Windows \cup {None}
  BY DEF LastWindow, Docs
<1>2. doc.reviewed \in Nat \cup {None}
  BY DEF Docs
<1> QED
  BY <1>1, <1>2 DEF UnreviewedSince, Windows

LEMMA LearningType ==
  ASSUME TypeOK, NEW doc \in Docs, NEW ttl \in WindowTTLs PROVE Learning(doc, ttl) \in Docs
<1>1. now \in Nat /\ now + ttl \in Nat
  BY TimesAssumption DEF TypeOK
<1>2. UnreviewedSince(doc) \in Nat \cup {None}
  BY UnreviewedType
<1> DEFINE window == [since |-> IF UnreviewedSince(doc) = None THEN now
                                ELSE UnreviewedSince(doc),
                      until |-> now + ttl]
<1>3. window \in Windows
  BY <1>1, <1>2 DEF Windows
<1> HIDE DEF window
<1>4. [doc EXCEPT !.learn = window, !.wall = "on"] \in Docs
  BY <1>3 DEF Docs
<1> QED
  BY <1>4 DEF Learning, window

LEMMA WalledType ==
  ASSUME TypeOK, NEW doc \in Docs, NEW on \in BOOLEAN PROVE Walled(doc, on) \in Docs
<1>1. [doc EXCEPT !.wall = IF on THEN "on" ELSE "off"] \in Docs
  BY DEF Docs
<1> QED
  BY <1>1, CloseWindowType DEF Walled

LEMMA GrantType ==
  ASSUME TypeOK, NEW terms \in Terms
  PROVE NewGrant(terms) \in Grants /\ Ask(terms) \in Grants
<1>1. now \in Nat
  BY TimesAssumption DEF TypeOK
<1>2. /\ terms.level \in Levels /\ terms.scope \in Scopes
      /\ terms.ttl \in TTLs \cup {None}
  BY DEF Terms
<1>3. Deadline(terms) \in Nat \cup {None}
  <2>1. CASE terms.ttl = None
    BY <2>1 DEF Deadline
  <2>2. CASE terms.ttl # None
    <3>1. terms.ttl \in Nat
      BY <1>2, <2>2, TimesAssumption
    <3> QED
      BY <1>1, <2>2, <3>1 DEF Deadline
  <2> QED
    BY <2>1, <2>2
<1> QED
  BY <1>2, <1>3 DEF NewGrant, Ask, Grants

(* A process begins an operation.                                          *)
LEMMA EnterType ==
  ASSUME TypeOK, NEW p \in Processes, NEW operation \in Operations, Enter(p, operation)
  PROVE proc' \in [Processes -> Operations] /\ raced' \in BOOLEAN
  BY DEF TypeOK, Enter, Busy

-----------------------------------------------------------------------------
(* Type correctness.                                                       *)

LEMMA GoOnType ==
  ASSUME TypeOK, NEW p \in Processes, GoOn(p) PROVE TypeOK'
<1>1. CASE ReadDoc(p)
  <2> DEFINE doc == [store EXCEPT !.hosts = proc[p].hosts]
             next == IF proc[p].close THEN CloseWindow(doc) ELSE doc
  <2>1. doc \in Docs
    BY DEF TypeOK, Operations, Docs
  <2>2. next \in Docs
    BY <2>1, CloseWindowType
  <2> HIDE DEF next
  <2>3. Save(next, TRUE) \in Operations
    BY <2>2, SaveType
  <2>4. [Save(next, TRUE) EXCEPT !.target = proc[p].target] \in Operations
    BY <2>3 DEF TypeOK, Operations
  <2>5. proc' = [proc EXCEPT ![p] = [Save(next, TRUE) EXCEPT !.target = proc[p].target]]
    BY <1>1 DEF ReadDoc, next
  <2>6. proc' \in [Processes -> Operations]
    BY <2>4, <2>5 DEF TypeOK
  <2> QED
    BY <1>1, <2>6 DEF ReadDoc, TypeOK, files, history, kills
<1>2. CASE SaveDoc(p)
  <2>1. store' \in Docs
    BY <1>2 DEF SaveDoc, TypeOK, Operations
  <2>2. proc' \in [Processes -> Operations]
    BY <1>2, AtRestType, PublishType DEF SaveDoc, TypeOK
  <2> QED
    BY <1>2, <2>1, <2>2 DEF SaveDoc, TypeOK, history, kills
<1>3. CASE ReadDeny(p)
  <2>1. proc[p] \in Operations /\ proc[p].list \in Lists
    BY DEF TypeOK, Operations
  <2>2. [proc[p].list EXCEPT !.deny = DefaultDeny(store)] \in Lists
    BY <2>1, DefaultDenyType DEF Lists
  <2>3. [proc[p] EXCEPT !.pc = "allow", !.list = [proc[p].list EXCEPT !.deny = DefaultDeny(store)]] \in Operations
    BY <2>1, <2>2 DEF Operations, Places
  <2>4. proc' = [proc EXCEPT ![p] =
          [proc[p] EXCEPT !.pc = "allow", !.list = [proc[p].list EXCEPT !.deny = DefaultDeny(store)]]]
    BY <1>3, <2>1 DEF ReadDeny, TypeOK, Operations, Lists
  <2>5. proc' \in [Processes -> Operations]
    BY <2>3, <2>4 DEF TypeOK
  <2> QED
    BY <1>3, <2>5 DEF ReadDeny, TypeOK, files, history, kills
<1>4. CASE ReadAllow(p)
  <2>1. proc[p] \in Operations /\ proc[p].list \in Lists
    BY DEF TypeOK, Operations
  <2>2. [proc[p].list EXCEPT !.allow = Allowed(store, "runtime")] \in Lists
    BY <2>1, AllowedType DEF Lists
  <2>3. [proc[p] EXCEPT !.pc = "build", !.list = [proc[p].list EXCEPT !.allow = Allowed(store, "runtime")]] \in Operations
    BY <2>1, <2>2 DEF Operations, Places
  <2>4. proc' = [proc EXCEPT ![p] =
          [proc[p] EXCEPT !.pc = "build", !.list = [proc[p].list EXCEPT !.allow = Allowed(store, "runtime")]]]
    BY <1>4, <2>1 DEF ReadAllow, TypeOK, Operations, Lists
  <2>5. proc' \in [Processes -> Operations]
    BY <2>3, <2>4 DEF TypeOK
  <2> QED
    BY <1>4, <2>5 DEF ReadAllow, TypeOK, files, history, kills
<1>5. CASE ReadBuild(p)
  <2>1. proc[p] \in Operations /\ proc[p].list \in Lists
    BY DEF TypeOK, Operations
  <2>2. [proc[p].list EXCEPT !.build = Allowed(store, "build")] \in Lists
    BY <2>1, AllowedType DEF Lists
  <2>3. [proc[p] EXCEPT !.pc = "publish", !.list = [proc[p].list EXCEPT !.build = Allowed(store, "build")]] \in Operations
    BY <2>1, <2>2 DEF Operations, Places
  <2>4. proc' = [proc EXCEPT ![p] =
          [proc[p] EXCEPT !.pc = "publish", !.list = [proc[p].list EXCEPT !.build = Allowed(store, "build")]]]
    BY <1>5, <2>1 DEF ReadBuild, TypeOK, Operations, Lists
  <2>5. proc' \in [Processes -> Operations]
    BY <2>3, <2>4 DEF TypeOK
  <2> QED
    BY <1>5, <2>5 DEF ReadBuild, TypeOK, files, history, kills
<1>6. CASE WriteEffective(p)
  <2>1. proc' \in [Processes -> Operations]
    BY <1>6, AtRestType DEF WriteEffective, TypeOK
  <2>2. effective' \in Lists
    BY <1>6 DEF WriteEffective, TypeOK, Operations
  <2> QED
    BY <1>6, <2>1, <2>2 DEF WriteEffective, TypeOK, history, kills
<1>7. CASE ReviewRows(p)
  <2>1. [AtRest EXCEPT !.pc = "mark"] \in Operations
    BY AtRestType DEF Operations, Places
  <2>2. proc' \in [Processes -> Operations]
    BY <1>7, <2>1 DEF ReviewRows, TypeOK
  <2>3. unseen' \subseteq unseen /\ late' \subseteq unseen'
    BY <1>7 DEF ReviewRows
  <2> QED
    BY <1>7, <2>2, <2>3 DEF ReviewRows, TypeOK, files, kills
<1>8. CASE MarkReviewed(p)
  <2>1. now \in Nat
    BY TimesAssumption DEF TypeOK
  <2>2. [store EXCEPT !.reviewed = now] \in Docs
    BY <2>1 DEF TypeOK, Docs
  <2>3. proc' \in [Processes -> Operations]
    BY <1>8, <2>2, SaveType DEF MarkReviewed, TypeOK
  <2> QED
    BY <1>8, <2>3 DEF MarkReviewed, TypeOK, files, history, kills
<1>9. ASSUME NEW ttl \in WindowTTLs, SeedLearns(p, ttl) PROVE TypeOK'
  <2>1. Learning(store, ttl) \in Docs
    BY LearningType DEF TypeOK
  <2>2. proc' \in [Processes -> Operations]
    BY <1>9, <2>1, SaveType DEF SeedLearns, TypeOK
  <2> QED
    BY <1>9, <2>2 DEF SeedLearns, TypeOK, files, history, kills
<1> QED
  BY <1>1, <1>2, <1>3, <1>4, <1>5, <1>6, <1>7, <1>8, <1>9 DEF GoOn

(* What a command leaves as it was, and what it changes, in one place.     *)
LEMMA CommandType ==
  ASSUME TypeOK, NEW p \in Processes, NEW operation \in Operations,
         NEW kind, NEW offerable,
         Command(p, kind, offerable), Enter(p, operation),
         asked' \subseteq Hosts \X Grants, answers' \subseteq Hosts, offering' \subseteq Operators,
         UNCHANGED <<now, files, sup, supDeny, unseen, late, kills>>
  PROVE TypeOK'
<1>1. calls' \in 0..MaxCalls
  BY BudgetAssumption DEF Command, TypeOK
<1> QED
  BY <1>1, EnterType DEF TypeOK, files, kills

LEMMA StartType ==
  ASSUME TypeOK, NEW p \in Operators, Start(p) PROVE TypeOK'
<1>0. p \in Processes /\ Pruned(store.hosts) \in Tables /\ store \in Docs
  BY PrunedType DEF Processes, TypeOK, Docs
<1>1. ASSUME NEW h \in Hosts, NEW terms \in Terms, Grant(p, h, terms) PROVE TypeOK'
  <2> DEFINE kept == Pruned(store.hosts)
             operation == IF Covered(terms.scope, kept[h]) THEN Publish
                          ELSE Edit(h, [kept EXCEPT ![h] = NewGrant(terms)], FALSE)
  <2>1. [kept EXCEPT ![h] = NewGrant(terms)] \in Tables
    BY <1>0, GrantType DEF Tables
  <2>2. operation \in Operations
    BY <2>1, EditType, PublishType
  <2>3. /\ Command(p, "grant", TRUE) /\ Enter(p, operation)
        /\ asked' = asked \cup {<<h, Ask(terms)>>}
        /\ answers' \subseteq answers \cup {h}
        /\ UNCHANGED <<now, files, sup, supDeny, offering, unseen, late, kills>>
    BY <1>1 DEF Grant
  <2>4. asked' \subseteq Hosts \X Grants /\ answers' \subseteq Hosts /\ offering' \subseteq Operators
    BY <2>3, GrantType DEF TypeOK
  <2> HIDE DEF operation
  <2> QED
    BY <1>0, <2>2, <2>3, <2>4, CommandType
<1>2. ASSUME NEW h \in Hosts, Revoke(p, h) PROVE TypeOK'
  <2> DEFINE kept == Pruned(store.hosts)
             operation == IF kept[h] = None THEN Publish
                          ELSE Edit(h, [kept EXCEPT ![h] = None], FALSE)
  <2>1. [kept EXCEPT ![h] = None] \in Tables
    BY <1>0 DEF Tables
  <2>2. operation \in Operations
    BY <2>1, EditType, PublishType
  <2>3. /\ Command(p, "revoke", FALSE) /\ Enter(p, operation)
        /\ answers' = answers \ {h}
        /\ UNCHANGED <<now, files, sup, supDeny, offering, asked, unseen, late, kills>>
    BY <1>2 DEF Revoke
  <2>4. asked' \subseteq Hosts \X Grants /\ answers' \subseteq Hosts /\ offering' \subseteq Operators
    BY <2>3 DEF TypeOK
  <2> HIDE DEF operation
  <2> QED
    BY <1>0, <2>2, <2>3, <2>4, CommandType
<1>3. ASSUME NEW on \in BOOLEAN, SetWall(p, on) PROVE TypeOK'
  <2>1. Save(Walled(store, on), TRUE) \in Operations
    BY <1>0, WalledType, SaveType
  <2> QED
    BY <1>0, <1>3, <2>1, CommandType DEF SetWall, TypeOK
<1>4. ASSUME NEW ttl \in WindowTTLs, StartLearning(p, ttl) PROVE TypeOK'
  <2>1. Save(Learning(store, ttl), TRUE) \in Operations
    BY <1>0, LearningType, SaveType
  <2> QED
    BY <1>0, <1>4, <2>1, CommandType DEF StartLearning, TypeOK
<1>5. CASE Decline(p)
  <2>1. Save(store, FALSE) \in Operations
    BY <1>0, SaveType
  <2> QED
    BY <1>0, <1>5, <2>1, CommandType DEF Decline, TypeOK
<1>6. CASE Seed(p)
  <2>1. [AtRest EXCEPT !.pc = "seed"] \in Operations
    BY AtRestType DEF Operations, Places
  <2> QED
    BY <1>0, <1>6, <2>1, CommandType DEF Seed, TypeOK
<1>7. CASE Review(p)
  <2>1. LastWindow(store) \in Windows \cup {None}
    BY <1>0 DEF LastWindow, Docs
  <2>2. [AtRest EXCEPT !.pc = "rows", !.window = LastWindow(store)] \in Operations
    BY <2>1, AtRestType DEF Operations, Places
  <2> QED
    BY <1>0, <1>7, <2>2, CommandType DEF Review, TypeOK
<1>8. CASE Launch(p)
  <2>1. Edit(None, Kept(Pruned(store.hosts)), FALSE) \in Operations
    BY <1>0, KeptType, EditType
  <2>2. offering' \subseteq Operators
    BY <1>8 DEF Launch, TypeOK
  <2>3. /\ Command(p, "launch", FALSE)
        /\ Enter(p, Edit(None, Kept(Pruned(store.hosts)), FALSE))
        /\ UNCHANGED <<now, files, sup, supDeny, asked, answers, unseen, late, kills>>
    BY <1>8 DEF Launch
  <2>4. asked' \subseteq Hosts \X Grants /\ answers' \subseteq Hosts
    BY <2>3 DEF TypeOK
  <2> QED
    BY <1>0, <2>1, <2>2, <2>3, <2>4, CommandType
<1> QED
  BY <1>1, <1>2, <1>3, <1>4, <1>5, <1>6, <1>7, <1>8 DEF Start

LEMMA SupervisorType ==
  ASSUME TypeOK, SupervisorStep PROVE TypeOK'
<1>0. Supervisor \in Processes /\ Pruned(store.hosts) \in Tables
  BY PrunedType DEF Processes, TypeOK, Docs
<1>1. CASE Boot
  <2> DEFINE operation == IF sup = "clear" THEN Edit(None, Kept(Pruned(store.hosts)), FALSE)
                          ELSE Publish
  <2>1. operation \in Operations
    BY <1>0, KeptType, EditType, PublishType
  <2>2. Enter(Supervisor, operation)
    BY <1>1 DEF Boot
  <2> HIDE DEF operation
  <2>3. proc' \in [Processes -> Operations] /\ raced' \in BOOLEAN
    BY <1>0, <2>1, <2>2, EnterType
  <2> QED
    BY <1>1, <2>3 DEF Boot, TypeOK, files, kills
<1>2. CASE Sweep
  <2> DEFINE lapsed == store.learn # None /\ ~WindowOpen(store)
             operation == Edit(None, Pruned(store.hosts), lapsed)
  <2>1. operation \in Operations
    BY <1>0, EditType
  <2>2. Enter(Supervisor, operation) \/ UNCHANGED <<proc, raced>>
    BY <1>2 DEF Sweep
  <2> HIDE DEF operation
  <2>3. proc' \in [Processes -> Operations] /\ raced' \in BOOLEAN
    BY <1>0, <2>1, <2>2, EnterType DEF TypeOK
  <2> QED
    BY <1>2, <2>3 DEF Sweep, TypeOK, files, kills
<1>3. CASE ReadWall
  BY <1>3, DefaultDenyType DEF ReadWall, TypeOK, files, history, kills
<1>4. CASE WriteLive
  BY <1>4 DEF WriteLive, TypeOK, history, kills
<1> QED
  BY <1>1, <1>2, <1>3, <1>4 DEF SupervisorStep

LEMMA TypeStep ==
  ASSUME TypeOK, [Next]_vars PROVE TypeOK'
<1> USE BudgetAssumption, TimesAssumption
<1>1. ASSUME NEW p \in Operators, Start(p) PROVE TypeOK'
  BY <1>1, StartType
<1>2. ASSUME NEW p \in Operators, Spawn(p) PROVE TypeOK'
  BY <1>2 DEF Spawn, TypeOK, files, history, kills
<1>3. ASSUME NEW p \in Operators, KillOperator(p) PROVE TypeOK'
  <2>1. proc' \in [Processes -> Operations]
    BY <1>3, AtRestType DEF KillOperator, TypeOK
  <2>2. answers' \subseteq Hosts /\ offering' \subseteq Operators
    BY <1>3 DEF KillOperator, TypeOK
  <2>3. opKills' \in 0..OperatorKills
    BY <1>3 DEF KillOperator, TypeOK
  <2> QED
    BY <1>3, <2>1, <2>2, <2>3 DEF KillOperator, TypeOK, files
<1>4. ASSUME NEW p \in Processes, GoOn(p) PROVE TypeOK'
  BY <1>4, GoOnType
<1>5. CASE Restart
  BY <1>5 DEF Restart, TypeOK, files, kills
<1>6. CASE SupervisorStep
  BY <1>6, SupervisorType
<1>7. CASE KillSupervisor
  <2>1. proc' \in [Processes -> Operations]
    BY <1>7, AtRestType DEF KillSupervisor, TypeOK
  <2>2. supKills' \in 0..SupervisorKills
    BY <1>7 DEF KillSupervisor, TypeOK
  <2> QED
    BY <1>7, <2>1, <2>2 DEF KillSupervisor, TypeOK, files
<1>8. CASE Pass
  <2>1. now' \in 0..MaxTime
    BY <1>8 DEF Pass, TypeOK
  <2> QED
    BY <1>8, <2>1 DEF Pass, TypeOK, files, history, kills
<1>9. CASE WouldBlock
  <2>1. unseen' \subseteq 0..MaxTime /\ late' \subseteq unseen'
    BY <1>9 DEF WouldBlock, TypeOK
  <2> QED
    BY <1>9, <2>1 DEF WouldBlock, TypeOK, files, kills
<1>10. CASE UNCHANGED vars
  BY <1>10 DEF vars, TypeOK, files, history, kills
<1> QED
  BY <1>1, <1>2, <1>3, <1>4, <1>5, <1>6, <1>7, <1>8, <1>9, <1>10 DEF Next

(* Every part of the state has its type: the two files, every document and *)
(* list an operation still carries, the supervisor and the bounds.         *)
THEOREM TypeCorrect == Spec => []TypeOK
<1>1. Init => TypeOK
  <2> SUFFICES ASSUME Init PROVE TypeOK
    OBVIOUS
  <2>1. now \in 0..MaxTime /\ calls \in 0..MaxCalls /\ opKills \in 0..OperatorKills
        /\ supKills \in 0..SupervisorKills
    BY TimesAssumption, BudgetAssumption DEF Init
  <2>2. proc \in [Processes -> Operations] /\ store \in Docs /\ effective \in Lists
    BY FirstRunType, AtRestType DEF Init, Nothing, Lists
  <2> QED
    BY <2>1, <2>2 DEF Init, TypeOK
<1>2. TypeOK /\ [Next]_vars => TypeOK'
  BY TypeStep
<1> QED
  BY <1>1, <1>2, PTL DEF Spec

-----------------------------------------------------------------------------
(* What the store and the list may hold.                                   *)

LEMMA MoreAsked ==
  ASSUME NEW g1, NEW g2, g1 \subseteq g2
  PROVE /\ \A hosts : AskedOnly(hosts, g1) => AskedOnly(hosts, g2)
        /\ \A doc : SoundDoc(doc, g1) => SoundDoc(doc, g2)
        /\ \A allow : RuntimeAsked(allow, g1) => RuntimeAsked(allow, g2)
        /\ \A operation : SoundOperation(operation, g1) => SoundOperation(operation, g2)
<1>1. \A hosts : AskedOnly(hosts, g1) => AskedOnly(hosts, g2)
  BY DEF AskedOnly
<1>2. \A doc : SoundDoc(doc, g1) => SoundDoc(doc, g2)
  BY <1>1 DEF SoundDoc
<1>3. \A allow : RuntimeAsked(allow, g1) => RuntimeAsked(allow, g2)
  BY DEF RuntimeAsked
<1> QED
  BY <1>1, <1>2, <1>3 DEF SoundOperation

LEMMA AtRestSound ==
  ASSUME NEW grants
  PROVE SoundOperation(AtRest, grants) /\ SoundOperation(Publish, grants)
        /\ SoundDoc(FirstRun, grants)
  BY DEF SoundOperation, AtRest, Publish, AskedOnly, NoGrants, SoundDoc, Enforces, FirstRun,
         RuntimeAsked, Nothing

LEMMA EditSound ==
  ASSUME NEW grants, NEW host, NEW hosts, NEW close, AskedOnly(hosts, grants)
  PROVE SoundOperation(Edit(host, hosts, close), grants)
  BY AtRestSound DEF Edit, SoundOperation, AtRest

LEMMA SaveSound ==
  ASSUME NEW grants, NEW doc, NEW publish, SoundDoc(doc, grants)
  PROVE SoundOperation(Save(doc, publish), grants)
  BY AtRestSound DEF Save, SoundOperation, AtRest

LEMMA TablesSound ==
  ASSUME NEW grants, NEW hosts \in Tables, AskedOnly(hosts, grants)
  PROVE AskedOnly(Pruned(hosts), grants) /\ AskedOnly(Kept(hosts), grants)
  BY DEF AskedOnly, Pruned, Kept, Tables

LEMMA CloseWindowSound ==
  ASSUME NEW grants, NEW doc \in Docs, SoundDoc(doc, grants)
  PROVE SoundDoc(CloseWindow(doc), grants)
  BY DEF CloseWindow, SoundDoc, Enforces, Docs

LEMMA LearningSound ==
  ASSUME NEW grants, NEW doc \in Docs, NEW ttl, SoundDoc(doc, grants)
  PROVE SoundDoc(Learning(doc, ttl), grants)
  BY DEF Learning, SoundDoc, Enforces, Docs

LEMMA WalledSound ==
  ASSUME NEW grants, NEW doc \in Docs, NEW on, SoundDoc(doc, grants)
  PROVE SoundDoc(Walled(doc, on), grants)
  BY NotARecordAssumption DEF Walled, CloseWindow, SoundDoc, Enforces, Docs

(* The runtime list a sound store resolves to.                             *)
LEMMA AllowedSound ==
  ASSUME TypeOK, Sound
  PROVE RuntimeAsked(Allowed(store, "runtime"), asked)
<1> SUFFICES ASSUME NEW h \in Allowed(store, "runtime")
             PROVE \E a \in asked : a[1] = h /\ a[2].scope = "runtime"
  BY DEF RuntimeAsked
<1>1. h \in Hosts /\ Pruned(store.hosts)[h] # None /\ store.hosts[h].scope = "runtime"
  BY DEF Allowed
<1>2. store.hosts[h] # None
  BY <1>1 DEF Pruned
<1>3. <<h, store.hosts[h]>> \in asked
  BY <1>1, <1>2 DEF Sound, SoundDoc, AskedOnly
<1> QED
  BY <1>1, <1>3

(* One process's operation changes, and the files do not.                  *)
LEMMA OneProcess ==
  ASSUME TypeOK, Sound, NEW p \in Processes, NEW operation,
         SoundOperation(operation, asked'),
         proc' = [proc EXCEPT ![p] = operation],
         asked \subseteq asked', store' = store, effective' = effective
  PROVE Sound'
<1>1. SoundDoc(store, asked') /\ RuntimeAsked(effective.allow, asked')
  BY MoreAsked DEF Sound
<1>2. \A q \in Processes : SoundOperation(proc'[q], asked')
  <2> SUFFICES ASSUME NEW q \in Processes PROVE SoundOperation(proc'[q], asked')
    OBVIOUS
  <2>1. CASE q = p
    BY <2>1 DEF TypeOK
  <2>2. CASE q # p
    <3>1. proc'[q] = proc[q] /\ SoundOperation(proc[q], asked)
      BY <2>2 DEF TypeOK, Sound
    <3> QED
      BY <3>1, MoreAsked
  <2> QED
    BY <2>1, <2>2
<1> QED
  BY <1>1, <1>2 DEF Sound

(* Neither the files, nor an operation, nor what was asked changes.        *)
LEMMA NoProcess ==
  ASSUME Sound, UNCHANGED <<store, effective, proc, asked>> PROVE Sound'
  BY DEF Sound

LEMMA GoOnSound ==
  ASSUME TypeOK, Sound, NEW p \in Processes, GoOn(p) PROVE Sound'
<1>0. /\ store \in Docs /\ proc[p] \in Operations /\ proc[p].hosts \in Tables
      /\ SoundDoc(store, asked) /\ SoundOperation(proc[p], asked)
  BY DEF TypeOK, Operations, Sound
<1>1. CASE ReadDoc(p)
  <2> DEFINE doc == [store EXCEPT !.hosts = proc[p].hosts]
             next == IF proc[p].close THEN CloseWindow(doc) ELSE doc
             operation == [Save(next, TRUE) EXCEPT !.target = proc[p].target]
  <2>1. doc \in Docs
    BY <1>0 DEF Docs
  <2>2. SoundDoc(doc, asked)
    BY <1>0 DEF SoundDoc, SoundOperation, Enforces, Docs
  <2>3. SoundDoc(next, asked)
    BY <2>1, <2>2, CloseWindowSound
  <2>4. proc' = [proc EXCEPT ![p] = operation] /\ UNCHANGED <<store, effective, asked>>
    BY <1>1 DEF ReadDoc, files, history
  <2> HIDE DEF next
  <2>5. SoundOperation(Save(next, TRUE), asked)
    BY <2>3, SaveSound
  <2>6. SoundOperation(operation, asked)
    BY <2>5 DEF SoundOperation, Save, AtRest
  <2> HIDE DEF operation
  <2> QED
    BY <2>4, <2>6, OneProcess
<1>2. CASE SaveDoc(p)
  <2> DEFINE operation == IF proc[p].publish THEN Publish ELSE AtRest
  <2>1. /\ store' = proc[p].doc /\ proc' = [proc EXCEPT ![p] = operation]
        /\ UNCHANGED <<effective, asked>>
    BY <1>2 DEF SaveDoc, history
  <2>2. SoundDoc(store', asked)
    BY <1>0, <2>1 DEF SoundOperation
  <2>3. SoundOperation(operation, asked)
    BY AtRestSound
  <2>4. \A q \in Processes : SoundOperation(proc'[q], asked)
    BY <2>1, <2>3 DEF Sound, TypeOK
  <2> QED
    BY <2>1, <2>2, <2>4 DEF Sound
<1>3. CASE ReadDeny(p)
  <2> DEFINE operation == [proc[p] EXCEPT !.pc = "allow", !.list.deny = DefaultDeny(store)]
  <2>1. proc' = [proc EXCEPT ![p] = operation] /\ UNCHANGED <<store, effective, asked>>
    BY <1>3, <1>0 DEF ReadDeny, files, history, TypeOK, Operations, Lists
  <2>2. SoundOperation(operation, asked)
    BY <1>0 DEF SoundOperation, Operations, Lists
  <2> HIDE DEF operation
  <2> QED
    BY <2>1, <2>2, OneProcess
<1>4. CASE ReadAllow(p)
  <2> DEFINE operation == [proc[p] EXCEPT !.pc = "build", !.list.allow = Allowed(store, "runtime")]
  <2>1. proc' = [proc EXCEPT ![p] = operation] /\ UNCHANGED <<store, effective, asked>>
    BY <1>4, <1>0 DEF ReadAllow, files, history, TypeOK, Operations, Lists
  <2>2. SoundOperation(operation, asked)
    BY <1>0, AllowedSound DEF SoundOperation, Operations, Lists
  <2> HIDE DEF operation
  <2> QED
    BY <2>1, <2>2, OneProcess
<1>5. CASE ReadBuild(p)
  <2> DEFINE operation == [proc[p] EXCEPT !.pc = "publish", !.list.build = Allowed(store, "build")]
  <2>1. proc' = [proc EXCEPT ![p] = operation] /\ UNCHANGED <<store, effective, asked>>
    BY <1>5, <1>0 DEF ReadBuild, files, history, TypeOK, Operations, Lists
  <2>2. SoundOperation(operation, asked)
    BY <1>0 DEF SoundOperation, Operations, Lists
  <2> HIDE DEF operation
  <2> QED
    BY <2>1, <2>2, OneProcess
<1>6. CASE WriteEffective(p)
  <2>1. /\ effective' = proc[p].list /\ proc' = [proc EXCEPT ![p] = AtRest]
        /\ UNCHANGED <<store, asked>>
    BY <1>6 DEF WriteEffective, history
  <2>2. RuntimeAsked(effective'.allow, asked)
    BY <1>0, <2>1 DEF SoundOperation
  <2>3. \A q \in Processes : SoundOperation(proc'[q], asked)
    BY <2>1, AtRestSound DEF Sound, TypeOK
  <2> QED
    BY <2>1, <2>2, <2>3 DEF Sound
<1>7. CASE ReviewRows(p)
  <2>1. SoundOperation([AtRest EXCEPT !.pc = "mark"], asked)
    BY AtRestSound DEF SoundOperation, AtRest
  <2> QED
    BY <1>7, <2>1, OneProcess DEF ReviewRows, files
<1>8. CASE MarkReviewed(p)
  <2>1. SoundDoc([store EXCEPT !.reviewed = now], asked)
    BY <1>0 DEF SoundDoc, Enforces, Docs
  <2>2. SoundOperation(Save([store EXCEPT !.reviewed = now], FALSE), asked)
    BY <2>1, SaveSound
  <2> QED
    BY <1>8, <2>2, OneProcess DEF MarkReviewed, files, history
<1>9. ASSUME NEW ttl \in WindowTTLs, SeedLearns(p, ttl) PROVE Sound'
  <2>1. SoundOperation(Save(Learning(store, ttl), TRUE), asked)
    BY <1>0, LearningSound, SaveSound
  <2> QED
    BY <1>9, <2>1, OneProcess DEF SeedLearns, files, history
<1> QED
  BY <1>1, <1>2, <1>3, <1>4, <1>5, <1>6, <1>7, <1>8, <1>9 DEF GoOn

LEMMA StartSound ==
  ASSUME TypeOK, Sound, NEW p \in Operators, Start(p) PROVE Sound'
<1>0. /\ p \in Processes /\ store \in Docs /\ store.hosts \in Tables
      /\ Pruned(store.hosts) \in Tables
      /\ SoundDoc(store, asked) /\ AskedOnly(Pruned(store.hosts), asked)
  BY PrunedType, TablesSound DEF Processes, TypeOK, Docs, Sound, SoundDoc
<1>1. ASSUME NEW h \in Hosts, NEW terms \in Terms, Grant(p, h, terms) PROVE Sound'
  <2> DEFINE kept == Pruned(store.hosts)
             operation == IF Covered(terms.scope, kept[h]) THEN Publish
                          ELSE Edit(h, [kept EXCEPT ![h] = NewGrant(terms)], FALSE)
  <2>1. asked' = asked \cup {<<h, Ask(terms)>>} /\ NewGrant(terms) = Ask(terms)
    BY <1>1 DEF Grant, NewGrant, Ask
  <2>2. AskedOnly([kept EXCEPT ![h] = NewGrant(terms)], asked')
    BY <1>0, <2>1 DEF AskedOnly, Tables
  <2>3. SoundOperation(operation, asked')
    BY <2>2, AtRestSound, EditSound
  <2>4. proc' = [proc EXCEPT ![p] = operation] /\ UNCHANGED <<store, effective>>
    BY <1>1 DEF Grant, Enter, files
  <2> HIDE DEF operation
  <2> QED
    BY <1>0, <2>1, <2>3, <2>4, OneProcess
<1>2. ASSUME NEW h \in Hosts, Revoke(p, h) PROVE Sound'
  <2> DEFINE kept == Pruned(store.hosts)
             operation == IF kept[h] = None THEN Publish
                          ELSE Edit(h, [kept EXCEPT ![h] = None], FALSE)
  <2>1. AskedOnly([kept EXCEPT ![h] = None], asked)
    BY <1>0 DEF AskedOnly, Tables
  <2>2. SoundOperation(operation, asked)
    BY <2>1, AtRestSound, EditSound
  <2>3. proc' = [proc EXCEPT ![p] = operation] /\ UNCHANGED <<store, effective, asked>>
    BY <1>2 DEF Revoke, Enter, files
  <2> HIDE DEF operation
  <2> QED
    BY <1>0, <2>2, <2>3, OneProcess
<1>3. ASSUME NEW on \in BOOLEAN, SetWall(p, on) PROVE Sound'
  <2>1. SoundOperation(Save(Walled(store, on), TRUE), asked)
    BY <1>0, WalledSound, SaveSound
  <2> QED
    BY <1>0, <1>3, <2>1, OneProcess DEF SetWall, Enter, files
<1>4. ASSUME NEW ttl \in WindowTTLs, StartLearning(p, ttl) PROVE Sound'
  <2>1. SoundOperation(Save(Learning(store, ttl), TRUE), asked)
    BY <1>0, LearningSound, SaveSound
  <2> QED
    BY <1>0, <1>4, <2>1, OneProcess DEF StartLearning, Enter, files
<1>5. CASE Decline(p)
  <2>1. SoundOperation(Save(store, FALSE), asked)
    BY <1>0, SaveSound
  <2> QED
    BY <1>0, <1>5, <2>1, OneProcess DEF Decline, Enter, files
<1>6. CASE Seed(p)
  <2>1. SoundOperation([AtRest EXCEPT !.pc = "seed"], asked)
    BY AtRestSound DEF SoundOperation, AtRest
  <2> QED
    BY <1>0, <1>6, <2>1, OneProcess DEF Seed, Enter, files
<1>7. CASE Review(p)
  <2>1. SoundOperation([AtRest EXCEPT !.pc = "rows", !.window = LastWindow(store)], asked)
    BY AtRestSound DEF SoundOperation, AtRest
  <2> QED
    BY <1>0, <1>7, <2>1, OneProcess DEF Review, Enter, files
<1>8. CASE Launch(p)
  <2>1. AskedOnly(Kept(Pruned(store.hosts)), asked)
    BY <1>0, TablesSound
  <2>2. SoundOperation(Edit(None, Kept(Pruned(store.hosts)), FALSE), asked)
    BY <2>1, EditSound
  <2> QED
    BY <1>0, <1>8, <2>2, OneProcess DEF Launch, Enter, files
<1> QED
  BY <1>1, <1>2, <1>3, <1>4, <1>5, <1>6, <1>7, <1>8 DEF Start

LEMMA SupervisorSound ==
  ASSUME TypeOK, Sound, SupervisorStep PROVE Sound'
<1>0. /\ Supervisor \in Processes /\ Pruned(store.hosts) \in Tables
      /\ AskedOnly(Pruned(store.hosts), asked)
  BY PrunedType, TablesSound DEF Processes, TypeOK, Docs, Sound, SoundDoc
<1>1. CASE Boot
  <2> DEFINE operation == IF sup = "clear" THEN Edit(None, Kept(Pruned(store.hosts)), FALSE)
                          ELSE Publish
  <2>1. AskedOnly(Kept(Pruned(store.hosts)), asked)
    BY <1>0, TablesSound
  <2>2. SoundOperation(operation, asked)
    BY <2>1, EditSound, AtRestSound
  <2>3. proc' = [proc EXCEPT ![Supervisor] = operation] /\ UNCHANGED <<store, effective, asked>>
    BY <1>1 DEF Boot, Enter, files
  <2> HIDE DEF operation
  <2> QED
    BY <1>0, <2>2, <2>3, OneProcess
<1>2. CASE Sweep
  <2> DEFINE lapsed == store.learn # None /\ ~WindowOpen(store)
             operation == Edit(None, Pruned(store.hosts), lapsed)
  <2>1. SoundOperation(operation, asked)
    BY <1>0, EditSound
  <2>2. \/ proc' = [proc EXCEPT ![Supervisor] = operation]
        \/ proc' = proc
    BY <1>2 DEF Sweep, Enter
  <2>3. UNCHANGED <<store, effective, asked>>
    BY <1>2 DEF Sweep, files
  <2> HIDE DEF operation
  <2> QED
    BY <1>0, <2>1, <2>2, <2>3, OneProcess, NoProcess
<1>3. CASE ReadWall
  BY <1>3, NoProcess DEF ReadWall, files, history
<1>4. CASE WriteLive
  BY <1>4, NoProcess DEF WriteLive, history
<1> QED
  BY <1>1, <1>2, <1>3, <1>4 DEF SupervisorStep

LEMMA SoundStep ==
  ASSUME TypeOK, Sound, [Next]_vars PROVE Sound'
<1>1. ASSUME NEW p \in Operators, Start(p) PROVE Sound'
  BY <1>1, StartSound
<1>2. ASSUME NEW p \in Operators, Spawn(p) PROVE Sound'
  BY <1>2, NoProcess DEF Spawn, files, history
<1>3. ASSUME NEW p \in Operators, KillOperator(p) PROVE Sound'
  BY <1>3, AtRestSound, OneProcess DEF KillOperator, files, Processes
<1>4. ASSUME NEW p \in Processes, GoOn(p) PROVE Sound'
  BY <1>4, GoOnSound
<1>5. CASE Restart
  BY <1>5, NoProcess DEF Restart, files
<1>6. CASE SupervisorStep
  BY <1>6, SupervisorSound
<1>7. CASE KillSupervisor
  BY <1>7, AtRestSound, OneProcess DEF KillSupervisor, files, Processes
<1>8. CASE Pass
  BY <1>8, NoProcess DEF Pass, files, history
<1>9. CASE WouldBlock
  BY <1>9, NoProcess DEF WouldBlock, files
<1>10. CASE UNCHANGED vars
  BY <1>10, NoProcess DEF vars, files, history
<1> QED
  BY <1>1, <1>2, <1>3, <1>4, <1>5, <1>6, <1>7, <1>8, <1>9, <1>10 DEF Next

LEMMA SoundAlways == Spec => []Sound
<1>1. Init => Sound
  BY AtRestSound DEF Init, Sound, Nothing, RuntimeAsked
<1>2. TypeOK /\ Sound /\ [Next]_vars => Sound'
  BY SoundStep
<1> QED
  BY <1>1, <1>2, TypeCorrect, PTL DEF Spec

(* Whatever overlaps or dies, the store holds no grant that no operator    *)
(* asked for with that level, scope and deadline.                          *)
THEOREM StoreHoldsWhatWasAsked == Spec => []GrantsWereAsked
<1>1. Sound => GrantsWereAsked
  BY DEF Sound, SoundDoc, AskedOnly, GrantsWereAsked
<1> QED
  BY <1>1, SoundAlways, PTL

(* A host in the list the proxy reads for the box's own traffic was asked  *)
(* for at runtime scope, from whichever reads the list was put together.   *)
THEOREM BuildGrantsStayBuild == Spec => []BuildStaysBuild
<1>1. Sound => BuildStaysBuild
  BY DEF Sound, RuntimeAsked, BuildStaysBuild
<1> QED
  BY <1>1, SoundAlways, PTL

(* A store with a learn window in it enforces once the window is over.     *)
THEOREM WindowsEndInEnforcing == Spec => []WindowResumesEnforcing
<1>1. Sound => WindowResumesEnforcing
  BY DEF Sound, SoundDoc, Enforces, WindowResumesEnforcing
<1> QED
  BY <1>1, SoundAlways, PTL


-----------------------------------------------------------------------------
(* The transcripts, beside the store (module Transcripts as MCAllowStore   *)
(* takes it): for any terminals, copiers and bounds.                       *)
Names == {"own", "foreign", "deep"}
Trees == {"legacy", "slot", "archive"}
Missing == Archive!NoFile
TreeFiles == {f \in [lines : Nat, mtime : Nat] : f = Missing \/ f.lines > 0}
Copies ==
  [pc : {"idle", "walk", "write", "remove", "run"}, stage : {1, 2}, todo : SUBSET Names,
   path : Names \cup {""}, file : TreeFiles, bad : SUBSET {"vanished", "deep", "error"}]

ArchiveTyped ==
  /\ tree \in [Trees -> [Names -> TreeFiles]]
  /\ job \in [Archive!Jobs -> Copies]
  /\ \A j \in Archive!Jobs : job[j].pc = "write" => job[j].path \in Names
  /\ wrote \in [Names -> Nat] /\ clock \in Nat
  /\ \A p \in Names : tree["legacy"][p].mtime <= clock /\ tree["slot"][p].mtime <= clock

(* While the old box is up nobody migrates, and no slot is there yet.      *)
NoneMigrates ==
  box = "old" =>
    /\ \A j \in Terminals : job[j].pc = "idle"
    /\ \A p \in Names : tree["slot"][p] = Missing

(* What the slot has is what was written last, and the legacy tree's is    *)
(* never newer; what the slot does not have the legacy tree still has.     *)
Latest(legacy, slot, lines) ==
  IF slot = Missing THEN lines = legacy.lines
  ELSE /\ lines = slot.lines
       /\ legacy = Missing \/ legacy = slot \/ slot.mtime > legacy.mtime

SlotIsLatest ==
  \A p \in Names \ slipped : Latest(tree["legacy"][p], tree["slot"][p], wrote[p])

(* A file on its way into the slot is the legacy tree's, and the slot's    *)
(* own has not been written since unless its time says so.                 *)
FromLegacy(file, legacy, slot, lines, time, gone) ==
  /\ file # Missing /\ file.mtime <= time /\ legacy \in {file, Missing}
  /\ \/ gone
     \/ slot.mtime > file.mtime
     \/ lines = file.lines /\ slot \in {Missing, file}

CopyIsLegacys ==
  \A j \in Terminals :
    (job[j].pc = "write" /\ job[j].stage = 1) =>
      LET p == job[j].path IN
      FromLegacy(job[j].file, tree["legacy"][p], tree["slot"][p], wrote[p], clock, p \in slipped)

(* A copy that has not failed so far has passed over nothing the slot does *)
(* not have.                                                               *)
Passed(c, p) == c.stage = 2 \/ ~(p \in c.todo \/ (c.pc = "write" /\ c.path = p))

NonePassedOver ==
  \A j \in Terminals :
    /\ job[j].pc = "remove" => job[j].stage = 2 /\ job[j].bad = {}
    /\ (job[j].pc \in {"walk", "write", "remove"} /\ job[j].bad = {}) =>
         \A p \in Names :
           (tree["legacy"][p] # Missing /\ Passed(job[j], p)) => tree["slot"][p] # Missing

ArchiveInv == ArchiveTyped /\ NoneMigrates /\ SlotIsLatest /\ CopyIsLegacys /\ NonePassedOver

LEMMA MissingFile == Missing \in TreeFiles /\ Missing.lines = 0 /\ Missing.mtime = 0
  BY DEF Missing, Archive!NoFile, TreeFiles

LEMMA IdleCopy == Archive!Idle \in Copies /\ Archive!Idle.pc = "idle" /\ Archive!Idle.bad = {}
                  /\ Archive!Idle.stage = 1
  BY MissingFile DEF Archive!Idle, Copies, Missing

LEMMA NamesAreOfFiles ==
  ASSUME NEW t PROVE Archive!NamesIn(t) = {p \in Names : tree[t][p] # Missing}
  BY DEF Archive!NamesIn, Names, Missing

LEMMA TerminalsCopy == Terminals \subseteq Archive!Jobs
  BY DEF Archive!Jobs

(* One copier moves on; the trees stay.                                    *)
LEMMA MovesOn ==
  ASSUME ArchiveInv, NEW j \in Archive!Jobs, NEW c \in Copies, Archive!Goes(j, c),
         UNCHANGED <<tree, box, wrote, clock, slipped>>,
         c.pc = "write" => c.path \in Names,
         j \in Terminals =>
           /\ box = "old" => c.pc = "idle"
           /\ (c.pc = "write" /\ c.stage = 1) =>
                FromLegacy(c.file, tree["legacy"][c.path], tree["slot"][c.path], wrote[c.path],
                           clock, c.path \in slipped)
           /\ c.pc = "remove" => c.stage = 2 /\ c.bad = {}
           /\ (c.pc \in {"walk", "write", "remove"} /\ c.bad = {}) =>
                \A p \in Names :
                  (tree["legacy"][p] # Missing /\ Passed(c, p)) => tree["slot"][p] # Missing
  PROVE  ArchiveInv'
<1>1. /\ job' \in [Archive!Jobs -> Copies]
      /\ \A i \in Archive!Jobs : job'[i] = IF i = j THEN c ELSE job[i]
  BY DEF ArchiveInv, ArchiveTyped, Archive!Goes
<1>2. Terminals \subseteq Archive!Jobs
  BY TerminalsCopy
<1>3. ArchiveTyped'
  BY <1>1 DEF ArchiveInv, ArchiveTyped
<1>4. NoneMigrates'
  BY <1>1, <1>2 DEF ArchiveInv, NoneMigrates
<1>5. SlotIsLatest'
  BY DEF ArchiveInv, SlotIsLatest
<1>6. CopyIsLegacys'
  BY <1>1, <1>2 DEF ArchiveInv, CopyIsLegacys
<1>7. NonePassedOver'
  BY <1>1, <1>2 DEF ArchiveInv, NonePassedOver
<1> QED BY <1>3, <1>4, <1>5, <1>6, <1>7 DEF ArchiveInv

(* What a copier is at when it is no terminal's, or at nothing.            *)
LEMMA MovesAside ==
  ASSUME ArchiveInv, NEW j \in Archive!Jobs, NEW c \in Copies, Archive!Goes(j, c),
         UNCHANGED <<tree, box, wrote, clock, slipped>>,
         c.pc = "write" => c.path \in Names,
         j \in Terminals => c.pc \in {"idle", "run"} /\ (c.pc = "idle" \/ box # "old")
  PROVE  ArchiveInv'
<1>1. c.pc \in {"idle", "run"} => c.pc \notin {"write", "remove", "walk"}
  OBVIOUS
<1> QED BY <1>1, MovesOn

LEMMA LookStep ==
  ASSUME ArchiveInv, NEW j \in Archive!Jobs, Archive!Look(j)
  PROVE  ArchiveInv'
<1> DEFINE c == job[j]
<1>0. /\ c \in Copies /\ c.pc = "walk" /\ UNCHANGED <<tree, box, wrote, clock, slipped>>
      /\ tree \in [Trees -> [Names -> TreeFiles]]
  BY DEF ArchiveInv, ArchiveTyped, Archive!Look
<1>1. PICK p \in c.todo :
        LET f == tree[Archive!From(j)][p]
            on == [c EXCEPT !.todo = @ \ {p}]
        IN  IF Archive!Held(j, p) THEN Archive!Goes(j, on)
            ELSE IF f = Missing THEN Archive!Goes(j, [on EXCEPT !.bad = @ \cup {"vanished"}])
            ELSE IF p = "deep"
            THEN Archive!Goes(j, [on EXCEPT !.bad = IF Archive!To(j) = "slot" THEN @ \cup {"deep"}
                                                    ELSE @])
            ELSE IF Archive!Newer(f, tree[Archive!To(j)][p])
            THEN Archive!Goes(j, [on EXCEPT !.pc = "write", !.path = p, !.file = f])
            ELSE Archive!Goes(j, on)
  BY DEF Archive!Look, Missing
<1> DEFINE f == tree[Archive!From(j)][p]
           on == [c EXCEPT !.todo = c.todo \ {p}]
<1>2. p \in Names /\ Archive!From(j) \in Trees /\ Archive!To(j) \in Trees /\ f \in TreeFiles
  BY <1>0 DEF Copies, Archive!From, Archive!To, Trees
<1>3. /\ on \in Copies /\ on.pc = "walk" /\ on.todo = c.todo \ {p} /\ on.bad = c.bad
      /\ on.stage = c.stage /\ on.path = c.path /\ on.file = c.file
  BY <1>0 DEF Copies
<1>4. (j \in Terminals /\ c.stage = 1) =>
        Archive!From(j) = "legacy" /\ Archive!To(j) = "slot" /\ ~Archive!Held(j, p)
  BY <1>0 DEF Archive!From, Archive!To, Archive!Held
<1>5. j \in Terminals =>
        /\ box # "old"
        /\ c.bad = {} =>
             \A q \in Names :
               (tree["legacy"][q] # Missing /\ Passed(c, q)) => tree["slot"][q] # Missing
  BY <1>0 DEF ArchiveInv, NoneMigrates, NonePassedOver
<1> HIDE DEF f, on
(* Passing p over, or failing to copy it.                                  *)
<1>6. ASSUME NEW bad \in SUBSET {"vanished", "deep", "error"},
             Archive!Goes(j, [on EXCEPT !.bad = bad]),
             (j \in Terminals /\ bad = {}) =>
               /\ c.bad = {}
               /\ c.stage = 1 => (tree["legacy"][p] = Missing \/ tree["slot"][p] # Missing)
      PROVE  ArchiveInv'
  <2> DEFINE d == [on EXCEPT !.bad = bad]
  <2>1. /\ d \in Copies /\ d.pc = "walk" /\ d.todo = c.todo \ {p} /\ d.bad = bad
        /\ d.stage = c.stage
    BY <1>3, <1>6 DEF Copies
  <2> HIDE DEF d
  <2>2. Archive!Goes(j, d)
    BY <1>6 DEF d
  <2>3. (j \in Terminals /\ bad = {}) =>
          \A q \in Names :
            (tree["legacy"][q] # Missing /\ Passed(d, q)) => tree["slot"][q] # Missing
    BY <1>0, <1>5, <1>6, <2>1 DEF Passed, Copies
  <2> QED BY <1>0, <1>5, <2>1, <2>2, <2>3, MovesOn
<1>7. [on EXCEPT !.bad = c.bad] = on
  BY <1>3 DEF Copies
<1>8. CASE Archive!Held(j, p)
  <2>1. Archive!Goes(j, on)
    BY <1>1, <1>8 DEF on
  <2>2. (j \in Terminals) => c.stage # 1
    BY <1>4, <1>8
  <2>3. c.bad \in SUBSET {"vanished", "deep", "error"}
    BY <1>0 DEF Copies
  <2> QED BY <1>6, <1>7, <2>1, <2>2, <2>3
<1>9. CASE ~Archive!Held(j, p) /\ f = Missing
  <2>1. Archive!Goes(j, [on EXCEPT !.bad = c.bad \cup {"vanished"}])
    BY <1>1, <1>3, <1>9 DEF on, f
  <2>2. c.bad \cup {"vanished"} \in SUBSET {"vanished", "deep", "error"}
    BY <1>0 DEF Copies
  <2> QED BY <1>6, <2>1, <2>2
<1>10. CASE ~Archive!Held(j, p) /\ f # Missing /\ p = "deep"
  <2> DEFINE bad == IF Archive!To(j) = "slot" THEN c.bad \cup {"deep"} ELSE c.bad
  <2>1. Archive!Goes(j, [on EXCEPT !.bad = bad])
    BY <1>1, <1>3, <1>10 DEF on, f
  <2>2. bad \in SUBSET {"vanished", "deep", "error"} /\ (bad = {} => c.bad = {} /\ Archive!To(j) # "slot")
    BY <1>0 DEF Copies
  <2> HIDE DEF bad
  <2> QED BY <1>4, <1>6, <2>1, <2>2
<1>11. CASE /\ ~Archive!Held(j, p) /\ f # Missing /\ p # "deep"
            /\ ~Archive!Newer(f, tree[Archive!To(j)][p])
  <2>1. Archive!Goes(j, on)
    BY <1>1, <1>11 DEF on, f
  <2>2. tree[Archive!To(j)][p] # Missing
    BY <1>11 DEF Archive!Newer, Missing
  <2>3. c.bad \in SUBSET {"vanished", "deep", "error"}
    BY <1>0 DEF Copies
  <2> QED BY <1>4, <1>6, <1>7, <2>1, <2>2, <2>3
<1>12. CASE /\ ~Archive!Held(j, p) /\ f # Missing /\ p # "deep"
            /\ Archive!Newer(f, tree[Archive!To(j)][p])
  <2> DEFINE d == [on EXCEPT !.pc = "write", !.path = p, !.file = f]
  <2>1. Archive!Goes(j, d)
    BY <1>1, <1>12 DEF on, f
  <2>2. /\ d \in Copies /\ d.pc = "write" /\ d.todo = c.todo \ {p} /\ d.bad = c.bad
        /\ d.stage = c.stage /\ d.path = p /\ d.file = f
    BY <1>2, <1>3 DEF Copies
  <2> HIDE DEF d
  <2>3. (j \in Terminals /\ c.bad = {}) =>
          \A q \in Names :
            (tree["legacy"][q] # Missing /\ Passed(d, q)) => tree["slot"][q] # Missing
    BY <1>0, <1>5, <2>2 DEF Passed, Copies
  <2>4. (j \in Terminals /\ c.stage = 1) =>
          FromLegacy(f, tree["legacy"][p], tree["slot"][p], wrote[p], clock, p \in slipped)
    <3> SUFFICES ASSUME j \in Terminals, c.stage = 1
                 PROVE  FromLegacy(f, tree["legacy"][p], tree["slot"][p], wrote[p], clock,
                                   p \in slipped)
      OBVIOUS
    <3>1. f = tree["legacy"][p] /\ Archive!Newer(f, tree["slot"][p]) /\ f # Missing
      BY <1>4, <1>12 DEF f
    <3>2. f.mtime <= clock
      BY <1>2, <3>1 DEF ArchiveInv, ArchiveTyped, Trees
    <3>3. p \notin slipped => Latest(f, tree["slot"][p], wrote[p])
      BY <1>2, <3>1 DEF ArchiveInv, SlotIsLatest
    <3>4. tree["slot"][p] \in TreeFiles
      BY <1>0, <1>2 DEF Trees
    <3>5. p \notin slipped =>
            \/ tree["slot"][p].mtime > f.mtime
            \/ wrote[p] = f.lines /\ tree["slot"][p] \in {Missing, f}
      BY <3>1, <3>3 DEF Latest
    <3> QED BY <3>1, <3>2, <3>5 DEF FromLegacy
  <2> QED BY <1>0, <1>2, <1>5, <2>1, <2>2, <2>3, <2>4, MovesOn
<1> QED BY <1>8, <1>9, <1>10, <1>11, <1>12

LEMMA WriteStep ==
  ASSUME ArchiveInv, NEW j \in Archive!Jobs, Archive!Write(j)
  PROVE  ArchiveInv'
<1> DEFINE c == job[j]
           p == c.path
           f == c.file
           on == [c EXCEPT !.pc = "walk", !.path = "", !.file = Missing]
<1>0. /\ c \in Copies /\ c.pc = "write" /\ UNCHANGED <<box, wrote, clock>>
      /\ p \in Names /\ f \in TreeFiles
      /\ tree \in [Trees -> [Names -> TreeFiles]]
  BY DEF ArchiveInv, ArchiveTyped, Archive!Write, Copies
<1>1. /\ on \in Copies /\ on.pc = "walk" /\ on.todo = c.todo /\ on.bad = c.bad
      /\ on.stage = c.stage
  BY <1>0, MissingFile DEF Copies
<1>2. j \in Terminals => box # "old"
  BY <1>0 DEF ArchiveInv, NoneMigrates
<1>3. \/ /\ tree' = [tree EXCEPT ![Archive!To(j)][p] = f]
         /\ slipped' = IF Archive!To(j) = "slot" /\ tree["slot"][p].mtime > f.mtime
                       THEN slipped \cup {p} ELSE slipped
         /\ Archive!Goes(j, on)
      \/ /\ Archive!Goes(j, [on EXCEPT !.bad = @ \cup {"error"}])
         /\ UNCHANGED <<tree, slipped>>
  BY DEF Archive!Write, Missing
<1> HIDE DEF on
<1>4. CASE Archive!Goes(j, [on EXCEPT !.bad = @ \cup {"error"}]) /\ UNCHANGED <<tree, slipped>>
  <2> DEFINE d == [on EXCEPT !.bad = on.bad \cup {"error"}]
  <2>1. /\ d \in Copies /\ d.pc = "walk" /\ d.bad # {}
    BY <1>1 DEF Copies
  <2>2. Archive!Goes(j, d)
    BY <1>4
  <2> HIDE DEF d
  <2> QED BY <1>0, <1>2, <1>4, <2>1, <2>2, MovesOn
<1>5. CASE /\ tree' = [tree EXCEPT ![Archive!To(j)][p] = f]
           /\ slipped' = IF Archive!To(j) = "slot" /\ tree["slot"][p].mtime > f.mtime
                         THEN slipped \cup {p} ELSE slipped
           /\ Archive!Goes(j, on)
  <2>1. /\ job' \in [Archive!Jobs -> Copies] /\ Archive!To(j) \in {"slot", "archive"}
        /\ \A i \in Archive!Jobs : job'[i] = IF i = j THEN on ELSE job[i]
        /\ job'[j].pc = "walk" /\ Terminals \subseteq Archive!Jobs
    BY <1>1, <1>5, TerminalsCopy DEF ArchiveInv, ArchiveTyped, Archive!Goes, Archive!To
  <2>2. CASE Archive!To(j) = "archive"
    <3>1. /\ tree'["legacy"] = tree["legacy"] /\ tree'["slot"] = tree["slot"] /\ slipped' = slipped
          /\ tree' \in [Trees -> [Names -> TreeFiles]]
          /\ j \in Terminals => c.stage = 2
      BY <1>0, <1>5, <2>2 DEF Trees, Archive!To, Copies
    <3>2. ArchiveTyped'
      BY <1>0, <2>1, <3>1 DEF ArchiveInv, ArchiveTyped
    <3>3. NoneMigrates'
      BY <1>0, <1>2, <2>1, <3>1 DEF ArchiveInv, NoneMigrates
    <3>4. SlotIsLatest'
      BY <1>0, <3>1 DEF ArchiveInv, SlotIsLatest
    <3>5. CopyIsLegacys'
      BY <1>0, <1>1, <2>1, <3>1 DEF ArchiveInv, CopyIsLegacys
    <3>6. j \in Terminals => \A q : Passed(c, q)
      BY <3>1 DEF Passed
    <3>7. NonePassedOver'
      BY <1>0, <1>1, <2>1, <3>1, <3>6 DEF ArchiveInv, NonePassedOver
    <3> QED BY <3>2, <3>3, <3>4, <3>5, <3>7 DEF ArchiveInv
  <2>3. CASE Archive!To(j) = "slot"
    <3> DEFINE legacy == tree["legacy"][p]
               slot == tree["slot"][p]
    <3>1. /\ tree'["legacy"] = tree["legacy"] /\ tree'["slot"] = [tree["slot"] EXCEPT ![p] = f]
          /\ tree' \in [Trees -> [Names -> TreeFiles]]
          /\ j \in Terminals /\ c.stage = 1 /\ box # "old"
          /\ slipped' = IF slot.mtime > f.mtime THEN slipped \cup {p} ELSE slipped
          /\ slot \in TreeFiles /\ legacy \in TreeFiles
      BY <1>0, <1>2, <1>5, <2>3 DEF Trees, Archive!To
    <3>2. FromLegacy(f, legacy, slot, wrote[p], clock, p \in slipped)
      BY <1>0, <3>1 DEF ArchiveInv, CopyIsLegacys
    <3>3. p \notin slipped => Latest(legacy, slot, wrote[p])
      BY <1>0 DEF ArchiveInv, SlotIsLatest
    <3> HIDE DEF p, f, legacy, slot
    <3>4. p \notin slipped' => /\ p \notin slipped /\ wrote[p] = f.lines /\ slot \in {Missing, f}
                               /\ slot = Missing => legacy = f
      <4> SUFFICES ASSUME p \notin slipped'
                   PROVE  /\ p \notin slipped /\ wrote[p] = f.lines /\ slot \in {Missing, f}
                          /\ slot = Missing => legacy = f
        OBVIOUS
      <4>1. p \notin slipped /\ ~(slot.mtime > f.mtime)
        BY <3>1
      <4>2. wrote[p] = f.lines /\ slot \in {Missing, f} /\ legacy \in {f, Missing} /\ f # Missing
        BY <3>2, <4>1 DEF FromLegacy
      <4>3. slot = Missing => legacy.lines = f.lines
        BY <3>3, <4>1, <4>2 DEF Latest
      <4>4. f.lines > 0 /\ Missing.lines = 0
        BY <1>0, <4>2, MissingFile DEF TreeFiles
      <4> QED BY <4>1, <4>2, <4>3, <4>4
    <3>5. f # Missing /\ f.mtime <= clock /\ legacy \in {f, Missing}
      BY <3>2 DEF FromLegacy
    <3>6. ArchiveTyped'
      <4>1. \A q \in Names : tree'["slot"][q] = IF q = p THEN f ELSE tree["slot"][q]
        BY <1>0, <3>1 DEF Trees
      <4> QED BY <1>0, <2>1, <3>1, <3>5, <4>1 DEF ArchiveInv, ArchiveTyped
    <3>7. NoneMigrates'
      BY <1>0, <3>1 DEF NoneMigrates
    <3>8. \A q \in Names : tree'["slot"][q] = IF q = p THEN f ELSE tree["slot"][q]
      BY <1>0, <3>1 DEF Trees
    <3>9. SlotIsLatest'
      <4>1. p \notin slipped' => Latest(legacy, f, wrote[p])
        BY <3>4, <3>5 DEF Latest
      <4>2. slipped \subseteq slipped'
        BY <3>1
      <4> QED BY <1>0, <3>1, <3>8, <4>1, <4>2 DEF ArchiveInv, SlotIsLatest, legacy
    <3>10. CopyIsLegacys'
      <4> SUFFICES ASSUME NEW i \in Terminals, job'[i].pc = "write", job'[i].stage = 1
                   PROVE  FromLegacy(job'[i].file, tree'["legacy"][job'[i].path],
                                     tree'["slot"][job'[i].path], wrote'[job'[i].path], clock',
                                     job'[i].path \in slipped')
        BY DEF CopyIsLegacys
      <4> DEFINE g == job[i].file
                 q == job[i].path
      <4>1. i # j /\ job'[i] = job[i] /\ q \in Names /\ g \in TreeFiles
        BY <1>1, <2>1 DEF ArchiveInv, ArchiveTyped, Copies
      <4>2. FromLegacy(g, tree["legacy"][q], tree["slot"][q], wrote[q], clock, q \in slipped)
        BY <4>1 DEF ArchiveInv, CopyIsLegacys
      <4> HIDE DEF g, q
      <4>3. slipped \subseteq slipped'
        BY <3>1
      <4>4. CASE q # p
        BY <1>0, <3>1, <3>8, <4>1, <4>2, <4>3, <4>4 DEF FromLegacy, g, q
      <4>5. CASE q = p
        <5>1. FromLegacy(g, legacy, slot, wrote[p], clock, p \in slipped)
          BY <4>2, <4>5 DEF legacy, slot
        <5>2. p \notin slipped' => (f.mtime > g.mtime \/ (wrote[p] = g.lines /\ f = g))
          <6> SUFFICES ASSUME p \notin slipped'
                       PROVE  f.mtime > g.mtime \/ (wrote[p] = g.lines /\ f = g)
            OBVIOUS
          <6>1. CASE slot = Missing
            <7>1. legacy = f /\ f # Missing
              BY <3>4, <3>5, <6>1
            <7>2. g = f
              BY <5>1, <7>1 DEF FromLegacy
            <7> QED BY <3>4, <7>2
          <6>2. CASE slot # Missing
            <7>1. slot = f /\ wrote[p] = f.lines
              BY <3>4, <6>2
            <7> QED BY <3>4, <5>1, <6>2, <7>1 DEF FromLegacy
          <6> QED BY <6>1, <6>2
        <5>3. /\ g # Missing /\ g.mtime <= clock /\ legacy \in {g, Missing}
          BY <5>1 DEF FromLegacy
        <5>4. FromLegacy(g, legacy, f, wrote[p], clock, p \in slipped')
          BY <5>2, <5>3 DEF FromLegacy
        <5> QED BY <1>0, <3>1, <3>8, <4>1, <4>5, <5>4 DEF g, q, legacy
      <4> QED BY <4>4, <4>5
    <3>11. NonePassedOver'
      <4>1. \A q \in Names : tree["slot"][q] # Missing => tree'["slot"][q] # Missing
        BY <3>5, <3>8
      <4>2. \A q \in Names : Passed(on, q) => Passed(c, q) \/ q = p
        BY <1>0, <1>1 DEF Passed, p
      <4>3. on.bad = {} =>
              \A q \in Names : (tree'["legacy"][q] # Missing /\ Passed(on, q)) => tree'["slot"][q] # Missing
        <5> SUFFICES ASSUME on.bad = {}, NEW q \in Names, tree'["legacy"][q] # Missing, Passed(on, q)
                     PROVE  tree'["slot"][q] # Missing
          OBVIOUS
        <5>1. CASE q = p
          BY <3>5, <3>8, <5>1
        <5>2. CASE q # p
          <6>1. c.bad = {} /\ Passed(c, q) /\ tree["legacy"][q] # Missing
            BY <1>1, <3>1, <4>2, <5>2
          <6> QED BY <1>0, <3>1, <4>1, <6>1 DEF ArchiveInv, NonePassedOver
        <5> QED BY <5>1, <5>2
      <4> QED BY <1>0, <1>1, <2>1, <3>1, <4>1, <4>3 DEF ArchiveInv, NonePassedOver
    <3> QED BY <3>6, <3>7, <3>9, <3>10, <3>11 DEF ArchiveInv
  <2> QED BY <2>1, <2>2, <2>3
<1> QED BY <1>3, <1>4, <1>5

LEMMA WalkedStep ==
  ASSUME ArchiveInv, NEW j \in Archive!Jobs, Archive!Walked(j)
  PROVE  ArchiveInv'
<1> DEFINE c == job[j]
<1>0. /\ c \in Copies /\ c.pc = "walk" /\ c.todo = {}
      /\ UNCHANGED <<tree, box, wrote, clock, slipped>>
  BY DEF ArchiveInv, ArchiveTyped, Archive!Walked
<1>1. j \in Terminals =>
        /\ box # "old"
        /\ c.bad = {} => \A q \in Names : tree["legacy"][q] # Missing => tree["slot"][q] # Missing
  BY <1>0 DEF ArchiveInv, NoneMigrates, NonePassedOver, Passed
<1>2. CASE c.stage = 1
  <2> DEFINE d == [c EXCEPT !.pc = "walk", !.stage = 2, !.todo = Archive!NamesIn("legacy")]
  <2>1. Archive!Goes(j, d)
    BY <1>2 DEF Archive!Walked, Archive!Lists
  <2>2. d \in Copies /\ d.pc = "walk" /\ d.bad = c.bad
    BY <1>0, NamesAreOfFiles DEF Copies
  <2> HIDE DEF d
  <2>3. j \in Terminals =>
          /\ box # "old"
          /\ d.bad = {} => \A q \in Names : tree["legacy"][q] # Missing => tree["slot"][q] # Missing
    BY <1>1, <2>2
  <2> HIDE DEF c
  <2> QED BY <1>0, <2>1, <2>2, <2>3, MovesOn
<1>3. CASE c.stage # 1 /\ j \notin Terminals
  BY <1>0, <1>3, IdleCopy, MovesOn DEF Archive!Walked
<1>4. CASE c.stage # 1 /\ j \in Terminals /\ c.bad = {}
  <2> DEFINE d == [c EXCEPT !.pc = "remove"]
  <2>1. Archive!Goes(j, d)
    BY <1>4 DEF Archive!Walked, Archive!Whole
  <2>2. d \in Copies /\ d.pc = "remove" /\ d.bad = {} /\ d.stage = 2
    BY <1>0, <1>4 DEF Copies
  <2> HIDE DEF d
  <2> QED BY <1>0, <1>1, <1>4, <2>1, <2>2, MovesOn
<1>5. CASE c.stage # 1 /\ j \in Terminals /\ c.bad # {}
  <2> DEFINE d == [Archive!Idle EXCEPT !.pc = "run"]
  <2>1. Archive!Goes(j, d)
    BY <1>5 DEF Archive!Walked, Archive!Whole
  <2>2. d \in Copies /\ d.pc = "run"
    BY IdleCopy DEF Copies
  <2> HIDE DEF d
  <2> QED BY <1>0, <1>1, <2>1, <2>2, MovesAside
<1> QED BY <1>2, <1>3, <1>4, <1>5

(* Only what the slot has as well goes from the legacy tree.               *)
LEMMA RemoveStep ==
  ASSUME ArchiveInv, NEW j \in Terminals, Archive!Remove(j)
  PROVE  ArchiveInv'
<1>0. /\ j \in Archive!Jobs /\ job[j].pc = "remove" /\ UNCHANGED <<box, wrote, clock, slipped>>
      /\ box # "old"
  BY TerminalsCopy DEF ArchiveInv, NoneMigrates, Archive!Remove
<1>1. CASE UNCHANGED tree /\ Archive!Goes(j, [Archive!Idle EXCEPT !.pc = "run"])
  <2> DEFINE d == [Archive!Idle EXCEPT !.pc = "run"]
  <2>1. d \in Copies /\ d.pc = "run"
    BY IdleCopy DEF Copies
  <2> HIDE DEF d
  <2> QED BY <1>0, <1>1, <2>1, MovesAside DEF d
<1>2. CASE \E p \in Archive!NamesIn("legacy") :
             tree' = [tree EXCEPT !["legacy"][p] = Missing] /\ UNCHANGED job
  <2>1. PICK p \in Names : /\ tree["legacy"][p] # Missing
                           /\ tree' = [tree EXCEPT !["legacy"][p] = Missing] /\ UNCHANGED job
    BY <1>2, NamesAreOfFiles
  <2>2. tree["slot"][p] # Missing
    BY <1>0, <2>1 DEF ArchiveInv, NonePassedOver, Passed
  <2>3. /\ tree' \in [Trees -> [Names -> TreeFiles]] /\ tree'["slot"] = tree["slot"]
        /\ \A q \in Names : tree'["legacy"][q] = IF q = p THEN Missing ELSE tree["legacy"][q]
    BY <2>1, MissingFile DEF ArchiveInv, ArchiveTyped, Trees
  <2>4. ArchiveTyped'
    <3>1. clock >= 0
      BY DEF ArchiveInv, ArchiveTyped
    <3> QED BY <1>0, <2>1, <2>3, <3>1, MissingFile DEF ArchiveInv, ArchiveTyped, Archive!Jobs
  <2>5. NoneMigrates'
    BY <1>0 DEF NoneMigrates
  <2>6. SlotIsLatest'
    BY <1>0, <2>2, <2>3 DEF ArchiveInv, SlotIsLatest, Latest
  <2>7. CopyIsLegacys'
    <3>1. \A i \in Terminals : job[i].pc = "write" => job[i].path \in Names
      BY TerminalsCopy DEF ArchiveInv, ArchiveTyped
    <3> QED BY <1>0, <2>1, <2>3, <3>1 DEF ArchiveInv, CopyIsLegacys, FromLegacy
  <2>8. NonePassedOver'
    BY <2>1, <2>3 DEF ArchiveInv, NonePassedOver
  <2> QED BY <2>4, <2>5, <2>6, <2>7, <2>8 DEF ArchiveInv
<1> QED BY <1>1, <1>2 DEF Archive!Remove, Missing

(* A box comes up; a job it had starts or ends.                            *)
LEMMA StartStep ==
  ASSUME ArchiveInv
  PROVE  /\ \A j \in Terminals : Archive!StartUp(j) \/ Archive!Kill(j) => ArchiveInv'
         /\ \A j \in Copiers : Archive!StartHand(j) \/ Archive!Kill(j) => ArchiveInv'
         /\ Archive!StartSweep => ArchiveInv'
<1> DEFINE Walk(t) == [Archive!Idle EXCEPT !.pc = "walk", !.stage = 1, !.todo = Archive!NamesIn(t)]
<1>1. \A t : Walk(t) \in Copies /\ Walk(t).pc = "walk" /\ Walk(t).stage = 1
             /\ Walk(t).todo = {p \in Names : tree[t][p] # Missing} /\ Walk(t).bad = {}
  BY IdleCopy, NamesAreOfFiles DEF Copies
<1> HIDE DEF Walk
<1>2. /\ Terminals \subseteq Archive!Jobs /\ Copiers \subseteq Archive!Jobs
      /\ "sweep" \in Archive!Jobs
      /\ \A j \in Copiers \cup {"sweep"} : j \notin Terminals
  BY TerminalsAssumption DEF Archive!Jobs, Archive!Sweep
<1>3. ASSUME NEW j \in Terminals, Archive!StartUp(j) PROVE ArchiveInv'
  <2>1. box # "old" /\ j \in Archive!Jobs /\ UNCHANGED <<tree, box, wrote, clock, slipped>>
    BY <1>2, <1>3 DEF Archive!StartUp
  <2>2. CASE Archive!NamesIn("legacy") = {}
    <3> DEFINE d == [Archive!Idle EXCEPT !.pc = "run"]
    <3>1. Archive!Goes(j, d)
      BY <1>3, <2>2 DEF Archive!StartUp
    <3>2. d \in Copies /\ d.pc = "run"
      BY IdleCopy DEF Copies
    <3> HIDE DEF d
    <3> QED BY <2>1, <3>1, <3>2, MovesAside
  <2>3. CASE Archive!NamesIn("legacy") # {}
    <3>1. Archive!Goes(j, Walk("legacy"))
      BY <1>3, <2>3 DEF Archive!StartUp, Archive!Lists, Walk
    <3>2. \A p \in Names : tree["legacy"][p] # Missing => ~Passed(Walk("legacy"), p)
      BY <1>1 DEF Passed
    <3> QED BY <1>1, <2>1, <3>1, <3>2, MovesOn
  <2> QED BY <2>2, <2>3
<1>4. ASSUME NEW j \in Archive!Jobs \ Terminals, Archive!Goes(j, Walk("slot")),
             UNCHANGED <<tree, box, wrote, clock, slipped>>
      PROVE  ArchiveInv'
  BY <1>1, <1>4, MovesOn
<1>5. ASSUME NEW j \in Archive!Jobs, Archive!Kill(j) PROVE ArchiveInv'
  BY <1>5, IdleCopy, MovesAside DEF Archive!Kill
<1>6. ASSUME NEW j \in Copiers, Archive!StartHand(j) PROVE ArchiveInv'
  BY <1>2, <1>4, <1>6 DEF Archive!StartHand, Archive!Lists, Walk
<1>7. ASSUME Archive!StartSweep PROVE ArchiveInv'
  BY <1>2, <1>4, <1>7 DEF Archive!StartSweep, Archive!Lists, Walk, Archive!Sweep
<1> QED BY <1>2, <1>3, <1>5, <1>6, <1>7

LEMMA RunStep ==
  ASSUME ArchiveInv, NEW j \in Terminals, Archive!Run(j)
  PROVE  ArchiveInv'
<1>1. /\ j \in Archive!Jobs /\ job' = [job EXCEPT ![j] = Archive!Idle]
      /\ UNCHANGED <<tree, wrote, clock, slipped>> /\ box # "old" /\ box' # "old"
  BY TerminalsCopy DEF Archive!Run, Archive!Goes, ArchiveInv, NoneMigrates
<1>2. /\ job' \in [Archive!Jobs -> Copies]
      /\ \A i \in Archive!Jobs : job'[i] = job[i] \/ job'[i].pc = "idle"
  BY <1>1, IdleCopy DEF ArchiveInv, ArchiveTyped
<1>3. ArchiveTyped'
  BY <1>1, <1>2 DEF ArchiveInv, ArchiveTyped
<1>4. CopyIsLegacys'
  BY <1>1, <1>2, TerminalsCopy DEF ArchiveInv, CopyIsLegacys
<1>5. NonePassedOver'
  BY <1>1, <1>2, TerminalsCopy DEF ArchiveInv, NonePassedOver
<1> QED BY <1>1, <1>3, <1>4, <1>5 DEF ArchiveInv, NoneMigrates, SlotIsLatest

(* The box writes on: its slot's file is then newer than any other, or,    *)
(* with the old box, there is no other.                                    *)
LEMMA LineStep ==
  ASSUME ArchiveInv, NEW p \in Names, Archive!Line(p)
  PROVE  ArchiveInv'
<1> DEFINE t == IF box = "old" THEN "legacy" ELSE "slot"
           new == [lines |-> tree[t][p].lines + 1, mtime |-> clock + 1]
<1>1. /\ tree[t][p] # Missing \/ wrote[p] = 0
      /\ wrote' = [wrote EXCEPT ![p] = @ + 1] /\ clock' = clock + 1
      /\ tree' = [tree EXCEPT ![t][p] = new]
      /\ UNCHANGED <<box, job, slipped>>
  BY DEF Archive!Line, Missing
<1>2. /\ tree \in [Trees -> [Names -> TreeFiles]] /\ t \in {"legacy", "slot"}
      /\ wrote \in [Names -> Nat] /\ clock \in Nat
      /\ \A q \in Names : tree["legacy"][q].mtime <= clock /\ tree["slot"][q].mtime <= clock
  BY DEF ArchiveInv, ArchiveTyped
<1>3. tree[t][p] \in TreeFiles
  BY <1>2 DEF Trees
<1>4. new \in TreeFiles /\ new.lines = tree[t][p].lines + 1 /\ new.mtime = clock + 1 /\ new # Missing
  BY <1>2, <1>3, MissingFile DEF TreeFiles
<1>5. tree[t][p] = Missing => tree[t][p].lines = 0
  BY MissingFile
<1> HIDE DEF new
<1>6. /\ tree' \in [Trees -> [Names -> TreeFiles]]
      /\ \A s \in {"legacy", "slot"}, q \in Names :
           tree'[s][q] = IF s = t /\ q = p THEN new ELSE tree[s][q]
  BY <1>1, <1>2, <1>4 DEF Trees
<1>7. wrote' \in [Names -> Nat]
      /\ \A q \in Names : wrote'[q] = IF q = p THEN wrote[q] + 1 ELSE wrote[q]
  BY <1>1, <1>2
<1>8. ArchiveTyped'
  <2>1. \A s \in {"legacy", "slot"}, q \in Names : tree'[s][q].mtime <= clock + 1
    <3> TAKE s \in {"legacy", "slot"}, q \in Names
    <3>1. tree[s][q].mtime \in Nat /\ tree[s][q].mtime <= clock
      BY <1>2 DEF Trees, TreeFiles
    <3> QED BY <1>2, <1>4, <1>6, <3>1
  <2> QED BY <1>1, <1>2, <1>6, <1>7, <2>1 DEF ArchiveInv, ArchiveTyped, Archive!Jobs
<1>9. CASE box = "old"
  <2>1. /\ \A j \in Terminals : job[j].pc = "idle"
        /\ \A q \in Names : tree["slot"][q] = Missing /\ tree'["slot"][q] = Missing
    BY <1>6, <1>9 DEF ArchiveInv, NoneMigrates
  <2>2. SlotIsLatest'
    <3> SUFFICES ASSUME NEW q \in Names \ slipped
                 PROVE  wrote'[q] = tree'["legacy"][q].lines
      BY <1>1, <2>1 DEF SlotIsLatest, Latest
    <3>1. wrote[q] = tree["legacy"][q].lines
      BY <2>1 DEF ArchiveInv, SlotIsLatest, Latest
    <3> QED BY <1>4, <1>6, <1>7, <1>9, <3>1
  <2>3. NoneMigrates' /\ CopyIsLegacys' /\ NonePassedOver'
    BY <1>1, <2>1 DEF NoneMigrates, CopyIsLegacys, NonePassedOver
  <2> QED BY <1>8, <2>2, <2>3 DEF ArchiveInv
<1>10. CASE box # "old"
  <2>1. /\ t = "slot"
        /\ \A q \in Names : /\ tree'["legacy"][q] = tree["legacy"][q]
                            /\ tree'["slot"][q] = IF q = p THEN new ELSE tree["slot"][q]
    BY <1>6, <1>10
  <2>2. SlotIsLatest'
    <3>1. p \notin slipped => Latest(tree["legacy"][p], new, wrote[p] + 1)
      <4> SUFFICES ASSUME p \notin slipped PROVE Latest(tree["legacy"][p], new, wrote[p] + 1)
        OBVIOUS
      <4>1. Latest(tree["legacy"][p], tree["slot"][p], wrote[p])
        BY DEF ArchiveInv, SlotIsLatest
      <4>2. wrote[p] = tree["slot"][p].lines
        BY <1>1, <1>2, <1>5, <2>1, <4>1 DEF Latest
      <4>3. new.mtime > tree["legacy"][p].mtime
        <5>1. tree["legacy"][p].mtime \in Nat /\ tree["legacy"][p].mtime <= clock
          BY <1>2 DEF Trees, TreeFiles
        <5> QED BY <1>2, <1>4, <5>1
      <4> QED BY <1>4, <2>1, <4>2, <4>3 DEF Latest
    <3> QED BY <1>1, <1>7, <2>1, <3>1 DEF ArchiveInv, SlotIsLatest
  <2>3. CopyIsLegacys'
    <3> SUFFICES ASSUME NEW j \in Terminals, job[j].pc = "write", job[j].stage = 1
                 PROVE  FromLegacy(job[j].file, tree'["legacy"][job[j].path],
                                   tree'["slot"][job[j].path], wrote'[job[j].path], clock',
                                   job[j].path \in slipped)
      BY <1>1 DEF CopyIsLegacys
    <3> DEFINE g == job[j].file
               q == job[j].path
    <3>1. q \in Names /\ g \in TreeFiles
      BY TerminalsCopy DEF ArchiveInv, ArchiveTyped, Copies
    <3>2. FromLegacy(g, tree["legacy"][q], tree["slot"][q], wrote[q], clock, q \in slipped)
      BY DEF ArchiveInv, CopyIsLegacys
    <3> HIDE DEF g, q
    <3>3. g.mtime \in Nat /\ g.mtime <= clock /\ g # Missing
      BY <3>1, <3>2 DEF FromLegacy, TreeFiles
    <3>4. g.mtime <= clock' /\ new.mtime > g.mtime
      BY <1>1, <1>2, <1>4, <3>3
    <3>5. FromLegacy(g, tree'["legacy"][q], tree'["slot"][q], wrote'[q], clock', q \in slipped)
      BY <1>7, <2>1, <3>1, <3>2, <3>4 DEF FromLegacy
    <3> QED BY <3>5 DEF g, q
  <2>4. NonePassedOver'
    BY <1>1, <1>4, <2>1 DEF ArchiveInv, NonePassedOver
  <2> QED BY <1>1, <1>8, <1>10, <2>2, <2>3, <2>4 DEF ArchiveInv, NoneMigrates
<1> QED BY <1>9, <1>10

LEMMA ArchiveInvHolds == Archive!Spec => []ArchiveInv
<1>1. Archive!Init => ArchiveInv
  <2> SUFFICES ASSUME Archive!Init PROVE ArchiveInv
    OBVIOUS
  <2>1. ArchiveTyped
    BY MissingFile, IdleCopy
       DEF Archive!Init, ArchiveTyped, Trees, Names, Missing
  <2>2. /\ \A t \in Trees, p \in Names : tree[t][p] = Missing
        /\ \A p \in Names : wrote[p] = 0
        /\ \A j \in Terminals : job[j].pc = "idle"
    BY IdleCopy, TerminalsCopy DEF Archive!Init, Trees, Names, Missing
  <2>3. NoneMigrates /\ SlotIsLatest /\ CopyIsLegacys /\ NonePassedOver
    BY <2>2, MissingFile
       DEF NoneMigrates, SlotIsLatest, Latest, CopyIsLegacys, NonePassedOver, Trees
  <2> QED BY <2>1, <2>3 DEF ArchiveInv
<1>2. ArchiveInv /\ [Archive!Next]_(Archive!vars) => ArchiveInv'
  <2> SUFFICES ASSUME ArchiveInv, [Archive!Next]_(Archive!vars) PROVE ArchiveInv'
    OBVIOUS
  <2>1. ASSUME NEW j \in Terminals,
               Archive!StartUp(j) \/ Archive!Remove(j) \/ Archive!Run(j) \/ Archive!Kill(j)
        PROVE  ArchiveInv'
    BY <2>1, StartStep, RemoveStep, RunStep
  <2>2. ASSUME NEW j \in Copiers, Archive!StartHand(j) \/ Archive!Kill(j)
        PROVE  ArchiveInv'
    BY <2>2, StartStep
  <2>3. ASSUME NEW j \in Archive!Jobs, Archive!Step(j) PROVE ArchiveInv'
    BY <2>3, LookStep, WriteStep, WalkedStep DEF Archive!Step
  <2>4. ASSUME Archive!Down PROVE ArchiveInv'
    <3>1. box' # "old" /\ UNCHANGED <<tree, job, wrote, clock, slipped>>
      BY <2>4 DEF Archive!Down
    <3> QED BY <3>1 DEF ArchiveInv, ArchiveTyped, NoneMigrates, SlotIsLatest, CopyIsLegacys,
                        NonePassedOver, Archive!Jobs
  <2>5. CASE UNCHANGED Archive!vars
    BY <2>5 DEF Archive!vars, ArchiveInv, ArchiveTyped, NoneMigrates, SlotIsLatest,
                CopyIsLegacys, NonePassedOver, Archive!Jobs
  <2>6. ASSUME NEW p \in Names, Archive!Line(p) PROVE ArchiveInv'
    BY <2>6, LineStep
  <2>7. CASE Archive!Next
    BY <2>1, <2>2, <2>3, <2>4, <2>6, <2>7, StartStep DEF Archive!Next, Names
  <2> QED BY <2>5, <2>7
<1> QED BY <1>1, <1>2, PTL DEF Archive!Spec

(* Every line an agent wrote is in the box's slot or still in the legacy   *)
(* tree, whatever terminals, copiers and sweeps overlap, fail or are       *)
(* killed (NoLineLost).                                                    *)
THEOREM EveryLineIsKept == Archive!Spec => []NoLineLost
<1>1. ArchiveInv => NoLineLost
  BY DEF ArchiveInv, SlotIsLatest, Latest, NoLineLost, Archive!NoLineLost, Names
<1> QED BY <1>1, ArchiveInvHolds, PTL
=============================================================================
