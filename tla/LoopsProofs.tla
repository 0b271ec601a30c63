---------------------------- MODULE LoopsProofs ----------------------------
(***************************************************************************)
(* Proofs about the two loops, for any switches and requirement rows, and  *)
(* for any number of names and slots, any record, pins and hashes; about   *)
(* the allow-store, for any operators of whom one may launch; and about    *)
(* the files of the offsets, for any runs on them.                         *)
(***************************************************************************)
EXTENDS MCLoops, FiniteSetTheorems, WellFoundedInduction, TLAPS

(* While the loop runs, `current' is what the caller would make of the     *)
(* flips so far: they are all it will ever get.                            *)
FlipsExplainCurrent ==
  /\ DOMAIN current = Axes /\ current = [a \in Axes |-> current[a]]
  /\ \A a \in Axes : current[a] = IF a \in flips THEN Default[a] ELSE start[a]

SettleInv ==
  /\ ~done => FlipsExplainCurrent
  /\ SettlesToWorking

LEMMA CurrentIsResult ==
  ASSUME FlipsExplainCurrent PROVE Result = current
  BY DEF FlipsExplainCurrent, Result

LEMMA DefaultFunction == Default = [a \in Axes |-> Default[a]]
  BY DefaultAssumption

LEMMA SettleStep ==
  ASSUME SettleInv, [Next]_vars PROVE SettleInv'
<1>1. CASE LowerFirst
  <2> DEFINE x == FirstHelpful(rows, current)
  <2> HIDE DEF x
  <2>1. ~done /\ done' = FALSE /\ start' = start
        /\ current' = [current EXCEPT ![x] = Default[x]] /\ flips' = flips \cup {x}
    BY <1>1 DEF LowerFirst, Lower, x
  <2>2. FlipsExplainCurrent
    BY <2>1 DEF SettleInv
  <2>3. FlipsExplainCurrent'
    BY <2>1, <2>2 DEF FlipsExplainCurrent
  <2> QED
    BY <2>1, <2>3 DEF SettleInv, SettlesToWorking
<1>2. CASE RestAll
  <2>1. FlipsExplainCurrent /\ done' = TRUE /\ rows' = rows /\ start' = start
    BY <1>2 DEF RestAll, SettleInv
  <2>2. CASE ~Works(rows, Default)
    BY <2>1, <2>2 DEF SettleInv, SettlesToWorking, Works, RequireErrors, Unmet
  <2>3. CASE Works(rows, Default)
    <3>1. flips' = flips \cup {a \in Axes : current[a] # Default[a]}
      BY <1>2, <2>3 DEF RestAll
    <3>2. \A a \in Axes : (IF a \in flips' THEN Default[a] ELSE start[a]) = Default[a]
      BY <2>1, <3>1 DEF FlipsExplainCurrent
    <3>3. Result' = Default
      BY <2>1, <3>2, DefaultFunction DEF Result
    <3> QED
      BY <2>1, <2>3, <3>3 DEF SettleInv, SettlesToWorking, Works, RequireErrors, Unmet
  <2> QED
    BY <2>2, <2>3
<1>3. CASE Return
  <2>1. /\ FlipsExplainCurrent /\ done' = TRUE /\ Works(rows, current)
        /\ rows' = rows /\ start' = start /\ flips' = flips
    BY <1>3 DEF Return, SettleInv
  <2>2. Result' = current
    BY <2>1, CurrentIsResult DEF Result
  <2> QED
    BY <2>1, <2>2 DEF SettleInv, SettlesToWorking, Works, RequireErrors, Unmet
<1>4. CASE UNCHANGED vars
  BY <1>4 DEF vars, SettleInv, FlipsExplainCurrent, SettlesToWorking, Result, Works,
              RequireErrors, Unmet
<1> QED
  BY <1>1, <1>2, <1>3, <1>4 DEF Next

(* Whatever switches and requirements a project declares, the cascade ends *)
(* on a mode that works unless not even the all-defaults mode does         *)
(* (devmode.settle_incoherent's "lands on a posture that WORKS offline").  *)
THEOREM CascadeSettles == Spec => []SettlesToWorking
<1>1. Init => SettleInv
  BY DEF Init, SettleInv, FlipsExplainCurrent, SettlesToWorking, Modes
<1>2. SettleInv /\ [Next]_vars => SettleInv'
  BY SettleStep
<1>3. SettleInv => SettlesToWorking
  BY DEF SettleInv
<1> QED
  BY <1>1, <1>2, <1>3, PTL DEF Spec

-----------------------------------------------------------------------------
(* Every nonempty set of naturals has a least element.                     *)
LEMMA LeastNatural ==
  ASSUME NEW T \in SUBSET Nat, T # {}
  PROVE \E x \in T : \A y \in T : x <= y
<1> DEFINE R == {ss \in Nat \X Nat : ss[1] < ss[2]}
<1>1. IsWellFoundedOn(R, Nat)
  BY NatLessThanWellFounded DEF OpToRel
<1> HIDE DEF R
<1>2. PICK x \in T : \A y \in T : ~(<<y, x>> \in R)
  BY <1>1, WFMin
<1>3. \A y \in T : ~(y < x)
  BY <1>2 DEF R
<1> QED
  BY <1>3

(* While a slot is free, the search around the ring ends at a free one.    *)
LEMMA FirstFreeIsFree ==
  ASSUME NEW from \in Slots, NEW taken, Slots \ taken # {}
  PROVE FirstFree(from, taken) \in Slots \ taken
<1> DEFINE distance(s) == (s - from) % MaxSlot
<1>1. \A s \in Slots : distance(s) \in Nat
  <2>1. \A a \in Int : a % MaxSlot \in 0..(MaxSlot - 1)
    BY SizesAssumption
  <2> QED
    BY <2>1, SizesAssumption DEF Slots
<1> DEFINE T == {distance(s) : s \in Slots \ taken}
<1>2. T \in SUBSET Nat /\ T # {}
  BY <1>1
<1>3. PICK d \in T : \A e \in T : d <= e
  BY <1>2, LeastNatural
<1>4. \E s \in Slots \ taken : \A t \in Slots \ taken : distance(s) <= distance(t)
  BY <1>3
<1> QED
  BY <1>4 DEF FirstFree

(* What is held is what the pins and the offsets handed out hold.          *)
HeldExact == held = Held(pinned) \cup Held(got)

AllocInv == AllocTypeOK /\ HeldExact /\ NoneShared

LEMMA TakeKeeps ==
  ASSUME AllocInv, NEW n \in Names, got[n] = None, NEW slot \in Slots \ held, Take(n, slot),
         UNCHANGED <<inputs>>
  PROVE /\ got' \in Offsets /\ held' \subseteq Slots
        /\ HeldExact' /\ NoneShared'
<1> USE NoSlotAssumption
<1>1. got \in Offsets /\ got' = [got EXCEPT ![n] = slot] /\ held' = held \cup {slot}
      /\ pinned' = pinned
  BY DEF AllocInv, AllocTypeOK, Take, inputs
<1>2. slot # None
  BY DEF Slots
<1>3. Held(got') = Held(got) \cup {slot}
  BY <1>1, <1>2 DEF Held, Offsets
<1>4. HeldExact'
  BY <1>1, <1>3 DEF AllocInv, HeldExact
<1>5. NoneShared'
  <2> SUFFICES ASSUME NEW a \in Names, got'[a] # None
               PROVE got'[a] \notin Held(pinned) /\ \A b \in Names \ {a} : got'[b] # got'[a]
    BY <1>1 DEF NoneShared
  <2>1. slot \notin Held(pinned) /\ \A b \in Names : got[b] # slot
    BY <1>2 DEF AllocInv, HeldExact, Held
  <2>2. CASE a = n
    BY <1>1, <2>1, <2>2 DEF Offsets
  <2>3. CASE a # n
    BY <1>1, <2>1, <2>3 DEF Offsets, AllocInv, NoneShared
  <2> QED
    BY <2>2, <2>3
<1> QED
  BY <1>1, <1>2, <1>4, <1>5 DEF AllocInv, AllocTypeOK, Offsets

(* A name that is still to be visited has no offset yet.                   *)
Unvisited == \A n \in todo : got[n] = None

LEMMA AllocInitInv == AllocInit => AllocInv /\ Unvisited
<1> SUFFICES ASSUME AllocInit PROVE AllocInv /\ Unvisited
  OBVIOUS
<1>1. pinned \in Offsets /\ hash \in [Names -> Slots]
  BY InputsAssumption DEF AllocInit
<1>2. Held(pinned) \subseteq Slots /\ Held(NoOffsets) = {}
  BY <1>1, NoSlotAssumption DEF Held, Offsets, NoOffsets
<1>3. got \in Offsets /\ \A n \in Names : got[n] = None
  BY DEF AllocInit, NoOffsets, Offsets
<1>4. AllocTypeOK
  BY <1>1, <1>2, <1>3 DEF AllocInit, AllocTypeOK, Unpinned
<1>5. HeldExact
  BY <1>2 DEF AllocInit, HeldExact
<1>6. NoneShared
  BY <1>3 DEF NoneShared
<1>7. Unvisited
  BY <1>3, <1>4 DEF AllocTypeOK, Unpinned, Unvisited, AllocInit
<1> QED
  BY <1>4, <1>5, <1>6, <1>7 DEF AllocInv

LEMMA VisitInv ==
  ASSUME AllocInv, Unvisited, NEW n \in Names, Visit(n)
  PROVE AllocInv' /\ Unvisited'
<1>1. UNCHANGED <<inputs, pass>> /\ todo' \subseteq todo \ {n} /\ n \in todo
  BY DEF Visit, Keep, Claim, Move, Turn
<1>2. got[n] = None /\ hash[n] \in Slots
  BY <1>1, InputsAssumption DEF Unvisited, AllocInv, AllocTypeOK
<1>3. \/ UNCHANGED <<got, held>>
      \/ \E slot \in Slots \ held : Take(n, slot)
  <2>1. CASE Keep(n)
    BY <2>1 DEF Keep
  <2>2. CASE Claim(n)
    BY <2>2, <1>2 DEF Claim
  <2>3. CASE Move(n)
    BY <2>3, <1>2, FirstFreeIsFree DEF Move
  <2> QED
    BY <2>1, <2>2, <2>3 DEF Visit
<1>4. Unpinned' = Unpinned
  BY <1>1 DEF Unpinned, inputs
<1>5. CASE UNCHANGED <<got, held>>
  <2>1. HeldExact' /\ NoneShared'
    BY <1>1, <1>5 DEF AllocInv, HeldExact, NoneShared, inputs, Held
  <2>2. AllocTypeOK'
    BY <1>1, <1>4, <1>5 DEF AllocInv, AllocTypeOK, inputs
  <2> QED
    BY <1>1, <1>5, <2>1, <2>2 DEF AllocInv, Unvisited
<1>6. ASSUME NEW slot \in Slots \ held, Take(n, slot) PROVE AllocInv' /\ Unvisited'
  <2>1. /\ got' \in Offsets /\ held' \subseteq Slots /\ HeldExact' /\ NoneShared'
    BY <1>1, <1>2, <1>6, TakeKeeps
  <2>2. AllocTypeOK'
    BY <1>1, <1>4, <2>1 DEF AllocInv, AllocTypeOK, inputs
  <2>3. Unvisited'
    BY <1>1, <1>6 DEF Unvisited, Take, AllocInv, AllocTypeOK, Offsets, Unpinned
  <2> QED
    BY <2>1, <2>2, <2>3 DEF AllocInv
<1> QED
  BY <1>3, <1>5, <1>6

LEMMA PassInv ==
  ASSUME AllocInv, Unvisited, NextPass PROVE AllocInv' /\ Unvisited'
<1>1. UNCHANGED <<inputs, got, held>> /\ Unpinned' = Unpinned
  BY DEF NextPass, inputs, Unpinned
<1>2. HeldExact' /\ NoneShared'
  BY <1>1 DEF AllocInv, HeldExact, NoneShared, inputs, Held
<1>3. pass' \in {"keep", "claim", "move", "done"} /\ todo' \subseteq Unpinned
      /\ \A n \in todo' : got[n] = None
  BY DEF NextPass
<1>4. AllocTypeOK'
  BY <1>1, <1>3 DEF AllocInv, AllocTypeOK, inputs
<1> QED
  BY <1>1, <1>2, <1>3, <1>4 DEF AllocInv, Unvisited

(* allocate never hands out an offset twice, nor one that is pinned: at    *)
(* any point of any pass, whatever the record, the pins and the hashes.    *)
THEOREM NoOffsetTwice == AllocSpec => []NoneShared
<1>1. AllocInv /\ Unvisited /\ [AllocNext]_allocVars => AllocInv' /\ Unvisited'
  <2> SUFFICES ASSUME AllocInv, Unvisited, [AllocNext]_allocVars PROVE AllocInv' /\ Unvisited'
    OBVIOUS
  <2>1. CASE UNCHANGED allocVars
    BY <2>1 DEF allocVars, inputs, AllocInv, AllocTypeOK, HeldExact, NoneShared, Unvisited, Unpinned, Held
  <2>2. CASE NextPass
    BY <2>2, PassInv
  <2>3. CASE \E n \in Names : Visit(n)
    BY <2>3, VisitInv
  <2> QED
    BY <2>1, <2>2, <2>3 DEF AllocNext
<1>2. AllocInv => NoneShared
  BY DEF AllocInv
<1> QED
  BY <1>1, <1>2, AllocInitInv, PTL DEF AllocSpec

-----------------------------------------------------------------------------
(* The allow-store: what is answered at a launch.                          *)

Lasting(grant) == grant # None /\ grant.until = None

(* Only the launch between its clear and its spawn is asked, and the       *)
(* supervisor it then starts was told that the grants are cleared.         *)
LaunchInv ==
  /\ answers \subseteq Grantable
  /\ offering \subseteq {launcher}
  /\ offering # {} => sup = "dead"
  /\ answers # {} => offering # {} \/ sup \notin {"dead", "clear"}

(* While operations do not overlap, the one that is under way has read, or *)
(* is about to write, what was answered.                                   *)
AnswersKept ==
  \A h \in answers :
    /\ \A p \in Store!Processes :
         /\ proc[p].pc = "doc" => Lasting(proc[p].hosts[h])
         /\ proc[p].pc = "save" => Lasting(proc[p].doc.hosts[h])
    /\ \/ Lasting(store.hosts[h])
       \/ \E p \in Store!Processes : proc[p].pc \in {"doc", "save"} /\ proc[p].target = h

OneAtATime == \A p, q \in Store!Processes : Store!Busy(p) /\ Store!Busy(q) => p = q

DocRec(doc) == DOMAIN doc = {"hosts", "wall", "learn", "learned", "reviewed"}
OpRec(op) ==
  /\ DOMAIN op = {"pc", "target", "hosts", "close", "doc", "publish", "window", "list"}
  /\ DocRec(op.doc)
RecsAreWhole ==
  /\ DocRec(store)
  /\ proc = [p \in Store!Processes |-> proc[p]]
  /\ \A p \in Store!Processes : OpRec(proc[p])

Unraced == ~overlapped => OneAtATime /\ AnswersKept

AnswersInv == RecsAreWhole /\ LaunchInv /\ Unraced

(* What is saved holds the table it was read with.                         *)
LEMMA SavedDocs ==
  ASSUME NEW doc, DocRec(doc)
  PROVE  /\ DocRec(Store!CloseWindow(doc)) /\ Store!CloseWindow(doc).hosts = doc.hosts
         /\ \A on : DocRec(Store!Walled(doc, on)) /\ Store!Walled(doc, on).hosts = doc.hosts
         /\ \A ttl : DocRec(Store!Learning(doc, ttl)) /\ Store!Learning(doc, ttl).hosts = doc.hosts
         /\ \A v : DocRec([doc EXCEPT !.reviewed = v]) /\ [doc EXCEPT !.reviewed = v].hosts = doc.hosts
         /\ \A v : DocRec([doc EXCEPT !.hosts = v]) /\ [doc EXCEPT !.hosts = v].hosts = v
<1> USE DEF DocRec
<1>1. ASSUME NEW d, DocRec(d)
      PROVE  DocRec(Store!CloseWindow(d)) /\ Store!CloseWindow(d).hosts = d.hosts
  BY <1>1 DEF Store!CloseWindow
<1>2. ASSUME NEW on
      PROVE  DocRec(Store!Walled(doc, on)) /\ Store!Walled(doc, on).hosts = doc.hosts
  <2> DEFINE d == [doc EXCEPT !.wall = IF on THEN "on" ELSE "off"]
  <2>1. DocRec(d) /\ d.hosts = doc.hosts
    OBVIOUS
  <2> HIDE DEF d, DocRec
  <2> QED BY <1>1, <2>1 DEF Store!Walled, d
<1>3. ASSUME NEW ttl
      PROVE  DocRec(Store!Learning(doc, ttl)) /\ Store!Learning(doc, ttl).hosts = doc.hosts
  BY DEF Store!Learning
<1> QED BY <1>1, <1>2, <1>3

LEMMA Operations ==
  /\ OpRec(Store!AtRest) /\ Store!AtRest.pc = "idle"
  /\ OpRec(Store!Publish) /\ Store!Publish.pc = "deny"
  /\ \A x, table, c :
       /\ OpRec(Store!Edit(x, table, c)) /\ Store!Edit(x, table, c).pc = "doc"
       /\ Store!Edit(x, table, c).hosts = table /\ Store!Edit(x, table, c).target = x
  /\ \A doc, publish : DocRec(doc) =>
       /\ OpRec(Store!Save(doc, publish)) /\ Store!Save(doc, publish).pc = "save"
       /\ Store!Save(doc, publish).doc = doc
<1>1. DocRec(Store!FirstRun)
  BY DEF DocRec, Store!FirstRun
<1>2. /\ DOMAIN Store!AtRest = {"pc", "target", "hosts", "close", "doc", "publish", "window", "list"}
      /\ Store!AtRest.doc = Store!FirstRun /\ Store!AtRest.pc = "idle"
  BY DEF Store!AtRest
<1> HIDE DEF Store!AtRest, DocRec
<1> QED BY <1>1, <1>2 DEF OpRec, Store!Publish, Store!Edit, Store!Save

LEMMA Edits ==
  ASSUME NEW h, NEW table
  PROVE  /\ OpRec(Store!Edit(h, table, FALSE)) /\ Store!Edit(h, table, FALSE).pc = "doc"
         /\ Store!Edit(h, table, FALSE).hosts = table
         /\ Store!Edit(h, table, FALSE).target = h
<1>1. OpRec(Store!AtRest)
  BY Operations
<1> HIDE DEF Store!AtRest
<1> QED BY <1>1 DEF Store!Edit, OpRec

LEMMA PrunedStays ==
  ASSUME NEW hosts, NEW h \in Grantable, Lasting(hosts[h])
  PROVE  Lasting(Store!Pruned(hosts)[h])
  BY DEF Lasting, Store!Pruned, Store!Expired

(* An operation begins.                                                    *)
LEMMA Enters ==
  ASSUME AnswersInv, NEW p \in Store!Processes, NEW op, Store!Enter(p, op), OpRec(op),
         store' = store,
         (\A x \in answers : Lasting(store.hosts[x])) =>
           \A h \in answers' :
             /\ op.pc = "doc" => Lasting(op.hosts[h])
             /\ op.pc = "save" => Lasting(op.doc.hosts[h])
             /\ h \in answers \/ (op.pc \in {"doc", "save"} /\ op.target = h)
  PROVE  RecsAreWhole' /\ Unraced'
<1>1. RecsAreWhole'
  BY DEF AnswersInv, RecsAreWhole, Store!Enter
<1>2. ASSUME ~overlapped' PROVE OneAtATime' /\ AnswersKept'
  <2>1. ~overlapped /\ \A q \in Store!Processes : proc[q].pc = "idle"
    BY <1>2 DEF Store!Enter, Store!Busy
  <2>2. \A x \in answers : Lasting(store.hosts[x])
    BY <2>1 DEF AnswersInv, Unraced, AnswersKept
  <2>3. \A q \in Store!Processes : proc'[q] = IF q = p THEN op ELSE proc[q]
    BY DEF Store!Enter, AnswersInv, RecsAreWhole
  <2>4. OneAtATime'
    BY <2>1, <2>3 DEF OneAtATime, Store!Busy
  <2>5. ASSUME NEW h \in answers'
        PROVE  /\ op.pc = "doc" => Lasting(op.hosts[h])
               /\ op.pc = "save" => Lasting(op.doc.hosts[h])
               /\ Lasting(store.hosts[h]) \/ (op.pc \in {"doc", "save"} /\ op.target = h)
    BY <2>2
  <2>6. AnswersKept'
    BY <2>1, <2>3, <2>5 DEF AnswersKept
  <2> QED BY <2>4, <2>6
<1> QED BY <1>1, <1>2 DEF Unraced

(* An operation that is under way takes its next step.                     *)
LEMMA GoesOn ==
  ASSUME AnswersInv, NEW p \in Store!Processes, proc[p].pc # "idle",
         NEW op, OpRec(op), proc' = [proc EXCEPT ![p] = op],
         overlapped' = overlapped, answers' = answers, DocRec(store'),
         ASSUME NEW h \in answers,
                proc[p].pc = "doc" => Lasting(proc[p].hosts[h]),
                proc[p].pc = "save" => Lasting(proc[p].doc.hosts[h]),
                Lasting(store.hosts[h]) \/ (proc[p].pc \in {"doc", "save"} /\ proc[p].target = h)
         PROVE  /\ op.pc = "doc" => Lasting(op.hosts[h])
                /\ op.pc = "save" => Lasting(op.doc.hosts[h])
                /\ Lasting(store'.hosts[h]) \/ (op.pc \in {"doc", "save"} /\ op.target = h)
  PROVE  RecsAreWhole' /\ Unraced'
<1>1. RecsAreWhole'
  BY DEF AnswersInv, RecsAreWhole
<1>2. ASSUME ~overlapped' PROVE OneAtATime' /\ AnswersKept'
  <2>1. OneAtATime /\ AnswersKept
    BY <1>2 DEF AnswersInv, Unraced
  <2>2. \A q \in Store!Processes : proc'[q] = IF q = p THEN op ELSE proc[q]
    BY DEF AnswersInv, RecsAreWhole
  <2>3. \A q \in Store!Processes : q # p => proc[q].pc = "idle"
    BY <2>1 DEF OneAtATime, Store!Busy
  <2>4. OneAtATime'
    BY <2>2, <2>3 DEF OneAtATime, Store!Busy
  <2>5. ASSUME NEW h \in answers
        PROVE  /\ op.pc = "doc" => Lasting(op.hosts[h])
               /\ op.pc = "save" => Lasting(op.doc.hosts[h])
               /\ Lasting(store'.hosts[h]) \/ (op.pc \in {"doc", "save"} /\ op.target = h)
    <3>1. /\ proc[p].pc = "doc" => Lasting(proc[p].hosts[h])
          /\ proc[p].pc = "save" => Lasting(proc[p].doc.hosts[h])
      BY <2>1 DEF AnswersKept
    <3>2. Lasting(store.hosts[h]) \/ (proc[p].pc \in {"doc", "save"} /\ proc[p].target = h)
      BY <2>1, <2>3 DEF AnswersKept
    <3> QED BY <3>1, <3>2
  <2>6. AnswersKept'
    BY <2>2, <2>3, <2>5 DEF AnswersKept
  <2> QED BY <2>4, <2>6
<1> QED BY <1>1, <1>2 DEF Unraced

LEMMA GoOnKeepsAnswers ==
  ASSUME AnswersInv, NEW p \in Store!Processes, Store!GoOn(p)
  PROVE  RecsAreWhole' /\ Unraced'
<1> USE DEF Store!files, Store!history, Store!kills
<1>0. DocRec(store) /\ OpRec(proc[p])
  BY DEF AnswersInv, RecsAreWhole
<1>1. CASE Store!ReadDoc(p)
  <2> DEFINE doc == [store EXCEPT !.hosts = proc[p].hosts]
             kept == IF proc[p].close THEN Store!CloseWindow(doc) ELSE doc
             op == [Store!Save(kept, TRUE) EXCEPT !.target = proc[p].target]
  <2>1. DocRec(doc) /\ doc.hosts = proc[p].hosts
    BY <1>0 DEF DocRec
  <2> HIDE DEF doc
  <2>2. DocRec(kept) /\ kept.hosts = proc[p].hosts
    BY <2>1, SavedDocs
  <2> HIDE DEF kept
  <2>3. OpRec(Store!Save(kept, TRUE)) /\ Store!Save(kept, TRUE).pc = "save"
        /\ Store!Save(kept, TRUE).doc = kept
    BY <2>2, Operations
  <2>4. OpRec(op) /\ op.pc = "save" /\ op.doc = kept /\ op.target = proc[p].target
    BY <2>3 DEF OpRec
  <2> HIDE DEF op
  <2>5. proc' = [proc EXCEPT ![p] = op] /\ proc[p].pc = "doc"
    BY <1>1 DEF Store!ReadDoc, op, kept, doc
  <2>6. store' = store /\ overlapped' = overlapped /\ answers' = answers
    BY <1>1 DEF Store!ReadDoc
  <2> QED BY <1>0, <2>2, <2>4, <2>5, <2>6, GoesOn
<1>2. CASE Store!SaveDoc(p)
  <2> DEFINE op == IF proc[p].publish THEN Store!Publish ELSE Store!AtRest
  <2>1. OpRec(op) /\ op.pc \in {"idle", "deny"}
    BY Operations
  <2> HIDE DEF op
  <2>2. proc' = [proc EXCEPT ![p] = op] /\ proc[p].pc = "save" /\ store' = proc[p].doc
    BY <1>2 DEF Store!SaveDoc, op
  <2>3. overlapped' = overlapped /\ answers' = answers
    BY <1>2 DEF Store!SaveDoc
  <2>4. DocRec(store')
    BY <1>0, <2>2 DEF OpRec
  <2> QED BY <2>1, <2>2, <2>3, <2>4, GoesOn
<1>3. ASSUME NEW op, OpRec(op), op.pc \in {"allow", "build", "publish", "idle", "mark"},
             proc[p].pc \notin {"idle", "doc", "save"}, proc' = [proc EXCEPT ![p] = op],
             store' = store, overlapped' = overlapped, answers' = answers
      PROVE  RecsAreWhole' /\ Unraced'
  BY <1>0, <1>3, GoesOn
<1>4. CASE Store!ReadDeny(p)
  <2> DEFINE op == [proc[p] EXCEPT !.pc = "allow", !.list.deny = Store!DefaultDeny(store)]
  <2>1. OpRec(op) /\ op.pc = "allow"
    BY <1>0 DEF OpRec
  <2>2. proc' = [proc EXCEPT ![p] = op]
    BY <1>4 DEF Store!ReadDeny
  <2> HIDE DEF op
  <2> QED BY <1>3, <1>4, <2>1, <2>2 DEF Store!ReadDeny
<1>5. CASE Store!ReadAllow(p)
  <2> DEFINE op == [proc[p] EXCEPT !.pc = "build", !.list.allow = Store!Allowed(store, "runtime")]
  <2>1. OpRec(op) /\ op.pc = "build"
    BY <1>0 DEF OpRec
  <2>2. proc' = [proc EXCEPT ![p] = op]
    BY <1>5 DEF Store!ReadAllow
  <2> HIDE DEF op
  <2> QED BY <1>3, <1>5, <2>1, <2>2 DEF Store!ReadAllow
<1>6. CASE Store!ReadBuild(p)
  <2> DEFINE op == [proc[p] EXCEPT !.pc = "publish", !.list.build = Store!Allowed(store, "build")]
  <2>1. OpRec(op) /\ op.pc = "publish"
    BY <1>0 DEF OpRec
  <2>2. proc' = [proc EXCEPT ![p] = op]
    BY <1>6 DEF Store!ReadBuild
  <2> HIDE DEF op
  <2> QED BY <1>3, <1>6, <2>1, <2>2 DEF Store!ReadBuild
<1>7. CASE Store!WriteEffective(p)
  BY <1>3, <1>7, Operations DEF Store!WriteEffective
<1>8. CASE Store!ReviewRows(p)
  <2> DEFINE op == [Store!AtRest EXCEPT !.pc = "mark"]
  <2>1. OpRec(op) /\ op.pc = "mark"
    BY Operations DEF OpRec
  <2> HIDE DEF op
  <2>2. proc' = [proc EXCEPT ![p] = op]
    BY <1>8 DEF Store!ReviewRows, op
  <2> QED BY <1>3, <1>8, <2>1, <2>2 DEF Store!ReviewRows
<1>9. ASSUME NEW doc, DocRec(doc), doc.hosts = store.hosts, NEW publish,
             proc[p].pc \notin {"idle", "doc", "save"},
             proc' = [proc EXCEPT ![p] = Store!Save(doc, publish)],
             store' = store, overlapped' = overlapped, answers' = answers
      PROVE  RecsAreWhole' /\ Unraced'
  <2> DEFINE op == Store!Save(doc, publish)
  <2>1. OpRec(op) /\ op.pc = "save" /\ op.doc = doc
    BY <1>9, Operations
  <2> HIDE DEF op
  <2>2. proc' = [proc EXCEPT ![p] = op]
    BY <1>9 DEF op
  <2> QED BY <1>0, <1>9, <2>1, <2>2, GoesOn
<1>10. CASE Store!MarkReviewed(p)
  <2>1. /\ DocRec([store EXCEPT !.reviewed = now])
        /\ [store EXCEPT !.reviewed = now].hosts = store.hosts
    BY <1>0, SavedDocs
  <2> QED BY <1>9, <1>10, <2>1 DEF Store!MarkReviewed
<1>11. ASSUME NEW ttl \in Openings, Store!SeedLearns(p, ttl)
       PROVE  RecsAreWhole' /\ Unraced'
  <2>1. DocRec(Store!Learning(store, ttl)) /\ Store!Learning(store, ttl).hosts = store.hosts
    BY <1>0, SavedDocs
  <2> QED BY <1>9, <1>11, <2>1 DEF Store!SeedLearns
<1> QED BY <1>1, <1>2, <1>4, <1>5, <1>6, <1>7, <1>8, <1>10, <1>11 DEF Store!GoOn

LEMMA StartKeepsAnswers ==
  ASSUME AnswersInv, NEW p \in Commanders, Store!Start(p)
  PROVE  AnswersInv'
<1> USE DEF Store!files, Store!history, Store!kills
<1>0. /\ DocRec(store) /\ p \in Store!Processes /\ LaunchInv /\ RecsAreWhole
      /\ answers \subseteq Grantable
  BY DEF AnswersInv, RecsAreWhole, LaunchInv, Store!Processes
<1>1. ASSUME NEW h \in Grantable, NEW terms \in Store!Terms, Store!Grant(p, h, terms)
      PROVE  AnswersInv'
  <2> DEFINE kept == Store!Pruned(store.hosts)
             covered == Store!Covered(terms.scope, kept[h])
             table == [kept EXCEPT ![h] = Store!NewGrant(terms)]
             op == IF covered THEN Store!Publish ELSE Store!Edit(h, table, FALSE)
  <2>0. /\ OpRec(Store!Edit(h, table, FALSE)) /\ Store!Edit(h, table, FALSE).pc = "doc"
        /\ Store!Edit(h, table, FALSE).hosts = table
        /\ Store!Edit(h, table, FALSE).target = h
    <3> HIDE DEF table
    <3> QED BY Edits
  <2> HIDE DEF table, kept, covered
  <2>1. OpRec(op) /\ (IF covered THEN op.pc = "deny"
                      ELSE op.pc = "doc" /\ op.hosts = table /\ op.target = h)
    <3>1. CASE covered
      BY <3>1, Operations DEF op
    <3>2. CASE ~covered
      BY <2>0, <3>2 DEF op
    <3> QED BY <3>1, <3>2
  <2>2. /\ Store!Enter(p, op) /\ store' = store /\ sup' = sup /\ offering' = offering
        /\ answers' = IF covered THEN answers
                      ELSE IF p \in offering /\ terms.level # "once" THEN answers \cup {h}
                      ELSE answers \ {h}
    BY <1>1 DEF Store!Grant, op, table, kept, covered
  <2>3. \A g \in Grantable : table[g] = IF g = h THEN Store!NewGrant(terms) ELSE kept[g]
    BY DEF Store!Pruned, table, kept
  <2>4. terms.level # "once" => Lasting(Store!NewGrant(terms))
    <3>1. terms.level # "once" => terms.ttl = None
      BY DEF Store!Terms
    <3>2. terms.level # "once" => Store!NewGrant(terms) \in Store!Grants
      BY <3>1 DEF Store!Grants, Store!NewGrant, Store!Deadline, Store!Terms
    <3>3. terms.level # "once" => Store!NewGrant(terms) # None
      BY <3>2, NoneIsNoGrant
    <3> QED BY <3>1, <3>3 DEF Lasting, Store!NewGrant, Store!Deadline
  <2>5. \A x \in Grantable : Lasting(store.hosts[x]) => Lasting(kept[x])
    BY PrunedStays DEF kept
  <2> HIDE DEF op
  <2>6. (\A x \in answers : Lasting(store.hosts[x])) =>
           \A x \in answers' :
             /\ op.pc = "doc" => Lasting(op.hosts[x])
             /\ op.pc = "save" => Lasting(op.doc.hosts[x])
             /\ x \in answers \/ (op.pc \in {"doc", "save"} /\ op.target = x)
    BY <1>0, <2>1, <2>2, <2>3, <2>4, <2>5
  <2>7. RecsAreWhole' /\ Unraced'
    BY <1>0, <2>1, <2>2, <2>6, Enters
  <2>8. LaunchInv'
    BY <1>0, <2>2 DEF LaunchInv
  <2> QED BY <2>7, <2>8 DEF AnswersInv
(* An operation that leaves the answers, and what it saves, alone.         *)
<1>2. ASSUME NEW op, OpRec(op), Store!Enter(p, op), op.pc # "doc",
             op.pc = "save" => op.doc.hosts = store.hosts,
             store' = store, sup' = sup, offering' = offering,
             answers' \subseteq answers
      PROVE  AnswersInv'
  <2>1. (\A x \in answers : Lasting(store.hosts[x])) =>
           \A x \in answers' :
             /\ op.pc = "doc" => Lasting(op.hosts[x])
             /\ op.pc = "save" => Lasting(op.doc.hosts[x])
             /\ x \in answers \/ (op.pc \in {"doc", "save"} /\ op.target = x)
    BY <1>2
  <2>2. RecsAreWhole' /\ Unraced'
    BY <1>0, <1>2, <2>1, Enters
  <2>3. LaunchInv'
    BY <1>0, <1>2 DEF LaunchInv
  <2> QED BY <2>2, <2>3 DEF AnswersInv
<1>3. ASSUME NEW h \in Grantable, Store!Revoke(p, h)
      PROVE  AnswersInv'
  <2> DEFINE kept == Store!Pruned(store.hosts)
             table == [kept EXCEPT ![h] = None]
             op == IF kept[h] = None THEN Store!Publish ELSE Store!Edit(h, table, FALSE)
  <2>0. /\ OpRec(Store!Edit(h, table, FALSE)) /\ Store!Edit(h, table, FALSE).pc = "doc"
        /\ Store!Edit(h, table, FALSE).hosts = table
        /\ Store!Edit(h, table, FALSE).target = h
    <3> HIDE DEF table
    <3> QED BY Edits
  <2> HIDE DEF table, kept
  <2>1. OpRec(op) /\ op.pc \in {"deny", "doc"} /\ (op.pc = "doc" => op.hosts = table)
    <3>1. CASE kept[h] = None
      BY <3>1, Operations DEF op
    <3>2. CASE kept[h] # None
      BY <2>0, <3>2 DEF op
    <3> QED BY <3>1, <3>2
  <2>2. /\ Store!Enter(p, op) /\ store' = store /\ sup' = sup /\ offering' = offering
        /\ answers' = answers \ {h}
    BY <1>3 DEF Store!Revoke, op, table, kept
  <2>3. \A g \in Grantable : g # h => table[g] = kept[g]
    BY DEF Store!Pruned, table, kept
  <2>4. \A x \in Grantable : Lasting(store.hosts[x]) => Lasting(kept[x])
    BY PrunedStays DEF kept
  <2> HIDE DEF op
  <2>5. (\A x \in answers : Lasting(store.hosts[x])) =>
           \A x \in answers' :
             /\ op.pc = "doc" => Lasting(op.hosts[x])
             /\ op.pc = "save" => Lasting(op.doc.hosts[x])
             /\ x \in answers \/ (op.pc \in {"doc", "save"} /\ op.target = x)
    BY <1>0, <2>1, <2>2, <2>3, <2>4, <2>5
  <2>6. RecsAreWhole' /\ Unraced'
    BY <1>0, <2>1, <2>2, <2>5, Enters
  <2>7. LaunchInv'
    BY <1>0, <2>2 DEF LaunchInv
  <2> QED BY <2>6, <2>7 DEF AnswersInv
<1>4. ASSUME NEW doc, DocRec(doc), doc.hosts = store.hosts, NEW publish,
             Store!Enter(p, Store!Save(doc, publish)),
             store' = store, sup' = sup, offering' = offering, answers' = answers
      PROVE  AnswersInv'
  <2> DEFINE op == Store!Save(doc, publish)
  <2>1. OpRec(op) /\ op.pc = "save" /\ op.doc = doc
    BY <1>4, Operations
  <2> HIDE DEF op
  <2>2. Store!Enter(p, op)
    BY <1>4 DEF op
  <2> QED BY <1>2, <1>4, <2>1, <2>2
<1>5. ASSUME NEW on \in BOOLEAN, Store!SetWall(p, on)
      PROVE  AnswersInv'
  <2>1. DocRec(Store!Walled(store, on)) /\ Store!Walled(store, on).hosts = store.hosts
    BY <1>0, SavedDocs
  <2> QED BY <1>4, <1>5, <2>1 DEF Store!SetWall
<1>6. ASSUME NEW ttl \in Openings, Store!StartLearning(p, ttl)
      PROVE  AnswersInv'
  <2>1. DocRec(Store!Learning(store, ttl)) /\ Store!Learning(store, ttl).hosts = store.hosts
    BY <1>0, SavedDocs
  <2> QED BY <1>4, <1>6, <2>1 DEF Store!StartLearning
<1>7. CASE Store!Decline(p)
  BY <1>0, <1>4, <1>7 DEF Store!Decline
<1>8. CASE Store!Seed(p)
  <2> DEFINE op == [Store!AtRest EXCEPT !.pc = "seed"]
  <2>1. OpRec(op) /\ op.pc = "seed"
    BY Operations DEF OpRec
  <2> HIDE DEF op
  <2>2. /\ Store!Enter(p, op) /\ store' = store /\ sup' = sup /\ offering' = offering
        /\ answers' = answers
    BY <1>8 DEF Store!Seed, op
  <2> QED BY <1>2, <2>1, <2>2
<1>9. CASE Store!Review(p)
  <2> DEFINE op == [Store!AtRest EXCEPT !.pc = "rows", !.window = Store!LastWindow(store)]
  <2>1. OpRec(op) /\ op.pc = "rows"
    BY Operations DEF OpRec
  <2> HIDE DEF op
  <2>2. /\ Store!Enter(p, op) /\ store' = store /\ sup' = sup /\ offering' = offering
        /\ answers' = answers
    BY <1>9 DEF Store!Review, op
  <2> QED BY <1>2, <2>1, <2>2
<1>10. CASE Store!Launch(p)
  <2> DEFINE hosts == Store!Kept(Store!Pruned(store.hosts))
             op == Store!Edit(None, hosts, FALSE)
  <2>1. OpRec(op)
    BY Operations
  <2> HIDE DEF op
  <2>2. /\ Store!Enter(p, op) /\ store' = store /\ sup' = sup /\ sup = "dead"
        /\ answers' = answers /\ p = launcher /\ p \notin offering
        /\ offering' = offering \cup {p}
    BY <1>10 DEF Store!Launch, Store!Command, op
  <2>3. answers = {} /\ offering = {}
    BY <1>0, <2>2 DEF LaunchInv
  <2>4. RecsAreWhole' /\ Unraced'
    BY <1>0, <2>1, <2>2, <2>3, Enters
  <2>5. LaunchInv'
    BY <2>2, <2>3 DEF LaunchInv
  <2> QED BY <2>4, <2>5 DEF AnswersInv
<1> QED
  BY <1>1, <1>3, <1>5, <1>6, <1>7, <1>8, <1>9, <1>10 DEF Store!Start

(* No operation begins or goes on, and none of the answers is taken back   *)
(* but by one that dies.                                                   *)
LEMMA Idles ==
  ASSUME AnswersInv, store' = store, overlapped' = overlapped, answers' \subseteq answers,
         \/ proc' = proc
         \/ \E p \in Store!Processes :
              /\ proc' = [proc EXCEPT ![p] = Store!AtRest]
              /\ \A h \in answers' : proc[p].target # h
  PROVE  RecsAreWhole' /\ Unraced'
<1>1. CASE proc' = proc
  BY <1>1 DEF AnswersInv, RecsAreWhole, Unraced, OneAtATime, AnswersKept, Store!Busy
<1>2. ASSUME NEW p \in Store!Processes, proc' = [proc EXCEPT ![p] = Store!AtRest],
             \A h \in answers' : proc[p].target # h
      PROVE  RecsAreWhole' /\ Unraced'
  <2>1. RecsAreWhole'
    BY <1>2, Operations DEF AnswersInv, RecsAreWhole
  <2>2. \A q \in Store!Processes : proc'[q] = IF q = p THEN Store!AtRest ELSE proc[q]
    BY <1>2 DEF AnswersInv, RecsAreWhole
  <2>3. ASSUME ~overlapped' PROVE OneAtATime' /\ AnswersKept'
    <3>1. OneAtATime /\ AnswersKept
      BY <2>3 DEF AnswersInv, Unraced
    <3>2. OneAtATime'
      BY <2>2, <3>1, Operations DEF OneAtATime, Store!Busy
    <3>3. ASSUME NEW h \in answers'
          PROVE  /\ \A q \in Store!Processes :
                      /\ proc'[q].pc = "doc" => Lasting(proc'[q].hosts[h])
                      /\ proc'[q].pc = "save" => Lasting(proc'[q].doc.hosts[h])
                 /\ \/ Lasting(store'.hosts[h])
                    \/ \E q \in Store!Processes :
                         proc'[q].pc \in {"doc", "save"} /\ proc'[q].target = h
      <4>1. /\ \A q \in Store!Processes :
                 /\ proc[q].pc = "doc" => Lasting(proc[q].hosts[h])
                 /\ proc[q].pc = "save" => Lasting(proc[q].doc.hosts[h])
            /\ \/ Lasting(store.hosts[h])
               \/ \E q \in Store!Processes :
                    proc[q].pc \in {"doc", "save"} /\ proc[q].target = h
        BY <3>1 DEF AnswersKept
      <4>2. \A q \in Store!Processes :
                 /\ proc'[q].pc = "doc" => Lasting(proc'[q].hosts[h])
                 /\ proc'[q].pc = "save" => Lasting(proc'[q].doc.hosts[h])
        BY <2>2, <4>1, Operations
      <4>3. CASE Lasting(store.hosts[h])
        BY <4>2, <4>3
      <4>4. ASSUME NEW q \in Store!Processes, proc[q].pc \in {"doc", "save"},
                   proc[q].target = h
            PROVE  proc'[q].pc \in {"doc", "save"} /\ proc'[q].target = h
        BY <1>2, <2>2, <4>4
      <4> QED BY <4>1, <4>2, <4>3, <4>4
    <3>4. AnswersKept'
      BY <3>3 DEF AnswersKept
    <3> QED BY <3>2, <3>4
  <2> QED BY <2>1, <2>3 DEF Unraced
<1> QED BY <1>1, <1>2

LEMMA StepKeepsAnswers ==
  ASSUME AnswersInv, [Store!Next]_(Store!vars)
  PROVE  AnswersInv'
<1> USE DEF Store!files, Store!history, Store!kills
<1>0. LaunchInv
  BY DEF AnswersInv
<1>1. ASSUME NEW p \in Commanders, Store!Start(p) PROVE AnswersInv'
  BY <1>1, StartKeepsAnswers
<1>2. ASSUME NEW p \in Commanders, Store!Spawn(p) PROVE AnswersInv'
  <2>1. RecsAreWhole' /\ Unraced'
    BY <1>2, Idles DEF Store!Spawn
  <2>2. LaunchInv'
    BY <1>0, <1>2 DEF Store!Spawn, LaunchInv
  <2> QED BY <2>1, <2>2 DEF AnswersInv
<1>3. ASSUME NEW p \in Commanders, Store!KillOperator(p) PROVE AnswersInv'
  <2>1. RecsAreWhole' /\ Unraced'
    <3>1. p \in Store!Processes
      BY DEF Store!Processes
    <3>2. /\ proc' = [proc EXCEPT ![p] = Store!AtRest]
          /\ store' = store /\ overlapped' = overlapped
          /\ answers' = IF p \in offering THEN {} ELSE answers \ {proc[p].target}
      BY <1>3 DEF Store!KillOperator
    <3>3. answers' \subseteq answers /\ \A h \in answers' : proc[p].target # h
      BY <3>2
    <3> QED BY <3>1, <3>2, <3>3, Idles
  <2>2. LaunchInv'
    BY <1>0, <1>3 DEF Store!KillOperator, LaunchInv
  <2> QED BY <2>1, <2>2 DEF AnswersInv
<1>4. ASSUME NEW p \in Store!Processes, Store!GoOn(p) PROVE AnswersInv'
  <2>1. RecsAreWhole' /\ Unraced'
    BY <1>4, GoOnKeepsAnswers
  <2>2. /\ sup' = sup /\ offering' = offering /\ answers' = answers
    BY <1>4 DEF Store!GoOn, Store!ReadDoc, Store!SaveDoc, Store!ReadDeny, Store!ReadAllow,
                Store!ReadBuild, Store!WriteEffective, Store!ReviewRows,
                Store!MarkReviewed, Store!SeedLearns
  <2> QED BY <1>0, <2>1, <2>2 DEF AnswersInv, LaunchInv
<1>5. CASE Store!Restart
  <2>1. RecsAreWhole' /\ Unraced'
    BY <1>5, Idles DEF Store!Restart
  <2>2. LaunchInv'
    BY <1>0, <1>5 DEF Store!Restart, LaunchInv
  <2> QED BY <2>1, <2>2 DEF AnswersInv
<1>6. CASE Store!Boot
  <2> DEFINE hosts == Store!Kept(Store!Pruned(store.hosts))
             op == IF sup = "clear" THEN Store!Edit(None, hosts, FALSE) ELSE Store!Publish
  <2>1. OpRec(op) /\ (sup # "clear" => op.pc = "deny")
    BY Operations
  <2> HIDE DEF op
  <2>2. /\ Store!Enter(sv, op) /\ store' = store /\ answers' = answers
        /\ offering' = offering /\ sup \in {"clear", "write"} /\ sup' = "tick"
    BY <1>6 DEF Store!Boot, op
  <2>3. offering = {} /\ (sup = "clear" => answers = {})
    BY <1>0, <2>2 DEF LaunchInv
  <2>4. RecsAreWhole' /\ Unraced'
    <3>1. sv \in Store!Processes
      BY DEF Store!Processes
    <3> QED BY <2>1, <2>2, <2>3, <3>1, Enters
  <2>5. LaunchInv'
    BY <1>0, <2>2, <2>3 DEF LaunchInv
  <2> QED BY <2>4, <2>5 DEF AnswersInv
<1>7. CASE Store!Sweep
  <2> DEFINE kept == Store!Pruned(store.hosts)
             lapsed == store.learn # None /\ ~Store!WindowOpen(store)
             op == Store!Edit(None, kept, lapsed)
  <2>1. OpRec(op) /\ op.pc = "doc" /\ op.hosts = kept
    BY Operations
  <2>2. \A x \in Grantable : Lasting(store.hosts[x]) => Lasting(kept[x])
    BY PrunedStays
  <2> HIDE DEF kept, lapsed
  <2>3. Store!Enter(sv, op) \/ UNCHANGED <<proc, overlapped>>
    BY <1>7 DEF Store!Sweep, kept, lapsed
  <2> HIDE DEF op
  <2>4. store' = store /\ answers' = answers /\ offering' = offering
        /\ sup = "tick" /\ sup' = "wall"
    BY <1>7 DEF Store!Sweep
  <2>5. RecsAreWhole' /\ Unraced'
    <3>1. sv \in Store!Processes /\ answers \subseteq Grantable
      BY <1>0 DEF Store!Processes, LaunchInv
    <3>2. CASE Store!Enter(sv, op)
      BY <2>1, <2>2, <2>4, <3>1, <3>2, Enters
    <3>3. CASE UNCHANGED <<proc, overlapped>>
      BY <2>4, <3>3, Idles
    <3> QED BY <2>3, <3>2, <3>3
  <2>6. LaunchInv'
    BY <1>0, <2>4 DEF LaunchInv
  <2> QED BY <2>5, <2>6 DEF AnswersInv
<1>8. CASE Store!ReadWall
  <2>1. RecsAreWhole' /\ Unraced'
    BY <1>8, Idles DEF Store!ReadWall
  <2>2. LaunchInv'
    BY <1>0, <1>8 DEF Store!ReadWall, LaunchInv
  <2> QED BY <2>1, <2>2 DEF AnswersInv
<1>9. CASE Store!WriteLive
  <2>1. RecsAreWhole' /\ Unraced'
    BY <1>9, Idles DEF Store!WriteLive
  <2>2. LaunchInv'
    BY <1>0, <1>9 DEF Store!WriteLive, LaunchInv
  <2> QED BY <2>1, <2>2 DEF AnswersInv
<1>10. CASE Store!KillSupervisor
  <2>1. RecsAreWhole' /\ Unraced'
    <3>1. sv \in Store!Processes
      BY DEF Store!Processes
    <3> QED BY <1>10, <3>1, Idles DEF Store!KillSupervisor
  <2>2. LaunchInv'
    BY <1>0, <1>10 DEF Store!KillSupervisor, LaunchInv
  <2> QED BY <2>1, <2>2 DEF AnswersInv
<1>11. CASE Store!Pass \/ Store!WouldBlock \/ UNCHANGED Store!vars
  <2>1. /\ store' = store /\ proc' = proc /\ overlapped' = overlapped
        /\ answers' = answers /\ offering' = offering /\ sup' = sup
    BY <1>11 DEF Store!Pass, Store!WouldBlock, Store!vars
  <2>2. RecsAreWhole' /\ Unraced'
    BY <2>1, Idles
  <2> QED BY <1>0, <2>1, <2>2 DEF AnswersInv, LaunchInv
<1> QED
  BY <1>1, <1>2, <1>3, <1>4, <1>5, <1>6, <1>7, <1>8, <1>9, <1>10, <1>11
     DEF Store!Next, Store!SupervisorStep

LEMMA AnswersFromTheStart == Store!Init => AnswersInv
<1> SUFFICES ASSUME Store!Init PROVE AnswersInv
  OBVIOUS
<1>1. DocRec(store)
  BY DEF Store!Init, Store!FirstRun, DocRec
<1>2. proc = [p \in Store!Processes |-> Store!AtRest] /\ offering = {} /\ answers = {}
  BY DEF Store!Init
<1>3. RecsAreWhole
  BY <1>1, <1>2, Operations DEF RecsAreWhole
<1>4. LaunchInv
  BY <1>2 DEF LaunchInv
<1>5. Unraced
  BY <1>2, Operations DEF Unraced, OneAtATime, AnswersKept, Store!Busy
<1> QED BY <1>3, <1>4, <1>5 DEF AnswersInv

(* Whoever overlaps with whom and whatever dies, while no two operations   *)
(* have overlapped, a host answered to with more than `once' at a launch   *)
(* is still granted when no operation is under way: the boot of the        *)
(* supervisor does not wipe what the operator has just said                *)
(* (supervisor.ensure_background, allowlist.clear_ephemeral).              *)
THEOREM LaunchAnswersLast == Store!Spec => []AnswersReachTheBox
<1>1. AnswersInv => AnswersReachTheBox
  <2> SUFFICES ASSUME AnswersInv, ~overlapped, \A p \in Store!Processes : ~Store!Busy(p),
                      NEW h \in answers
               PROVE  store.hosts[h] # None
    BY DEF AnswersReachTheBox, Store!AnswersReachTheBox
  <2>1. Lasting(store.hosts[h])
    BY DEF AnswersInv, Unraced, AnswersKept, Store!Busy
  <2> QED BY <2>1 DEF Lasting
<1> QED
  BY <1>1, AnswersFromTheStart, StepKeepsAnswers, PTL DEF Store!Spec

-----------------------------------------------------------------------------
(* The files the offsets are kept in: what an allocation makes of a record *)
(* and of the pins, then the runs that read and write them.  The movers    *)
(* are placed one after the other: the function that does it exists, by a  *)
(* least number of names for which it would not.                           *)
LEMMA MovedSteps ==
  ASSUME NEW c, NEW mv, NEW p, NEW h
  PROVE  Files!Moved(c, mv, p, h) = [n \in 0..NumNames |->
           IF n = 0 THEN c ELSE Files!MoveOne(n, Files!Moved(c, mv, p, h)[n - 1], mv, p, h)]
<1> DEFINE Upto(k, g) == g = [n \in 0..k |-> IF n = 0 THEN c ELSE Files!MoveOne(n, g[n - 1], mv, p, h)]
<1>1. ASSUME NEW k \in Nat
      PROVE  \E g : Upto(k, g)
  <2> DEFINE T == {j \in Nat : ~ \E g : Upto(j, g)}
  <2> SUFFICES ASSUME T # {} PROVE FALSE
    OBVIOUS
  <2>1. PICK j \in T : \A i \in T : j <= i
    <3> HIDE DEF Upto
    <3> QED BY LeastNatural
  <2>2. CASE j = 0
    <3> DEFINE g == [n \in 0..0 |-> c]
    <3>1. Upto(0, g)
      OBVIOUS
    <3> QED BY <2>1, <2>2, <3>1
  <2>3. CASE j # 0
    <3>1. j - 1 \in Nat /\ j \in Nat
      BY <2>1, <2>3
    <3>2. PICK g : Upto(j - 1, g)
      <4> HIDE DEF Upto
      <4> QED BY <2>1, <3>1
    <3> DEFINE e == [n \in 0..j |-> IF n = j THEN Files!MoveOne(j, g[j - 1], mv, p, h) ELSE g[n]]
    <3>3. \A n \in 0..(j - 1) : g[n] = IF n = 0 THEN c ELSE Files!MoveOne(n, g[n - 1], mv, p, h)
      BY <3>2, Zenon
    <3>4. ASSUME NEW n \in 0..j
          PROVE  e[n] = IF n = 0 THEN c ELSE Files!MoveOne(n, e[n - 1], mv, p, h)
      <4>1. CASE n = 0
        BY <4>1, <2>3, <3>1, <3>3
      <4>2. CASE n # 0
        <5>1. e[n - 1] = g[n - 1]
          BY <4>2, <3>1
        <5>2. n = j \/ n \in 0..(j - 1)
          BY <3>1
        <5> QED BY <5>1, <5>2, <4>2, <3>3
      <4> QED BY <4>1, <4>2
    <3>5. Upto(j, e)
      <4> HIDE DEF e
      <4>1. e = [n \in 0..j |-> e[n]]
        BY DEF e
      <4> QED BY <3>4, <4>1
    <3> QED BY <2>1, <3>5
  <2> QED BY <2>2, <2>3
<1>2. \E g : Upto(NumNames, g)
  BY <1>1, SizesAssumption
<1>3. Files!Moved(c, mv, p, h) = CHOOSE g : Upto(NumNames, g)
  BY DEF Files!Moved
<1>4. Upto(NumNames, Files!Moved(c, mv, p, h))
  <2> HIDE DEF Upto
  <2> QED BY <1>2, <1>3, Zenon
<1> QED BY <1>4

LEMMA FileNames ==
  /\ Files!Names = 1..NumNames /\ Files!Slots = 1..MaxSlot
  /\ Files!Offsets = [Files!Names -> Files!Slots \cup {None}]
  /\ None \notin Files!Slots /\ None \notin Files!Names
  /\ NumNames \in Nat /\ MaxSlot \in Nat \ {0}
  /\ IsFiniteSet(Files!Names) /\ Cardinality(Files!Names) = NumNames
  /\ IsFiniteSet(Files!Slots) /\ Cardinality(Files!Slots) = MaxSlot
<1>1. /\ Files!Names = 1..NumNames /\ Files!Slots = 1..MaxSlot
      /\ NumNames \in Nat /\ MaxSlot \in Nat \ {0} /\ None \notin Int
  BY SizesAssumption, NoSlotAssumption DEF Files!Names, Files!Slots
<1>2. /\ IsFiniteSet(1..NumNames) /\ Cardinality(1..NumNames) = NumNames
      /\ IsFiniteSet(1..MaxSlot) /\ Cardinality(1..MaxSlot) = MaxSlot
  BY <1>1, FS_Interval
<1> QED
  BY <1>1, <1>2 DEF Files!Offsets

(* A name without a pin and without an offset leaves a slot free: each     *)
(* other name takes one at most.                                           *)
LEMMA RoomForOne ==
  ASSUME NumNames <= MaxSlot, NEW p \in Files!Offsets, NEW t \in Files!Offsets,
         \A m \in Files!Names : t[m] # None => p[m] = None,
         NEW n \in Files!Names, t[n] = None, p[n] = None
  PROVE  Files!Slots \ (Files!Held(p) \cup Files!Held(t)) # {}
<1> DEFINE taken == Files!Held(p) \cup Files!Held(t)
           others == Files!Names \ {n}
           f == [m \in others |-> IF p[m] # None THEN p[m] ELSE t[m]]
<1>1. IsFiniteSet(others) /\ Cardinality(others) = NumNames - 1
  <2>1. IsFiniteSet(others) /\ Cardinality(others) = Cardinality(Files!Names) - 1
    <3>1. IsFiniteSet(Files!Names) /\ n \in Files!Names
      BY FileNames
    <3> QED BY <3>1, FS_RemoveElement
  <2> QED BY <2>1, FileNames
<1>2. \A s \in taken : \E m \in others : f[m] = s
  BY DEF Files!Held
<1> DEFINE image == {f[m] : m \in others}
<1>3. f \in Surjection(others, image)
  BY DEF Surjection
<1>4. IsFiniteSet(image) /\ Cardinality(image) <= NumNames - 1
  <2> HIDE DEF f, image, others
  <2> QED BY <1>1, <1>3, FS_Surjection
<1>5. ASSUME Files!Slots \ taken = {} PROVE FALSE
  <2>1. Files!Slots \in SUBSET image
    BY <1>2, <1>5
  <2>2. Cardinality(Files!Slots) <= Cardinality(image)
    <3> HIDE DEF image, taken
    <3> QED BY <1>4, <2>1, FS_Subset
  <2>3. Cardinality(image) \in Nat
    <3> HIDE DEF image
    <3> QED BY <1>4, FS_CardinalityType
  <2> HIDE DEF image
  <2> QED BY <2>2, <2>3, <1>4, FileNames
<1> QED BY <1>5

(* The free slot that comes first is free.                                 *)
LEMMA FirstFreeSlot ==
  ASSUME NEW s \in Int, NEW taken, Files!Slots \ taken # {}
  PROVE  Files!FirstFree(s, taken) \in Files!Slots \ taken
<1> DEFINE free == Files!Slots \ taken
           T == {(t - s) % MaxSlot : t \in free}
<1>1. T \subseteq Nat /\ T # {}
  BY FileNames
<1>2. PICK x \in T : \A y \in T : x <= y
  <2> HIDE DEF T
  <2> QED BY <1>1, LeastNatural
<1>3. PICK t \in free : x = (t - s) % MaxSlot
  BY <1>2
<1>4. \A u \in free : (t - s) % MaxSlot <= (u - s) % MaxSlot
  BY <1>2, <1>3
<1> HIDE DEF T
<1> QED BY <1>3, <1>4, Zenon DEF Files!FirstFree

(* What a table of offsets promises of the names nm under the pins p: an   *)
(* offset for unpinned names of nm only, none of them pinned to another,   *)
(* and no two the same.                                                    *)
Fair(t, nm, p) ==
  /\ t \in Files!Offsets
  /\ \A n \in Files!Names : t[n] # None =>
       /\ n \in nm /\ p[n] = None /\ t[n] \notin Files!Held(p)
       /\ \A m \in Files!Names : m # n => t[m] # t[n]

LEMMA MoveOneIsFair ==
  ASSUME NumNames <= MaxSlot, NEW p \in Files!Offsets, NEW h \in [Files!Names -> Files!Slots],
         NEW nm \in SUBSET Files!Names, NEW mv, mv \subseteq {n \in nm : p[n] = None},
         NEW t, Fair(t, nm, p), NEW n \in Files!Names, n \in mv => t[n] = None
  PROVE  LET u == Files!MoveOne(n, t, mv, p, h) IN
         /\ Fair(u, nm, p)
         /\ \A m \in Files!Names : m # n \/ m \notin mv => u[m] = t[m]
         /\ n \in mv => u[n] # None
<1> DEFINE taken == Files!Held(p) \cup Files!Held(t)
           s == Files!FirstFree(h[n], taken)
<1>1. CASE n \notin mv
  BY <1>1, Zenon DEF Files!MoveOne
<1>2. CASE n \in mv
  <2>1. Files!Slots \ taken # {}
    BY <1>2, RoomForOne DEF Fair
  <2>2. s \in Files!Slots \ taken
    <3>1. h[n] \in Int
      BY FileNames
    <3> HIDE DEF taken
    <3> QED BY <2>1, <3>1, FirstFreeSlot
  <2>3. Files!MoveOne(n, t, mv, p, h) = [t EXCEPT ![n] = s]
    BY <1>2, <2>1, Zenon DEF Files!MoveOne
  <2>4. \A m \in Files!Names : t[m] # None => t[m] # s
    BY <2>2 DEF Files!Held
  <2>5. s \notin Files!Held(p) /\ s # None /\ s \in Files!Slots
    BY <2>2, FileNames
  <2> HIDE DEF s
  <2> QED BY <1>2, <2>3, <2>4, <2>5, FileNames DEF Fair
<1> QED BY <1>1, <1>2

LEMMA AllMoved ==
  ASSUME NumNames <= MaxSlot, NEW p \in Files!Offsets, NEW h \in [Files!Names -> Files!Slots],
         NEW nm \in SUBSET Files!Names, NEW mv, mv \subseteq {n \in nm : p[n] = None},
         NEW c, Fair(c, nm, p), \A n \in mv : c[n] = None
  PROVE  LET u == Files!Moved(c, mv, p, h)[NumNames] IN
         /\ Fair(u, nm, p)
         /\ \A m \in Files!Names \ mv : u[m] = c[m]
         /\ \A m \in mv : u[m] # None
<1>0. ASSUME NEW g, Fair(g, nm, p), NEW k \in Files!Names, k \in mv => g[k] = None
      PROVE  LET v == Files!MoveOne(k, g, mv, p, h) IN
             /\ Fair(v, nm, p)
             /\ \A m \in Files!Names : m # k \/ m \notin mv => v[m] = g[m]
             /\ k \in mv => v[k] # None
  BY <1>0, MoveOneIsFair
<1> DEFINE f == Files!Moved(c, mv, p, h)
           Good(k) == /\ Fair(f[k], nm, p)
                      /\ \A m \in Files!Names \ mv : f[k][m] = c[m]
                      /\ \A m \in mv : f[k][m] # None <=> m <= k
           T == {k \in 0..NumNames : ~ Good(k)}
<1>1. \A k \in 0..NumNames :
        f[k] = IF k = 0 THEN c ELSE Files!MoveOne(k, f[k - 1], mv, p, h)
  <2>1. f = [k \in 0..NumNames |->
               IF k = 0 THEN c ELSE Files!MoveOne(k, f[k - 1], mv, p, h)]
    BY MovedSteps
  <2> HIDE DEF f
  <2> QED BY <2>1, Zenon
<1>2. T = {}
  <2> SUFFICES ASSUME T # {} PROVE FALSE
    OBVIOUS
  <2>1. T \subseteq Nat
    BY FileNames
  <2>2. PICK k \in T : \A j \in T : k <= j
    <3> HIDE DEF T
    <3> QED BY <2>1, LeastNatural
  <2>3. k \in 0..NumNames /\ ~ Good(k)
    BY <2>2
  <2>4. CASE k = 0
    <3>1. f[0] = c
      BY <1>1, <2>3, <2>4
    <3>2. \A m \in mv : m \in Nat /\ m >= 1
      BY FileNames
    <3> HIDE DEF f
    <3> QED BY <2>3, <2>4, <3>1, <3>2
  <2>5. CASE k # 0
    <3>1. k \in Files!Names /\ k - 1 \in 0..NumNames /\ k - 1 < k
      BY <2>3, <2>5, FileNames
    <3>2. Good(k - 1)
      BY <2>2, <3>1
    <3>3. f[k] = Files!MoveOne(k, f[k - 1], mv, p, h)
      BY <1>1, <2>3, <2>5
    <3> HIDE DEF f
    <3>4. k \in mv => f[k - 1][k] = None
      BY <3>1, <3>2
    <3>5. /\ Fair(f[k], nm, p)
          /\ \A m \in Files!Names : m # k \/ m \notin mv => f[k][m] = f[k - 1][m]
          /\ k \in mv => f[k][k] # None
      <4> DEFINE g == f[k - 1]
      <4>1. Fair(g, nm, p) /\ (k \in mv => g[k] = None) /\ f[k] = Files!MoveOne(k, g, mv, p, h)
        BY <3>2, <3>3, <3>4
      <4> HIDE DEF g
      <4>2. LET v == Files!MoveOne(k, g, mv, p, h) IN
            /\ Fair(v, nm, p)
            /\ \A m \in Files!Names : m # k \/ m \notin mv => v[m] = g[m]
            /\ k \in mv => v[k] # None
        BY <3>1, <4>1, <1>0
      <4> QED BY <4>1, <4>2, Zenon DEF g
    <3>6. \A m \in mv : m \in Files!Names /\ m \in Int
      <4>1. \A m \in Files!Names : m \in Int
        BY FileNames
      <4> QED BY <4>1
    <3>7. \A m \in Files!Names \ mv : f[k][m] = c[m]
      BY <3>2, <3>5
    <3>8. ASSUME NEW m \in mv PROVE f[k][m] # None <=> m <= k
      <4>1. CASE m = k
        BY <4>1, <3>5, <3>6
      <4>2. CASE m # k
        BY <4>2, <3>2, <3>5, <3>6, <3>1
      <4> QED BY <4>1, <4>2
    <3> QED BY <2>3, <3>5, <3>7, <3>8
  <2> QED BY <2>4, <2>5
<1>3. Good(NumNames)
  BY <1>2, FileNames
<1> HIDE DEF f
<1>4. \A m \in mv : m <= NumNames
  BY FileNames
<1> QED BY <1>3, <1>4 DEF f

(* An allocation is fair, leaves no unpinned name without an offset, and   *)
(* lets a name keep a slot that is recorded for it alone and not pinned.   *)
LEMMA AllocationIsFair ==
  ASSUME NumNames <= MaxSlot, NEW p \in Files!Offsets, NEW h \in [Files!Names -> Files!Slots],
         NEW nm \in SUBSET Files!Names, NEW rec \in Files!Offsets
  PROVE  LET u == Files!Allocate(nm, rec, p, h) IN
         /\ Fair(u, nm, p)
         /\ \A n \in nm : p[n] = None => u[n] # None
         /\ \A n \in nm :
              /\ p[n] = None /\ rec[n] # None /\ rec[n] \notin Files!Held(p)
              /\ \A m \in Files!Names : m # n => rec[m] # rec[n]
              => u[n] = rec[n]
<1> DEFINE unpinned == {n \in nm : p[n] = None}
           keepers == Files!Keepers(unpinned, rec, p)
           kept == [n \in Files!Names |-> IF n \in keepers THEN rec[n] ELSE None]
           claimers == Files!Claimers(unpinned \ keepers, Files!Held(p) \cup Files!Held(kept), h)
           claimed == [n \in Files!Names |-> IF n \in claimers THEN h[n] ELSE kept[n]]
           movers == unpinned \ (keepers \cup claimers)
<1>1. Files!Allocate(nm, rec, p, h) = Files!Moved(claimed, movers, p, h)[NumNames]
  BY DEF Files!Allocate
<1>2. keepers = {n \in unpinned : /\ rec[n] \in Files!Slots \ Files!Held(p)
                                  /\ \A m \in unpinned : m < n => rec[m] # rec[n]}
  BY DEF Files!Keepers
<1>3. claimers = {n \in unpinned \ keepers :
                    /\ h[n] \notin Files!Held(p) \cup Files!Held(kept)
                    /\ \A m \in unpinned \ keepers : m < n => h[m] # h[n]}
  BY DEF Files!Claimers
<1> HIDE DEF keepers, claimers
<1>4. unpinned \subseteq Files!Names /\ \A n \in unpinned : n \in Int
  <2>1. \A m \in Files!Names : m \in Int
    BY FileNames
  <2> QED BY <2>1
<1>5. Fair(kept, nm, p)
  <2>1. \A m, n \in unpinned : m < n \/ n < m \/ m = n
    BY <1>4
  <2> QED BY <1>2, <1>4, <2>1, FileNames DEF Fair
<1>6. Fair(claimed, nm, p)
  <2>1. \A m, n \in unpinned : m < n \/ n < m \/ m = n
    BY <1>4
  <2>2. \A n \in claimers : \A m \in Files!Names : kept[m] # None => kept[m] # h[n]
    BY <1>3 DEF Files!Held
  <2>3. \A n \in Files!Names : h[n] \in Files!Slots /\ h[n] # None
    BY FileNames
  <2>4. \A m, n \in claimers : m # n => h[m] # h[n]
    BY <1>3, <2>1
  <2>5. \A n \in claimers : n \in unpinned /\ h[n] \notin Files!Held(p) /\ n \in Files!Names
    BY <1>3, <1>4
  <2> HIDE DEF kept
  <2>6. claimed \in Files!Offsets
    BY <1>5, <2>3, FileNames DEF Fair
  <2>7. ASSUME NEW n \in Files!Names, claimed[n] # None
        PROVE  /\ n \in nm /\ p[n] = None /\ claimed[n] \notin Files!Held(p)
               /\ \A m \in Files!Names : m # n => claimed[m] # claimed[n]
    <3>1. CASE n \in claimers
      BY <3>1, <2>2, <2>3, <2>4, <2>5
    <3>2. CASE n \notin claimers
      BY <3>2, <1>5, <2>2, <2>7 DEF Fair
    <3> QED BY <3>1, <3>2
  <2> HIDE DEF claimed
  <2> QED BY <2>6, <2>7 DEF Fair
<1>7. movers \subseteq {n \in nm : p[n] = None} /\ \A n \in movers : claimed[n] = None
  BY <1>4
<1>8. /\ \A n \in keepers : n \in Files!Names /\ n \notin claimers /\ claimed[n] = rec[n] /\ rec[n] # None
      /\ \A n \in claimers : n \in Files!Names /\ claimed[n] # None
  BY <1>2, <1>3, <1>4, FileNames
<1> HIDE DEF claimed
<1> DEFINE u == Files!Moved(claimed, movers, p, h)[NumNames]
<1>9. /\ Fair(u, nm, p)
      /\ \A m \in Files!Names \ movers : u[m] = claimed[m]
      /\ \A m \in movers : u[m] # None
  <2> HIDE DEF movers
  <2> QED BY <1>6, <1>7, AllMoved
<1> HIDE DEF u
<1>10. \A n \in nm : p[n] = None => u[n] # None
  BY <1>8, <1>9
<1>11. ASSUME NEW n \in nm, p[n] = None, rec[n] # None, rec[n] \notin Files!Held(p),
              \A m \in Files!Names : m # n => rec[m] # rec[n]
       PROVE  u[n] = rec[n]
  <2>1. n \in keepers
    BY <1>2, <1>4, <1>11, FileNames
  <2> QED BY <2>1, <1>8, <1>9
<1> QED BY <1>1, <1>9, <1>10, <1>11 DEF u

(***************************************************************************)
(* The registry and the record of the offsets, under runs that do not      *)
(* overlap.  One run at a time is under way; what it has read is still so; *)
(* the record gives no slot twice; and what runs were told of unpinned     *)
(* names is what the record says, or will say once it is written again.    *)
(***************************************************************************)
Distinct(t) == \A m, n \in Files!Names : m # n /\ t[m] # None => t[m] # t[n]

ToldIn(t) == \A n \in Files!Names : told[n] # None /\ pins[n] = None => t[n] = told[n]

OneRun == \A q, r \in Runs : Files!Busy(q) /\ Files!Busy(r) => q = r

ToldOfTheRegistered ==
  /\ told \in Files!Offsets
  /\ \A n \in Files!Names : told[n] # None =>
       /\ n \in Files!Load
       /\ pins[n] # None => told[n] = pins[n]
       /\ pins[n] = None => told[n] \notin Files!Held(pins)

Recorded ==
  (\A r \in Runs : run[r].pc # "dump") =>
    offsets \in Files!Offsets /\ Distinct(offsets) /\ ToldIn(offsets)

RunKnows(r) ==
  /\ run[r].on = "tmp"
  /\ run[r].pc \in {"idle", "open", "fill", "replace", "look", "lock", "dump"}
  /\ run[r].pc \in {"open", "fill", "replace"} => run[r].names \in SUBSET Files!Names
  /\ run[r].pc = "fill" => tmp = Torn
  /\ run[r].pc = "replace" => tmp = run[r].names
  /\ run[r].pc \in {"look", "lock", "dump"} =>
       run[r].names = Files!Load /\ run[r].name \in Files!Load /\ run[r].pinned = pins
  /\ run[r].pc = "dump" =>
       /\ Fair(run[r].next, Files!Load, pins) /\ ToldIn(run[r].next)
       /\ \A n \in Files!Load : pins[n] = None => run[r].next[n] # None

Sequential ==
  /\ OneRun
  /\ registry = NoFile \/ registry \in SUBSET Files!Names
  /\ ToldOfTheRegistered
  /\ Recorded
  /\ \A r \in Runs : RunKnows(r)

FilesInv ==
  /\ pins \in FilePinnings /\ DOMAIN run = Runs
  /\ ~raced => Sequential

LEMMA PinsAndHash ==
  /\ \A p \in FilePinnings : p \in Files!Offsets /\ Distinct(p)
  /\ FileHash \in [Files!Names -> Files!Slots]
<1>1. Names = Files!Names /\ NoOffsets = [n \in Files!Names |-> None]
  BY DEF Names, NoOffsets, Files!Names
<1>2. /\ 1 \in Files!Slots /\ MaxSlot \in Files!Slots
  BY FileNames
<1>3. FileHash \in [Files!Names -> Files!Slots]
  BY <1>1, <1>2 DEF FileHash
<1>4. ASSUME NEW p \in FilePinnings
      PROVE  p \in Files!Offsets /\ Distinct(p)
  BY <1>1, <1>2, FileNames DEF FilePinnings, Distinct
<1> QED BY <1>3, <1>4

LEMMA FileValues ==
  /\ Torn # NoFile
  /\ \A x \in SUBSET Files!Names : x # Torn /\ x # NoFile
  /\ \A x \in Files!Offsets : x # Torn
<1>1. Names = Files!Names /\ Offsets = Files!Offsets
  BY DEF Names, Files!Names, Offsets, Files!Offsets, Slots, Files!Slots
<1> QED BY <1>1, FilesAssumption

LEMMA LoadedNames ==
  ASSUME registry = NoFile \/ registry \in SUBSET Files!Names
  PROVE  Files!Load \in SUBSET Files!Names
  BY FileValues DEF Files!Load

LEMMA FilesInitInv == Files!Init => FilesInv
<1> SUFFICES ASSUME Files!Init PROVE FilesInv
  OBVIOUS
<1>1. \A r \in Runs : run[r] = Files!AtRest /\ Files!AtRest.pc = "idle" /\ Files!AtRest.on = "tmp"
  BY DEF Files!Init, Files!AtRest
<1>2. Files!NoOffsets = [n \in Files!Names |-> None]
  BY DEF Files!NoOffsets
<1>3. OneRun
  BY <1>1 DEF OneRun, Files!Busy
<1>4. ToldOfTheRegistered
  BY <1>2, FileNames DEF ToldOfTheRegistered, Files!Init
<1>5. Recorded
  BY <1>2, FileNames DEF Recorded, Files!Init, Distinct, ToldIn
<1>6. \A r \in Runs : RunKnows(r)
  BY <1>1 DEF RunKnows
<1> QED
  BY <1>3, <1>4, <1>5, <1>6 DEF Files!Init, FilesInv, Sequential

(* The reads and the writes of the one run that is under way.              *)
LEMMA AskInv ==
  ASSUME FilesInv, NEW r \in Runs, NEW n \in Files!Names, Files!Ask(r, n), ~raced'
  PROVE  Sequential'
<1>1. /\ ~raced /\ \A q \in Runs : ~Files!Busy(q)
      /\ run' = [run EXCEPT ![r] = [Files!AtRest EXCEPT !.pc = "look", !.name = n,
                                       !.names = Files!Load, !.pinned = pins]]
      /\ UNCHANGED <<registry, tmp, offsets, pins, told>> /\ n \in Files!Load
  BY DEF Files!Ask, Files!Enter, Files!registryFiles
<1>2. Sequential
  BY <1>1 DEF FilesInv
<1>3. Files!Load' = Files!Load
  BY <1>1 DEF Files!Load
<1>4. /\ run'[r].pc = "look" /\ run'[r].name = n /\ run'[r].names = Files!Load
      /\ run'[r].pinned = pins /\ run'[r].on = "tmp"
      /\ \A q \in Runs : q # r => run'[q] = run[q] /\ run[q].pc = "idle"
  BY <1>1 DEF FilesInv, Files!AtRest, Files!Busy
<1>5. OneRun'
  BY <1>4 DEF OneRun, Files!Busy
<1>6. ToldOfTheRegistered'
  BY <1>1, <1>2, <1>3 DEF Sequential, ToldOfTheRegistered
<1>7. Recorded'
  BY <1>1, <1>2, <1>4 DEF Sequential, Recorded, Distinct, ToldIn, Files!Busy
<1>8. ASSUME NEW q \in Runs PROVE RunKnows(q)'
  BY <1>1, <1>2, <1>3, <1>4 DEF Sequential, RunKnows
<1> QED
  BY <1>1, <1>2, <1>5, <1>6, <1>7, <1>8 DEF Sequential

LEMMA ChangeInv ==
  ASSUME FilesInv, NEW r \in Runs, NEW n \in Files!Names, ~raced',
         Files!Register(r, n) \/ Files!Unregister(r, n)
  PROVE  Sequential'
<1>1. PICK names1 : Files!Change(r, n, names1) /\ names1 \in {Files!Load \cup {n}, Files!Load \ {n}}
  BY DEF Files!Register, Files!Unregister
<1>2. /\ ~raced /\ \A q \in Runs : ~Files!Busy(q)
      /\ run' = [run EXCEPT ![r] = [Files!AtRest EXCEPT !.pc = "open", !.name = n, !.names = names1]]
      /\ UNCHANGED <<registry, tmp, offsets, pins, told>>
  BY <1>1 DEF Files!Change, Files!Enter, Files!registryFiles
<1>3. Sequential
  BY <1>2 DEF FilesInv
<1>4. Files!Load' = Files!Load /\ names1 \in SUBSET Files!Names
  BY <1>1, <1>2, <1>3, LoadedNames DEF Files!Load, Sequential
<1>5. /\ run'[r].pc = "open" /\ run'[r].names = names1 /\ run'[r].on = "tmp"
      /\ \A q \in Runs : q # r => run'[q] = run[q] /\ run[q].pc = "idle"
  BY <1>2 DEF FilesInv, Files!AtRest, Files!Busy
<1>6. OneRun'
  BY <1>5 DEF OneRun, Files!Busy
<1>7. ToldOfTheRegistered'
  BY <1>2, <1>3, <1>4 DEF Sequential, ToldOfTheRegistered
<1>8. Recorded'
  BY <1>2, <1>3, <1>5 DEF Sequential, Recorded, Distinct, ToldIn, Files!Busy
<1>9. ASSUME NEW q \in Runs PROVE RunKnows(q)'
  BY <1>2, <1>3, <1>4, <1>5 DEF Sequential, RunKnows
<1> QED
  BY <1>2, <1>3, <1>6, <1>7, <1>8, <1>9 DEF Sequential

LEMMA OpenInv ==
  ASSUME FilesInv, NEW r \in Runs, Files!Open(r), ~raced'
  PROVE  Sequential'
<1>1. /\ ~raced /\ run[r].pc = "open" /\ run' = [run EXCEPT ![r].pc = "fill"]
      /\ tmp' = Torn /\ UNCHANGED <<registry, offsets, pins, told>>
  BY DEF Files!Open, Files!Goto
<1>2. Sequential
  BY <1>1 DEF FilesInv
<1>3. /\ run'[r] = [run[r] EXCEPT !.pc = "fill"]
      /\ \A q \in Runs : q # r => run'[q] = run[q] /\ run[q].pc = "idle"
  BY <1>1, <1>2 DEF FilesInv, Sequential, OneRun, Files!Busy
<1>4. Files!Load' = Files!Load
  BY <1>1 DEF Files!Load
<1>5. OneRun'
  BY <1>1, <1>3 DEF OneRun, Files!Busy
<1>6. ToldOfTheRegistered'
  BY <1>1, <1>2, <1>4 DEF Sequential, ToldOfTheRegistered
<1>7. Recorded'
  BY <1>1, <1>2, <1>3 DEF Sequential, Recorded, Distinct, ToldIn
<1>8. RunKnows(r)'
  <2>1. RunKnows(r)
    BY <1>2 DEF Sequential
  <2>2. run'[r].pc = "fill" /\ run'[r].names = run[r].names /\ run'[r].on = run[r].on
    BY <1>3, <1>1
  <2> QED BY <1>1, <2>1, <2>2 DEF RunKnows
<1>9. ASSUME NEW q \in Runs PROVE RunKnows(q)'
  BY <1>1, <1>2, <1>3, <1>8 DEF Sequential, RunKnows
<1> QED
  BY <1>1, <1>2, <1>5, <1>6, <1>7, <1>9 DEF Sequential

LEMMA FillInv ==
  ASSUME FilesInv, NEW r \in Runs, Files!Fill(r), ~raced'
  PROVE  Sequential'
<1>1. /\ ~raced /\ run[r].pc = "fill" /\ run' = [run EXCEPT ![r].pc = "replace"]
      /\ UNCHANGED <<offsets, pins, told>>
  BY DEF Files!Fill, Files!Goto
<1>2. Sequential /\ RunKnows(r)
  BY <1>1 DEF FilesInv, Sequential
<1>3. tmp' = run[r].names /\ registry' = registry
  BY <1>1, <1>2 DEF Files!Fill, RunKnows
<1>4. /\ run'[r] = [run[r] EXCEPT !.pc = "replace"]
      /\ \A q \in Runs : q # r => run'[q] = run[q] /\ run[q].pc = "idle"
  BY <1>1, <1>2 DEF FilesInv, Sequential, OneRun, Files!Busy
<1>5. Files!Load' = Files!Load
  BY <1>3 DEF Files!Load
<1>6. OneRun'
  BY <1>1, <1>4 DEF OneRun, Files!Busy
<1>7. ToldOfTheRegistered'
  BY <1>1, <1>2, <1>5 DEF Sequential, ToldOfTheRegistered
<1>8. Recorded'
  BY <1>1, <1>2, <1>4 DEF Sequential, Recorded, Distinct, ToldIn
<1>9. RunKnows(r)'
  <2>1. run'[r].pc = "replace" /\ run'[r].names = run[r].names /\ run'[r].on = run[r].on
    BY <1>4, <1>1
  <2> QED BY <1>1, <1>2, <1>3, <2>1 DEF RunKnows
<1>10. ASSUME NEW q \in Runs PROVE RunKnows(q)'
  BY <1>1, <1>2, <1>4, <1>9 DEF Sequential, RunKnows
<1> QED
  BY <1>2, <1>3, <1>6, <1>7, <1>8, <1>10 DEF Sequential

LEMMA ReplaceInv ==
  ASSUME FilesInv, NEW r \in Runs, Files!Replace(r), ~raced'
  PROVE  Sequential'
<1>1. /\ ~raced /\ run[r].pc = "replace" /\ UNCHANGED <<offsets, pins>>
  BY DEF Files!Replace
<1>2. Sequential /\ RunKnows(r)
  BY <1>1 DEF FilesInv, Sequential
<1>3. tmp \in SUBSET Files!Names /\ tmp # NoFile /\ tmp # Torn
  BY <1>1, <1>2, FileValues DEF RunKnows
<1>4. registry' = tmp /\ Files!Load' = tmp
  BY <1>3 DEF Files!Replace, Files!Load
<1>5. told' = [n \in Files!Names |-> IF n \in tmp THEN told[n] ELSE None]
  BY <1>3, <1>4 DEF Files!Replace
<1>6. \A q \in Runs : q # r => run[q].pc = "idle"
  BY <1>1, <1>2 DEF Sequential, OneRun, Files!Busy
<1>7. run'[r] = Files!AtRest /\ \A q \in Runs : q # r => run'[q] = run[q]
  BY <1>6 DEF Files!Replace
<1>8. \A q \in Runs : run'[q].pc = "idle" /\ run'[q].on = "tmp"
  BY <1>2, <1>6, <1>7 DEF Files!AtRest, Sequential, RunKnows
<1>9. \A q \in Runs : run[q].pc # "dump"
  BY <1>1, <1>6
<1>10. OneRun'
  BY <1>8 DEF OneRun, Files!Busy
<1>11. ToldOfTheRegistered'
  BY <1>1, <1>2, <1>4, <1>5, FileNames DEF Sequential, ToldOfTheRegistered
<1>12. Recorded'
  <2>1. offsets \in Files!Offsets /\ Distinct(offsets) /\ ToldIn(offsets)
    BY <1>2, <1>9 DEF Sequential, Recorded
  <2>2. Distinct(offsets)'
    BY <1>1, <2>1 DEF Distinct
  <2>3. ToldIn(offsets)'
    BY <1>1, <1>5, <2>1 DEF ToldIn
  <2> QED BY <1>1, <2>1, <2>2, <2>3 DEF Recorded
<1>13. \A q \in Runs : RunKnows(q)'
  BY <1>8 DEF RunKnows
<1> QED
  BY <1>3, <1>4, <1>10, <1>11, <1>12, <1>13 DEF Sequential

(* What the run that asks would allocate: fair, complete, and what has     *)
(* been told before.                                                       *)
LEMMA AllocatedKeepsTold ==
  ASSUME NumNames <= MaxSlot, FilesInv, Sequential, NEW r \in Runs, run[r].pc \in {"look", "lock"}
  PROVE  /\ Files!ReadOffsets = offsets /\ offsets \in Files!Offsets
         /\ Distinct(offsets) /\ ToldIn(offsets)
         /\ Fair(Files!Allocated(r), Files!Load, pins)
         /\ ToldIn(Files!Allocated(r))
         /\ \A n \in Files!Load : pins[n] = None => Files!Allocated(r)[n] # None
<1>1. RunKnows(r)
  BY DEF Sequential
<1>2. \A q \in Runs : run[q].pc # "dump"
  BY DEF Sequential, OneRun, Files!Busy
<1>3. offsets \in Files!Offsets /\ Distinct(offsets) /\ ToldIn(offsets)
  BY <1>2 DEF Sequential, Recorded
<1>4. Files!ReadOffsets = offsets
  BY <1>3, FileValues DEF Files!ReadOffsets
<1>5. Files!Allocated(r) = Files!Allocate(Files!Load, offsets, pins, FileHash)
  BY <1>1, <1>4 DEF RunKnows, Files!Allocated
<1> DEFINE u == Files!Allocate(Files!Load, offsets, pins, FileHash)
<1>6. /\ Fair(u, Files!Load, pins)
      /\ \A n \in Files!Load : pins[n] = None => u[n] # None
      /\ \A n \in Files!Load :
           /\ pins[n] = None /\ offsets[n] # None /\ offsets[n] \notin Files!Held(pins)
           /\ \A m \in Files!Names : m # n => offsets[m] # offsets[n]
           => u[n] = offsets[n]
  <2>1. pins \in Files!Offsets /\ FileHash \in [Files!Names -> Files!Slots]
    BY PinsAndHash DEF FilesInv
  <2>2. Files!Load \in SUBSET Files!Names
    BY LoadedNames DEF Sequential
  <2> QED BY <2>1, <2>2, <1>3, AllocationIsFair
<1> HIDE DEF u
<1>7. ToldIn(u)
  <2> SUFFICES ASSUME NEW n \in Files!Names, told[n] # None, pins[n] = None
               PROVE  u[n] = told[n]
    BY DEF ToldIn
  <2>1. n \in Files!Load /\ told[n] \notin Files!Held(pins)
    BY DEF Sequential, ToldOfTheRegistered
  <2>2. offsets[n] = told[n]
    BY <1>3 DEF ToldIn
  <2>3. \A m \in Files!Names : m # n => offsets[m] # offsets[n]
    BY <1>3, <2>2 DEF Distinct
  <2> QED BY <2>1, <2>2, <2>3, <1>6
<1> QED
  BY <1>3, <1>4, <1>5, <1>6, <1>7 DEF u

(* A run returns what is then the record: the others keep their ports.     *)
LEMMA ReturnInv ==
  ASSUME FilesInv, Sequential, NEW r \in Runs, Files!Busy(r), RunKnows(r),
         run[r].pc \in {"look", "lock", "dump"}, NEW table,
         Fair(table, Files!Load, pins), ToldIn(table),
         \A n \in Files!Load : pins[n] = None => table[n] # None,
         Files!Return(r, table), offsets' = table, UNCHANGED <<registry, tmp, pins>>
  PROVE  Sequential'
<1> DEFINE n == run[r].name
<1>1. Files!Load' = Files!Load /\ n \in Files!Load /\ run[r].pinned = pins /\ n \in Files!Names
  BY LoadedNames DEF Files!Load, RunKnows, Sequential
<1>2. told' = [told EXCEPT ![n] = IF pins[n] # None THEN pins[n] ELSE table[n]]
  BY <1>1 DEF Files!Return, Files!Offset
<1>3. \A q \in Runs : q # r => run[q].pc = "idle"
  BY DEF Sequential, OneRun, Files!Busy
<1>4. run'[r] = Files!AtRest /\ \A q \in Runs : q # r => run'[q] = run[q]
  BY DEF Files!Return, FilesInv
<1>5. \A q \in Runs : run'[q].pc = "idle" /\ run'[q].on = "tmp"
  BY <1>3, <1>4 DEF Files!AtRest, Sequential, RunKnows
<1>6. OneRun'
  BY <1>5 DEF OneRun, Files!Busy
<1> HIDE DEF n
<1>7. pins \in Files!Offsets
  BY PinsAndHash DEF FilesInv
<1>8. ToldOfTheRegistered'
  <2>1. told \in Files!Offsets /\ table \in Files!Offsets
    BY DEF Sequential, ToldOfTheRegistered, Fair
  <2>2. told' \in Files!Offsets
    BY <1>1, <1>2, <1>7, <2>1, FileNames
  <2>3. ASSUME NEW m \in Files!Names, told'[m] # None
        PROVE  /\ m \in Files!Load
               /\ pins[m] # None => told'[m] = pins[m]
               /\ pins[m] = None => told'[m] \notin Files!Held(pins)
    <3>1. CASE m = n
      <4>1. told'[n] = IF pins[n] # None THEN pins[n] ELSE table[n]
        BY <1>1, <1>2, <2>1, FileNames
      <4> QED BY <3>1, <4>1, <1>1, <2>3 DEF Fair
    <3>2. CASE m # n
      <4>1. told'[m] = told[m]
        BY <3>2, <1>2, <2>1, FileNames
      <4> QED BY <4>1, <2>3 DEF Sequential, ToldOfTheRegistered
    <3> QED BY <3>1, <3>2
  <2> QED BY <2>2, <2>3, <1>1 DEF ToldOfTheRegistered
<1>9. Distinct(table)
  BY DEF Fair, Distinct
<1>10. Recorded'
  <2>1. ToldIn(table)'
    <3>1. told \in [Files!Names -> Files!Slots \cup {None}]
      BY FileNames DEF Sequential, ToldOfTheRegistered
    <3> QED BY <3>1, <1>1, <1>2 DEF ToldIn
  <2>2. table \in Files!Offsets
    BY DEF Fair
  <2> QED BY <2>1, <2>2, <1>9 DEF Recorded, Distinct, ToldIn
<1>11. \A q \in Runs : RunKnows(q)'
  BY <1>5 DEF RunKnows
<1> QED
  BY <1>6, <1>8, <1>10, <1>11 DEF Sequential

LEMMA LookInv ==
  ASSUME NumNames <= MaxSlot, FilesInv, NEW r \in Runs, Files!Look(r), ~raced'
  PROVE  Sequential'
<1>1. /\ ~raced /\ run[r].pc = "look"
      /\ UNCHANGED <<registry, tmp, offsets, pins>>
  BY DEF Files!Look, Files!registryFiles
<1>2. Sequential /\ RunKnows(r)
  BY <1>1 DEF FilesInv, Sequential
<1>3. /\ Files!ReadOffsets = offsets /\ offsets \in Files!Offsets
      /\ Distinct(offsets) /\ ToldIn(offsets)
      /\ Fair(Files!Allocated(r), Files!Load, pins)
      /\ \A n \in Files!Load : pins[n] = None => Files!Allocated(r)[n] # None
  BY <1>1, <1>2, AllocatedKeepsTold
<1>4. CASE Files!Allocated(r) = Files!ReadOffsets
  <2>1. Files!Return(r, offsets) /\ Files!Busy(r)
    BY <1>1, <1>3, <1>4 DEF Files!Look, Files!Busy
  <2> QED BY <1>1, <1>2, <1>3, <1>4, <2>1, ReturnInv
<1>5. CASE Files!Allocated(r) # Files!ReadOffsets
  <2>1. run' = [run EXCEPT ![r].pc = "lock"] /\ told' = told
    BY <1>5 DEF Files!Look, Files!Goto
  <2>2. /\ run'[r] = [run[r] EXCEPT !.pc = "lock"]
        /\ \A q \in Runs : q # r => run'[q] = run[q] /\ run[q].pc = "idle"
    BY <1>1, <1>2, <2>1 DEF FilesInv, Sequential, OneRun, Files!Busy
  <2>3. Files!Load' = Files!Load
    BY <1>1 DEF Files!Load
  <2>4. OneRun'
    BY <1>1, <2>2 DEF OneRun, Files!Busy
  <2>5. ToldOfTheRegistered'
    BY <1>1, <1>2, <2>1, <2>3 DEF Sequential, ToldOfTheRegistered
  <2>6. Recorded'
    BY <1>1, <1>3, <2>1 DEF Recorded, Distinct, ToldIn
  <2>7. RunKnows(r)'
    <3>1. /\ run'[r].pc = "lock" /\ run'[r].names = run[r].names /\ run'[r].on = run[r].on
          /\ run'[r].name = run[r].name /\ run'[r].pinned = run[r].pinned
      BY <2>2, <1>1
    <3> QED BY <1>1, <1>2, <2>3, <3>1 DEF RunKnows
  <2>8. ASSUME NEW q \in Runs PROVE RunKnows(q)'
    BY <1>1, <1>2, <2>2, <2>7 DEF Sequential, RunKnows
  <2> QED BY <1>1, <1>2, <2>4, <2>5, <2>6, <2>8 DEF Sequential
<1> QED BY <1>4, <1>5

LEMMA LockInv ==
  ASSUME NumNames <= MaxSlot, FilesInv, NEW r \in Runs, Files!Lock(r), ~raced'
  PROVE  Sequential'
<1>1. ~raced /\ run[r].pc = "lock" /\ UNCHANGED <<registry, tmp, pins>>
  BY DEF Files!Lock, Files!registryFiles
<1>2. Sequential /\ RunKnows(r)
  BY <1>1 DEF FilesInv, Sequential
<1>3. /\ Files!ReadOffsets = offsets /\ offsets \in Files!Offsets
      /\ Distinct(offsets) /\ ToldIn(offsets)
      /\ Fair(Files!Allocated(r), Files!Load, pins) /\ ToldIn(Files!Allocated(r))
      /\ \A n \in Files!Load : pins[n] = None => Files!Allocated(r)[n] # None
  BY <1>1, <1>2, AllocatedKeepsTold
<1>4. CASE Files!Allocated(r) = Files!ReadOffsets
  <2>1. Files!Return(r, offsets) /\ Files!Busy(r) /\ offsets' = offsets
    BY <1>1, <1>3, <1>4 DEF Files!Lock, Files!Busy
  <2> QED BY <1>1, <1>2, <1>3, <1>4, <2>1, ReturnInv
<1>5. CASE Files!Allocated(r) # Files!ReadOffsets
  <2>1. /\ run' = [run EXCEPT ![r].pc = "dump", ![r].next = Files!Allocated(r)]
        /\ told' = told /\ offsets' = Torn
    BY <1>5 DEF Files!Lock
  <2>2. /\ run'[r] = [run[r] EXCEPT !.pc = "dump", !.next = Files!Allocated(r)]
        /\ \A q \in Runs : q # r => run'[q] = run[q] /\ run[q].pc = "idle"
    BY <1>1, <1>2, <2>1 DEF FilesInv, Sequential, OneRun, Files!Busy
  <2>3. Files!Load' = Files!Load
    BY <1>1 DEF Files!Load
  <2>4. OneRun'
    BY <1>1, <2>2 DEF OneRun, Files!Busy
  <2>5. ToldOfTheRegistered'
    BY <1>1, <1>2, <2>1, <2>3 DEF Sequential, ToldOfTheRegistered
  <2>6. RunKnows(r) /\ run[r].name \in Files!Load
    BY <1>1, <1>2 DEF RunKnows
  <2>7. RunKnows(r)'
    <3>1. /\ run'[r].pc = "dump" /\ run'[r].next = Files!Allocated(r)
          /\ run'[r].names = run[r].names /\ run'[r].on = run[r].on
          /\ run'[r].name = run[r].name /\ run'[r].pinned = run[r].pinned
      BY <2>2, <1>1
    <3>2. Fair(run[r].next, Files!Load, pins)'
      BY <1>1, <1>3, <2>3, <3>1 DEF Fair
    <3>3. ToldIn(run[r].next)'
      BY <1>1, <1>3, <2>1, <3>1 DEF ToldIn
    <3>4. \A n \in Files!Load : pins'[n] = None => run'[r].next[n] # None
      BY <1>1, <1>3, <3>1
    <3> QED BY <1>1, <1>2, <2>3, <3>1, <3>2, <3>3, <3>4 DEF RunKnows
  <2>8. ASSUME NEW q \in Runs PROVE RunKnows(q)'
    <3>1. CASE q = r
      BY <2>7, <3>1
    <3>2. CASE q # r
      <4>1. RunKnows(q) /\ run'[q] = run[q] /\ run[q].pc = "idle"
        BY <1>2, <2>2, <3>2 DEF Sequential
      <4> QED BY <4>1 DEF RunKnows
    <3> QED BY <3>1, <3>2
  <2>9. Recorded'
    <3>1. run'[r].pc = "dump"
      BY <2>2, <1>1
    <3> QED BY <3>1 DEF Recorded
  <2> QED BY <1>1, <1>2, <2>4, <2>5, <2>8, <2>9 DEF Sequential
<1> QED BY <1>4, <1>5

LEMMA DumpInv ==
  ASSUME FilesInv, NEW r \in Runs, Files!Dump(r), ~raced'
  PROVE  Sequential'
<1>1. ~raced /\ run[r].pc = "dump" /\ UNCHANGED <<registry, tmp, pins>>
  BY DEF Files!Dump, Files!registryFiles
<1>2. Sequential /\ RunKnows(r)
  BY <1>1 DEF FilesInv, Sequential
<1>3. /\ Fair(run[r].next, Files!Load, pins) /\ ToldIn(run[r].next)
      /\ \A n \in Files!Load : pins[n] = None => run[r].next[n] # None
  BY <1>1, <1>2 DEF RunKnows
<1>4. Files!Return(r, run[r].next) /\ Files!Busy(r) /\ offsets' = run[r].next
  BY <1>1 DEF Files!Dump, Files!Busy
<1> QED BY <1>1, <1>2, <1>3, <1>4, ReturnInv

LEMMA RepinInv ==
  ASSUME FilesInv, Files!Repin, ~raced'
  PROVE  Sequential'
<1>1. /\ ~raced /\ UNCHANGED <<registry, tmp, offsets, run>> /\ told' = Files!NoOffsets
      /\ \A r \in Runs : run[r].pc = "idle"
  BY DEF Files!Repin, Files!registryFiles, Files!Busy
<1>2. Sequential
  BY <1>1 DEF FilesInv
<1>3. told' \in Files!Offsets /\ \A n \in Files!Names : told'[n] = None
  BY <1>1, FileNames DEF Files!NoOffsets
<1>4. OneRun'
  BY <1>1 DEF OneRun, Files!Busy
<1>5. ToldOfTheRegistered'
  BY <1>3 DEF ToldOfTheRegistered
<1>6. Recorded'
  BY <1>1, <1>2, <1>3 DEF Sequential, Recorded, Distinct, ToldIn
<1>7. \A q \in Runs : RunKnows(q)'
  BY <1>1, <1>2 DEF Sequential, RunKnows
<1> QED BY <1>1, <1>2, <1>4, <1>5, <1>6, <1>7 DEF Sequential

LEMMA FilesStepInv ==
  ASSUME NumNames <= MaxSlot, FilesInv, [Files!Next]_(Files!vars)
  PROVE  FilesInv'
<1>1. pins' \in FilePinnings /\ DOMAIN run' = Runs
  <2>1. CASE Files!Repin
    BY <2>1 DEF Files!Repin, FilesInv
  <2>2. CASE UNCHANGED Files!vars
    BY <2>2 DEF Files!vars, FilesInv
  <2>3. ASSUME NEW r \in Runs, Files!Start(r) \/ Files!GoOn(r) \/ Files!Kill(r)
        PROVE  pins' = pins /\ DOMAIN run' = Runs
    BY <2>3 DEF FilesInv, Files!Start, Files!GoOn, Files!Kill, Files!Ask, Files!Register,
         Files!Unregister, Files!Change, Files!Enter, Files!Open, Files!Fill, Files!Replace,
         Files!Look, Files!Lock, Files!Dump, Files!Return, Files!Goto
  <2> QED BY <2>1, <2>2, <2>3 DEF Files!Next, FilesInv
<1>2. ASSUME ~raced' PROVE Sequential'
  <2>1. CASE UNCHANGED Files!vars
    <3>1. UNCHANGED <<registry, tmp, offsets, pins, run, told, raced>>
      BY <2>1 DEF Files!vars, Files!registryFiles
    <3> QED
      BY <1>2, <3>1 DEF FilesInv, Sequential, OneRun, Files!Busy, ToldOfTheRegistered, Recorded,
           RunKnows, Files!Load, Distinct, ToldIn, Fair
  <2>2. ASSUME NEW r \in Runs, NEW n \in Files!Names,
               Files!Ask(r, n) \/ Files!Register(r, n) \/ Files!Unregister(r, n)
        PROVE  Sequential'
    BY <1>2, <2>2, AskInv, ChangeInv
  <2>3. ASSUME NEW r \in Runs, Files!GoOn(r) PROVE Sequential'
    BY <1>2, <2>3, OpenInv, FillInv, ReplaceInv, LookInv, LockInv, DumpInv DEF Files!GoOn
  <2>4. ASSUME NEW r \in Runs, Files!Kill(r) PROVE FALSE
    BY <1>2, <2>4 DEF Files!Kill
  <2> QED BY <1>2, <2>1, <2>2, <2>3, <2>4, RepinInv DEF Files!Next, Files!Start
<1> QED BY <1>1, <1>2 DEF FilesInv

(* Of any number of names and runs, as long as there is a slot for each    *)
(* name: while runs do not overlap and none dies, the ports given for two  *)
(* registered worktrees are not the same, whatever is registered, removed  *)
(* and pinned in between (worktree_registry.offsets: "so two `fy` runs     *)
(* can't hand one slot to two worktrees").                                 *)
THEOREM PortsAreNotShared == NumNames <= MaxSlot => (Files!Spec => []UnracedNoPortTwice)
<1> SUFFICES ASSUME NumNames <= MaxSlot PROVE Files!Spec => []UnracedNoPortTwice
  OBVIOUS
<1>1. FilesInv => UnracedNoPortTwice
  <2> SUFFICES ASSUME FilesInv, ~raced, NEW m \in Files!Load, NEW n \in Files!Load,
                      Files!SharedBy(m, n)
               PROVE  FALSE
    BY DEF UnracedNoPortTwice, Files!UnracedNoPortTwice, Files!NoPortTwice
  <2>1. Sequential /\ m # n /\ told[m] # None /\ told[m] = told[n]
    BY DEF FilesInv, Files!SharedBy
  <2>2. m \in Files!Names /\ n \in Files!Names
    BY <2>1, LoadedNames DEF Sequential
  <2>3. pins \in Files!Offsets /\ Distinct(pins)
    BY PinsAndHash DEF FilesInv
  <2>4. \E t : Distinct(t) /\ ToldIn(t)
    <3>1. CASE \A r \in Runs : run[r].pc # "dump"
      BY <2>1, <3>1 DEF Sequential, Recorded
    <3>2. ASSUME NEW r \in Runs, run[r].pc = "dump" PROVE \E t : Distinct(t) /\ ToldIn(t)
      <4>1. Fair(run[r].next, Files!Load, pins) /\ ToldIn(run[r].next)
        BY <2>1, <3>2 DEF Sequential, RunKnows
      <4>2. Distinct(run[r].next)
        BY <4>1 DEF Fair, Distinct
      <4> QED BY <4>1, <4>2
    <3> QED BY <3>1, <3>2
  <2>5. \A k \in Files!Names : pins[k] # None => pins[k] \in Files!Held(pins)
    BY DEF Files!Held
  <2> QED BY <2>1, <2>2, <2>3, <2>4, <2>5 DEF Sequential, ToldOfTheRegistered, Distinct, ToldIn
<1>2. FilesInv /\ [Files!Next]_(Files!vars) => FilesInv'
  BY FilesStepInv
<1> QED
  BY <1>1, <1>2, FilesInitInv, PTL DEF Files!Spec
====
