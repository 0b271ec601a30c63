---------------------------- MODULE ConfigPinProofs ----------------------------
(***************************************************************************)
(* Proofs about module ConfigPin, for any checkouts, files, sessions and   *)
(* agendas: what a turn of the supervisor runs was shown to the operator   *)
(* and is one set of files, whole; and the pins implement AdoptedConfig.   *)
(* And about AgentSessions, for any terminals and names: a resumed agent   *)
(* goes on with its conversation, alone.  And about SinkFile, for any      *)
(* files, batches and rounds: a check of a signed file is right.           *)
(***************************************************************************)
EXTENDS MCPins, Integers, FiniteSetTheorems, SequenceTheorems, WellFoundedInduction, TLAPS

(* What is left of a generation is some of the files it was written with.  *)
Steady(gn) == gn.left \subseteq {f \in Files : gn.files[f] # Absent}

(* A session that is past its review has shown a tree, or is `config       *)
(* adopt', which shows nothing; one that is about to publish read what it  *)
(* showed.                                                                 *)
Reviewed(r) ==
  /\ r.pc \in {"reinspect", "reread", "check", "publish"} => r.kind = "explicit" \/ r.shown # Nothing
  /\ r.pc = "publish" => r.shown = Nothing \/ r.tree = r.shown

(* Every generation holds what was shown, and so will the next one.        *)
Shown ==
  /\ \A c \in Checkouts : \A g \in DOMAIN gens[c] : gens[c][g].files = gens[c][g].shown
  /\ \A s \in Sessions : Reviewed(sess[s])

(* Generation numbers are minted once: no two adoptions work on one.       *)
Numbered ==
  /\ \A c \in Checkouts : marker[c] <= minted
  /\ \A s \in Sessions : sess[s].gen <= minted /\ sess[s].doomed \subseteq 1..minted
  /\ \A s, t \in Sessions :
       s # t /\ sess[s].pc \in {"mark", "prune"} /\ sess[t].pc \in {"mark", "prune"} =>
         sess[s].gen # sess[t].gen
  /\ tick.gen <= minted

(* No generation holds more than was written; of two that are whole the    *)
(* later is the younger; and the times have a bound.                       *)
Dated ==
  /\ \A c \in Checkouts : \A g \in DOMAIN gens[c] : Steady(gens[c][g])
  /\ \A c \in Checkouts : \A g, h \in DOMAIN gens[c] :
       Whole(gens[c][g]) /\ Whole(gens[c][h]) /\ g < h => gens[c][g].mtime < gens[c][h].mtime
  /\ \E n \in Nat : \A c \in Checkouts : \A g \in DOMAIN gens[c] : gens[c][g].mtime <= n

(* The session deletes generations of the checkout.                        *)
Deleting(s, c) == sess[s].at = c /\ sess[s].pc \in {"delete", "raze"}

(* Where no two adoptions crossed: the marker names the latest whole       *)
(* generation, at most a later one waits to be named, and neither is about *)
(* to be deleted.                                                          *)
Uncrossed(c) ==
  /\ Selected(c) => /\ Whole(gens[c][marker[c]]) /\ gens[c][marker[c]].named
                    /\ gens[c][marker[c]].files \in adopted[c]
                    /\ \A x \in DOMAIN gens[c] : gens[c][x].named => x <= marker[c]
  /\ \A w \in Waiting(c) : /\ Whole(gens[c][w])
                           /\ \A x \in DOMAIN gens[c] : gens[c][x].named => x < w
  /\ \A s \in Sessions : Deleting(s, c) => sess[s].doomed \cap (Waiting(c) \cup {marker[c]}) = {}

(* The generation a turn reads is whole and stays so: the marker names it, *)
(* or moved on once since, and then the adoption that moved it on keeps it *)
(* as the latest of the rest.                                              *)
Kept(c, g) ==
  /\ g \in DOMAIN gens[c] /\ Whole(gens[c][g]) /\ gens[c][g].named /\ gens[c][g].files \in adopted[c]
  /\ \/ tick.moves = 0 /\ marker[c] = g
     \/ /\ tick.moves = 1 /\ marker[c] # g
        /\ \A s \in Sessions : Deleting(s, c) => g \notin sess[s].doomed
        /\ \A x \in DOMAIN gens[c] \ {marker[c]} : gens[c][x].named => x <= g

(* The turn is one the promise is about.                                   *)
Told(r) == r.moves < 2 /\ ~r.misled

(* A turn reads the generation it found under the marker, file by file,    *)
(* and reports and runs one that was adopted, or none.                     *)
Reading ==
  LET c == tick.at
      g == tick.gen
  IN  c \notin crossed /\ Told(tick) =>
        /\ tick.pc = "dir" => /\ g \in DOMAIN gens[c] => Kept(c, g)
                              /\ tick.moves = 0 => marker[c] = g
                              /\ tick.cfg = NoFiles
        /\ tick.pc = "files" =>
             /\ Kept(c, g)
             /\ \A f \in Files : \/ tick.cfg[f] = gens[c][g].files[f]
                                 \/ \E i \in DOMAIN tick.todo : tick.todo[i] = f
        /\ tick.pc \in {"report", "runs"} => tick.cfg \in adopted[c] \cup {NoFiles}

(* The inductive invariant.                                                *)
IInv ==
  /\ TypeOK /\ Shown /\ Numbered /\ Dated
  /\ \A c \in Checkouts \ crossed : Uncrossed(c)
  /\ Reading

-----------------------------------------------------------------------------
(* A set of numbers with a bound has a greatest one: Now finds a latest    *)
(* time to be later than.                                                  *)
LEMMA GreatestExists ==
  ASSUME NEW S \in SUBSET Nat, NEW b \in Nat, S # {}, \A x \in S : x <= b
  PROVE \E m \in S : \A x \in S : x <= m
<1> DEFINE Gaps == {k \in Nat : \E x \in S : k = b - x}
<1>1. Gaps \subseteq Nat /\ Gaps # {}
  <2>1. PICK x \in S : TRUE
    OBVIOUS
  <2>2. b - x \in Gaps
    BY <2>1
  <2> QED
    BY <2>2
<1>2. PICK k \in Gaps : \A j \in Gaps : <<j, k>> \notin OpToRel(<, Nat)
  <2> HIDE DEF Gaps
  <2> QED
    BY <1>1, WFMin, NatLessThanWellFounded
<1>3. \A j \in Gaps : ~(j < k)
  <2> SUFFICES ASSUME NEW j \in Gaps, j < k PROVE FALSE
    OBVIOUS
  <2>1. <<j, k>> \in OpToRel(<, Nat)
    BY <1>1 DEF OpToRel
  <2> QED
    BY <1>2, <2>1
<1>4. PICK m \in S : k = b - m
  OBVIOUS
<1>5. ASSUME NEW x \in S PROVE x <= m
  <2>1. b - x \in Gaps
    OBVIOUS
  <2> QED
    BY <1>3, <1>4, <2>1
<1> QED
  BY <1>5

(* What is written or deleted now is dated after every generation there    *)
(* is, and by no more than one.                                            *)
LEMMA NowIsLater ==
  ASSUME TypeOK, NEW c \in Checkouts, NEW n \in Nat, \A g \in DOMAIN gens[c] : gens[c][g].mtime <= n
  PROVE Now(c) \in Nat /\ Now(c) <= n + 1 /\ \A g \in DOMAIN gens[c] : gens[c][g].mtime < Now(c)
<1>1. CASE DOMAIN gens[c] = {}
  BY <1>1 DEF Now
<1>2. CASE DOMAIN gens[c] # {}
  <2> DEFINE Times == {gens[c][g].mtime : g \in DOMAIN gens[c]}
  <2>0. \A g \in DOMAIN gens[c] : gens[c][g].mtime \in Nat
    BY DEF TypeOK, GenSet
  <2>1. Times \in SUBSET Nat /\ Times # {} /\ \A x \in Times : x <= n
    BY <1>2, <2>0
  <2>2. PICK m \in Times : \A x \in Times : x <= m
    BY <2>1, GreatestExists
  <2>3. PICK g \in DOMAIN gens[c] : m = gens[c][g].mtime
    BY <2>2
  <2>4. g \in Youngest(c)
    BY <2>2, <2>3 DEF Youngest
  <2> DEFINE y == CHOOSE y \in Youngest(c) : TRUE
  <2>5. y \in Youngest(c)
    BY <2>4
  <2>6. y \in DOMAIN gens[c] /\ \A h \in DOMAIN gens[c] : gens[c][h].mtime <= gens[c][y].mtime
    BY <2>5 DEF Youngest
  <2>7. Now(c) = 1 + gens[c][y].mtime
    BY <1>2 DEF Now
  <2> HIDE DEF y
  <2> QED
    BY <2>0, <2>6, <2>7
<1> QED
  BY <1>1, <1>2

(* Taking one file off a list leaves the rest.                             *)
LEMMA TakingOne ==
  ASSUME NEW S, NEW q \in Seq(S), q # <<>>
  PROVE /\ Head(q) \in S /\ Tail(q) \in Seq(S)
        /\ \A i \in DOMAIN q : q[i] = Head(q) \/ \E j \in DOMAIN Tail(q) : Tail(q)[j] = q[i]
<1>1. Head(q) \in S /\ Tail(q) \in Seq(S) /\ Len(q) \in Nat \ {0} /\ DOMAIN q = 1..Len(q)
  OBVIOUS
<1>2. DOMAIN Tail(q) = 1..(Len(q) - 1) /\ \A j \in 1..(Len(q) - 1) : Tail(q)[j] = q[j + 1]
  OBVIOUS
<1>3. ASSUME NEW i \in DOMAIN q PROVE q[i] = Head(q) \/ \E j \in DOMAIN Tail(q) : Tail(q)[j] = q[i]
  <2>1. CASE i = 1
    BY <2>1
  <2>2. CASE i # 1
    <3>1. i - 1 \in 1..(Len(q) - 1) /\ (i - 1) + 1 = i
      BY <1>1, <1>3, <2>2
    <3> QED
      BY <1>2, <3>1
  <2> QED
    BY <2>1, <2>2
<1> QED
  BY <1>1, <1>3

(* There is at least the shared file to read.                              *)
LEMMA FilesToRead == FileOrder \in Seq(Files) /\ FileOrder # <<>>
  BY FilesAssumption

-----------------------------------------------------------------------------
(* At first nothing is adopted, or every checkout as it stands.            *)
LEMMA InitInv == Init => IInv
<1> SUFFICES ASSUME Init PROVE IInv
  OBVIOUS
<1> USE DEF Init
<1>1. PICK held \in {{}, {c \in Checkouts : tree[c] # NoFiles}} :
        /\ marker = [c \in Checkouts |-> IF c \in held THEN 1 ELSE 0]
        /\ gens = [c \in Checkouts |-> [g \in (IF c \in held THEN {1} ELSE {}) |-> Earlier(tree[c])]]
        /\ adopted = [c \in Checkouts |-> IF c \in held THEN {tree[c]} ELSE {}]
  OBVIOUS
<1>2. tree \in [Checkouts -> FileSet]
  BY TreesAssumption
<1>3. /\ NoFiles \in FileSet /\ Main \in Checkouts /\ <<>> \in Seq(Files)
  BY CheckoutsAssumption DEF NoFiles, FileSet, Bytes
<1>4. Idle \in Sess /\ Idle.pc = "idle" /\ Idle.gen = 0 /\ Idle.doomed = {}
  BY <1>3 DEF Idle, Sess, Steps, Kinds
<1>5. Resting.pc = "idle" /\ Resting.gen = 0
  BY DEF Resting
<1>6. ASSUME NEW c \in Checkouts, NEW g \in DOMAIN gens[c]
      PROVE c \in held /\ g = 1 /\ gens[c][g] = Earlier(tree[c])
  BY <1>1
<1>7. ASSUME NEW c \in Checkouts
      PROVE /\ Earlier(tree[c]) \in GenSet /\ Earlier(tree[c]).files = tree[c] /\ Whole(Earlier(tree[c]))
            /\ Earlier(tree[c]).shown = tree[c] /\ Earlier(tree[c]).named /\ Earlier(tree[c]).mtime = 1
            /\ Steady(Earlier(tree[c]))
  BY <1>2 DEF Earlier, GenSet, Whole, Steady
<1>8. TypeOK
  <2>1. DOMAIN gens = Checkouts /\ \A c \in Checkouts : DOMAIN gens[c] \subseteq 1..minted
          /\ \A g \in DOMAIN gens[c] : gens[c][g] \in GenSet
    BY <1>1, <1>6, <1>7
  <2>2. /\ marker \in [Checkouts -> Nat] /\ adopted \in [Checkouts -> SUBSET FileSet] /\ minted \in Nat
    BY <1>1, <1>2
  <2>3. sess \in [Sessions -> Sess] /\ \A s \in Sessions : sess[s].pc = "idle"
    BY <1>4
  <2>4. tick \in [pc : {"idle", "dir", "files", "report", "runs"}, at : Checkouts, gen : Nat,
                  todo : Seq(Files), cfg : FileSet, moves : 0..2, misled : BOOLEAN]
    BY <1>3 DEF Resting
  <2>5. /\ agenda \in Seq(Task) /\ edits \in 0..MaxEdits /\ kills \in 0..MaxKills /\ crossed \subseteq Checkouts
    BY AgendasAssumption, BoundsAssumption
  <2> QED
    BY <1>2, <1>5, <2>1, <2>2, <2>3, <2>4, <2>5 DEF TypeOK
<1>9. Shown
  BY <1>4, <1>6, <1>7 DEF Shown, Reviewed
<1>10. Numbered
  BY <1>1, <1>4, <1>5 DEF Numbered
<1>11. Dated
  <2>1. \A c \in Checkouts : \A g \in DOMAIN gens[c] : gens[c][g].mtime <= 1 /\ Steady(gens[c][g])
    BY <1>6, <1>7
  <2>2. \A c \in Checkouts : \A g, h \in DOMAIN gens[c] : ~(g < h)
    BY <1>6
  <2> QED
    BY <2>1, <2>2 DEF Dated
<1>12. ASSUME NEW c \in Checkouts PROVE Uncrossed(c)
  <2>1. Waiting(c) = {}
    BY <1>6, <1>7 DEF Waiting
  <2>2. \A s \in Sessions : ~Deleting(s, c)
    BY <1>4 DEF Deleting
  <2>3. ASSUME Selected(c)
        PROVE /\ Whole(gens[c][marker[c]]) /\ gens[c][marker[c]].named
              /\ gens[c][marker[c]].files \in adopted[c]
              /\ \A x \in DOMAIN gens[c] : gens[c][x].named => x <= marker[c]
    BY <1>1, <1>6, <1>7, <2>3 DEF Selected
  <2> QED
    BY <2>1, <2>2, <2>3 DEF Uncrossed
<1>13. Reading
  BY <1>5 DEF Reading
<1> QED
  BY <1>8, <1>9, <1>10, <1>11, <1>12, <1>13 DEF IInv

(* A step of one session that leaves the pins, and the supervisor's turn,  *)
(* alone, and after which the session is not in the middle of an adoption  *)
(* or of a deletion.                                                       *)
Quiet(s, r) ==
  /\ r \in Sess /\ sess' = [sess EXCEPT ![s] = r]
  /\ r.pc \notin {"mark", "prune", "delete", "raze"}
  /\ Reviewed(r) /\ r.gen <= minted /\ r.doomed \subseteq 1..minted
  /\ r.pc \in {"read", "reread", "restore"} => r.todo # <<>>
  /\ r.pc = "restore" => r.pinned # Nothing
  /\ tree' \in [Checkouts -> FileSet] /\ agenda' \in Seq(Task)
  /\ edits' \in 0..MaxEdits /\ kills' \in 0..MaxKills
  /\ UNCHANGED <<pins, tick, history>>

(* What is true of the pins alone stays true while they are left alone.    *)
LEMMA PinsAlone ==
  ASSUME UNCHANGED <<pins, history>>, NEW c \in Checkouts
  PROVE /\ Selected(c)' = Selected(c) /\ Waiting(c)' = Waiting(c)
        /\ PinOf(c)' = PinOf(c) /\ \A g : Superseded(c, g)' = Superseded(c, g)
BY DEF pins, history, Selected, Waiting, PinOf, Superseded, View

LEMMA QuietInv ==
  ASSUME IInv, NEW s \in Sessions, NEW r, Quiet(s, r)
  PROVE IInv'
<1> USE DEF Quiet, pins, history
<1>0. sess \in [Sessions -> Sess] /\ tick.at \in Checkouts
  BY DEF IInv, TypeOK
<1>1. sess'[s] = r /\ \A t \in Sessions : t # s => sess'[t] = sess[t]
  BY <1>0
<1>2. TypeOK'
  BY <1>1 DEF IInv, TypeOK
<1>3. Shown'
  BY <1>1 DEF IInv, Shown
<1>4. Numbered'
  BY <1>1 DEF IInv, Numbered
<1>5. Dated'
  BY DEF IInv, Dated
<1>6. \A t \in Sessions, c \in Checkouts : Deleting(t, c)' => t # s /\ Deleting(t, c) /\ sess'[t] = sess[t]
  BY <1>1 DEF Deleting
<1>7. \A c \in Checkouts \ crossed : Uncrossed(c)'
  BY <1>6, PinsAlone DEF IInv, Uncrossed
<1>8. \A g : Kept(tick.at, g) => Kept(tick.at, g)'
  BY <1>6, <1>0 DEF Kept
<1>9. Reading'
  BY <1>8 DEF IInv, Reading, Told
<1> QED
  BY <1>2, <1>3, <1>4, <1>5, <1>7, <1>9 DEF IInv

-----------------------------------------------------------------------------
(* The sessions' quiet steps: all that comes before a generation is        *)
(* published and after the last one is deleted, being killed included.     *)
QuietStep(s) ==
  \/ Start(s) \/ Inspect(s) \/ ReadTree(s) \/ Measure(s)
  \/ AdoptUnasked(s) \/ SaysAdopt(s) \/ SaysRevert(s) \/ SaysShare(s) \/ Leaves(s)
  \/ Check(s) \/ Adopted(s) \/ Restore(s) \/ Razed(s) \/ CheckOut(s) \/ Killed(s)

(* What a pin holds is a set of files, or nothing.                         *)
LEMMA PinIsFiles ==
  ASSUME TypeOK, NEW c \in Checkouts
  PROVE PinOf(c) \in FileSet \cup {Nothing}
BY DEF TypeOK, PinOf, Selected, View, GenSet, FileSet, Bytes

LEMMA QuietStepInv ==
  ASSUME IInv, NEW s \in Sessions, QuietStep(s)
  PROVE IInv'
<1> DEFINE r == sess[s]
<1>0. /\ r \in Sess /\ r.at \in Checkouts /\ r.tree \in FileSet
      /\ sess \in [Sessions -> Sess] /\ tree \in [Checkouts -> FileSet]
      /\ agenda \in Seq(Task) /\ edits \in 0..MaxEdits /\ kills \in 0..MaxKills
      /\ Reviewed(r) /\ r.gen <= minted /\ r.doomed \subseteq 1..minted
      /\ r.pc \in {"read", "reread", "restore"} => r.todo # <<>>
      /\ r.pc = "restore" => r.pinned # Nothing
      /\ minted \in Nat
  BY DEF IInv, TypeOK, Shown, Numbered, Sess
<1>a. /\ Idle \in Sess /\ Idle.pc = "idle" /\ Idle.gen = 0 /\ Idle.doomed = {} /\ Idle.shown = Nothing
      /\ NoFiles \in FileSet
  BY CheckoutsAssumption DEF Idle, Sess, Steps, Kinds, NoFiles, FileSet, Bytes
<1>b. Main \in Checkouts /\ Shared \in Files
  BY CheckoutsAssumption, FilesAssumption
<1>c. \A c \in Checkouts : PinOf(c) \in FileSet \cup {Nothing} /\ Baseline(c) \in FileSet \cup {Nothing}
  BY <1>b, PinIsFiles DEF IInv, Baseline
<1>d. \A files \in FileSet : files # Nothing
  BY NothingAssumption
<1> SUFFICES \E n : Quiet(s, n)
  BY QuietInv
<1> HIDE DEF r
<1> USE DEF Quiet, Becomes, Goes, Ends, At, pins, history
<1>1. CASE Start(s)
  <2> DEFINE k == Head(agenda)
  <2>1. agenda # <<>>
    BY <1>1 DEF Start
  <2>2. k \in Task /\ Tail(agenda) \in Seq(Task)
    BY <1>0, <2>1, TakingOne
  <2> DEFINE n == [Idle EXCEPT !.kind = k.kind, !.at = k.at,
                     !.pc = CASE k.kind = "explicit"             -> "reinspect"
                              [] k.kind \in {"add", "remove"}    -> "forget"
                              [] OTHER                           -> "inspect"]
  <2>3. sess' = [sess EXCEPT ![s] = n] /\ UNCHANGED <<tree, pins, tick, history, edits, kills>> /\ agenda' = Tail(agenda)
    BY <1>1 DEF Start
  <2>4. k.kind \in Kinds /\ k.at \in Checkouts
    BY <2>2 DEF Task
  <2> HIDE DEF k
  <2>5. /\ n \in Sess /\ n.pc \in {"reinspect", "forget", "inspect"} /\ n.gen = 0 /\ n.doomed = {}
        /\ n.pc = "reinspect" => n.kind = "explicit"
    BY <1>a, <2>4 DEF Sess, Idle, Steps, Kinds
  <2> HIDE DEF n
  <2>6. Quiet(s, n)
    BY <1>0, <2>2, <2>3, <2>5 DEF Reviewed
  <2> QED
    BY <2>6
<1>2. CASE Inspect(s)
  <2> DEFINE pinned == IF r.pc = "inspect" THEN PinOf(r.at) ELSE Nothing
             pc == IF r.pc = "inspect" THEN "read" ELSE "reread"
             n == [r EXCEPT !.tree = NoFiles, !.todo = FileOrder, !.pinned = pinned, !.pc = pc]
  <2>1. /\ r.pc \in {"inspect", "reinspect"} /\ sess' = [sess EXCEPT ![s] = n]
        /\ UNCHANGED <<tree, pins, tick, agenda, history, edits, kills>>
    BY <1>2, <1>0 DEF Inspect, r
  <2>2. pinned \in FileSet \cup {Nothing} /\ pc \in {"read", "reread"} /\ (pc = "reread" <=> r.pc = "reinspect")
    BY <1>0, <1>c, <2>1
  <2> HIDE DEF pinned, pc
  <2>3. /\ n \in Sess /\ n.pc = pc /\ n.todo # <<>> /\ n.kind = r.kind /\ n.shown = r.shown
        /\ n.gen = r.gen /\ n.doomed = r.doomed
    BY <1>0, <1>a, <2>2, FilesToRead DEF Sess, Steps
  <2> HIDE DEF n
  <2>4. Quiet(s, n)
    BY <1>0, <2>1, <2>2, <2>3 DEF Reviewed
  <2> QED
    BY <2>4
<1>3. CASE ReadTree(s)
  <2> DEFINE f == Head(r.todo)
             seen == [r EXCEPT !.tree[f] = tree[r.at][f], !.todo = Tail(r.todo)]
  <2>1. /\ r.pc \in {"read", "reread"}
        /\ \/ seen.todo # <<>> /\ sess' = [sess EXCEPT ![s] = seen]
           \/ sess' = [sess EXCEPT ![s] = AllRead(seen)]
        /\ UNCHANGED <<tree, pins, tick, agenda, history, edits, kills>>
    BY <1>3, <1>0 DEF ReadTree, r
  <2>2. f \in Files /\ Tail(r.todo) \in Seq(Files)
    BY <1>0, <2>1, TakingOne DEF Sess
  <2>3. tree[r.at][f] \in Bytes
    BY <1>0, <2>2 DEF FileSet
  <2> HIDE DEF f
  <2>4. /\ seen \in Sess /\ seen.pc = r.pc /\ seen.shown = r.shown /\ seen.kind = r.kind
        /\ seen.gen = r.gen /\ seen.doomed = r.doomed /\ seen.pinned = r.pinned
    BY <1>0, <2>2, <2>3 DEF Sess, FileSet
  <2> HIDE DEF seen
  <2> DEFINE n == AllRead(seen)
  <2>5. /\ n \in Sess /\ n.pc \in {"check", "measure", "idle", "restore"}
        /\ n = Idle \/ (n.gen = r.gen /\ n.doomed = r.doomed)
        /\ n.pc = "restore" => n.pinned # Nothing /\ n.todo # <<>>
        /\ n.pc = "check" => r.pc = "reread" /\ n.kind = r.kind /\ n.shown = r.shown
    <3>1. CASE r.pc = "reread"
      BY <1>0, <2>4, <3>1 DEF AllRead, Sess, Steps
    <3>2. CASE r.pc = "read" /\ r.kind # "revert"
      BY <1>0, <2>4, <3>2 DEF AllRead, Sess, Steps
    <3>3. CASE r.pc = "read" /\ r.kind = "revert" /\ r.pinned = Nothing
      BY <1>a, <2>4, <3>3 DEF AllRead
    <3>4. CASE r.pc = "read" /\ r.kind = "revert" /\ r.pinned # Nothing
      <4>1. n = [seen EXCEPT !.pc = "restore", !.todo = FileOrder]
        BY <2>4, <3>4 DEF AllRead
      <4> QED
        BY <2>4, <3>4, <4>1, FilesToRead DEF Sess, Steps
    <3> QED
      BY <2>1, <3>1, <3>2, <3>3, <3>4
  <2> HIDE DEF n
  <2>6. CASE seen.todo # <<>> /\ sess' = [sess EXCEPT ![s] = seen]
    <3>1. Quiet(s, seen)
      BY <1>0, <2>1, <2>4, <2>6 DEF Reviewed
    <3> QED
      BY <3>1
  <2>7. CASE sess' = [sess EXCEPT ![s] = n]
    <3>0. Reviewed(n) /\ n.gen <= minted /\ n.doomed \subseteq 1..minted
      BY <1>0, <1>a, <2>5 DEF Reviewed
    <3>1. Quiet(s, n)
      BY <1>0, <2>1, <2>5, <2>7, <3>0
    <3> QED
      BY <3>1
  <2> QED
    BY <2>1, <2>6, <2>7 DEF n
<1>4. CASE Measure(s)
  <2> DEFINE n == [r EXCEPT !.pc = "ask", !.base = IF r.pinned = Nothing THEN Baseline(r.at) ELSE Nothing]
  <2>1. n \in Sess /\ n.pc = "ask" /\ n.gen = r.gen /\ n.doomed = r.doomed
    BY <1>0, <1>c DEF Sess, Steps
  <2>2. Quiet(s, n)
    BY <1>4, <1>0, <2>1 DEF Measure, Reviewed, r
  <2> QED
    BY <2>2
<1>5. CASE AdoptUnasked(s) \/ SaysAdopt(s)
  <2> DEFINE n == [r EXCEPT !.pc = "reinspect", !.shown = r.tree]
             m == [r EXCEPT !.pc = "inspect", !.kind = "gate"]
  <2>1. /\ n \in Sess /\ n.pc = "reinspect" /\ n.gen = r.gen /\ n.doomed = r.doomed /\ n.shown # Nothing
        /\ m \in Sess /\ m.pc = "inspect" /\ m.gen = r.gen /\ m.doomed = r.doomed
    BY <1>0, <1>d DEF Sess, Steps, Kinds
  <2>2. /\ sess' = [sess EXCEPT ![s] = n] \/ sess' = [sess EXCEPT ![s] = m]
        /\ UNCHANGED <<tree, pins, tick, agenda, history, edits, kills>>
    BY <1>5 DEF AdoptUnasked, SaysAdopt, r
  <2> HIDE DEF n, m
  <2>3. Quiet(s, n) \/ Quiet(s, m)
    BY <1>0, <2>1, <2>2 DEF Reviewed
  <2> QED
    BY <2>3
<1>6. CASE SaysRevert(s)
  <2> DEFINE n == [r EXCEPT !.pc = "inspect", !.kind = "revert"]
  <2>1. n \in Sess /\ n.pc = "inspect" /\ n.gen = r.gen /\ n.doomed = r.doomed
    BY <1>0 DEF Sess, Steps, Kinds
  <2>2. Quiet(s, n)
    BY <1>6, <1>0, <2>1 DEF SaysRevert, Reviewed, r
  <2> QED
    BY <2>2
<1>7. CASE Leaves(s) \/ Adopted(s)
  <2>1. Quiet(s, Idle)
    BY <1>7, <1>0, <1>a DEF Leaves, Adopted, Reviewed
  <2> QED
    BY <2>1
<1>8. CASE SaysShare(s)
  <2>1. PICK b \in Contents \ {r.tree[Shared]} :
          LET edited == [r.tree EXCEPT ![Shared] = b]
          IN  /\ tree' = [tree EXCEPT ![r.at][Shared] = b]
              /\ \/ sess' = [sess EXCEPT ![s] = [r EXCEPT !.pc = "reinspect", !.shown = edited]]
                 \/ sess' = [sess EXCEPT ![s] = Idle]
              /\ UNCHANGED <<pins, tick, agenda, history, edits, kills>>
    BY <1>8 DEF SaysShare, r
  <2> DEFINE edited == [r.tree EXCEPT ![Shared] = b]
             n == [r EXCEPT !.pc = "reinspect", !.shown = edited]
  <2>2. edited \in FileSet /\ tree' \in [Checkouts -> FileSet]
    BY <1>0, <1>b, <2>1 DEF FileSet, Bytes
  <2> HIDE DEF edited
  <2>3. n \in Sess /\ n.pc = "reinspect" /\ n.gen = r.gen /\ n.doomed = r.doomed /\ n.shown # Nothing
    BY <1>0, <1>d, <2>2 DEF Sess, Steps
  <2>4. sess' = [sess EXCEPT ![s] = n] \/ sess' = [sess EXCEPT ![s] = Idle]
    BY <2>1 DEF edited
  <2> HIDE DEF n
  <2>5. Quiet(s, n) \/ Quiet(s, Idle)
    BY <1>0, <1>a, <2>1, <2>2, <2>3, <2>4 DEF Reviewed
  <2> QED
    BY <2>5
<1>9. CASE Check(s)
  <2> DEFINE n == [r EXCEPT !.pc = "publish"]
             m == [Idle EXCEPT !.at = r.at, !.pc = "inspect"]
  <2>1. /\ r.pc = "check" /\ UNCHANGED <<tree, pins, tick, agenda, history, edits, kills>>
        /\ \/ ~Stale(s) /\ sess' = [sess EXCEPT ![s] = n]
           \/ sess' = [sess EXCEPT ![s] = m]
           \/ sess' = [sess EXCEPT ![s] = Idle]
    BY <1>9 DEF Check, r
  <2>2. /\ n \in Sess /\ n.pc = "publish" /\ n.gen = r.gen /\ n.doomed = r.doomed
        /\ n.shown = r.shown /\ n.kind = r.kind /\ n.tree = r.tree
        /\ m \in Sess /\ m.pc = "inspect" /\ m.gen = 0 /\ m.doomed = {}
    BY <1>0, <1>a DEF Sess, Steps, Idle
  <2>3. ~Stale(s) => Reviewed(n)
    BY <1>0, <2>1, <2>2 DEF Stale, Reviewed, r
  <2> HIDE DEF n, m
  <2>4. Quiet(s, n) \/ Quiet(s, m) \/ Quiet(s, Idle)
    BY <1>0, <1>a, <2>1, <2>2, <2>3 DEF Reviewed
  <2> QED
    BY <2>4
<1>10. CASE Restore(s)
  <2> DEFINE f == Head(r.todo)
             n == [r EXCEPT !.todo = Tail(r.todo)]
  <2>1. /\ r.pc = "restore" /\ UNCHANGED <<pins, tick, agenda, history, edits, kills>>
        /\ tree' = tree \/ tree' = [tree EXCEPT ![r.at][f] = r.pinned[f]]
        /\ \/ sess' = [sess EXCEPT ![s] = Idle]
           \/ Tail(r.todo) # <<>> /\ sess' = [sess EXCEPT ![s] = n]
    BY <1>10 DEF Restore, r
  <2>2. f \in Files /\ Tail(r.todo) \in Seq(Files) /\ r.pinned \in FileSet
    BY <1>0, <2>1, TakingOne DEF Sess
  <2> HIDE DEF f
  <2>a. r.pinned[f] \in Bytes /\ tree[r.at] \in FileSet
    BY <1>0, <2>2 DEF FileSet
  <2>b. [tree[r.at] EXCEPT ![f] = r.pinned[f]] \in FileSet
    BY <2>2, <2>a DEF FileSet
  <2>3. tree' \in [Checkouts -> FileSet]
    BY <1>0, <2>1, <2>b
  <2>4. /\ n \in Sess /\ n.pc = "restore" /\ n.gen = r.gen /\ n.doomed = r.doomed
        /\ n.pinned = r.pinned /\ n.todo = Tail(r.todo)
    BY <1>0, <2>1, <2>2 DEF Sess
  <2> HIDE DEF n
  <2>5. Quiet(s, n) \/ Quiet(s, Idle)
    BY <1>0, <1>a, <2>1, <2>3, <2>4 DEF Reviewed
  <2> QED
    BY <2>5
<1>11. CASE Razed(s)
  <2> DEFINE n == [r EXCEPT !.pc = "checkout"]
  <2>1. n \in Sess /\ n.pc = "checkout" /\ n.gen = r.gen /\ n.doomed = r.doomed
    BY <1>0 DEF Sess, Steps
  <2>2. Quiet(s, n) \/ Quiet(s, Idle)
    BY <1>11, <1>0, <1>a, <2>1 DEF Razed, Reviewed, r
  <2> QED
    BY <2>2
<1>12. CASE CheckOut(s)
  <2> DEFINE n == [r EXCEPT !.pc = "inspect"]
  <2>1. n \in Sess /\ n.pc = "inspect" /\ n.gen = r.gen /\ n.doomed = r.doomed
    BY <1>0 DEF Sess, Steps
  <2>2. /\ sess' = [sess EXCEPT ![s] = n] /\ UNCHANGED <<pins, tick, agenda, history, edits, kills>>
        /\ tree' \in [Checkouts -> FileSet]
    BY <1>12, <1>0 DEF CheckOut, FileSet, Bytes, r
  <2>3. Quiet(s, n)
    BY <1>0, <2>1, <2>2 DEF Reviewed
  <2> QED
    BY <2>3
<1>13. CASE Killed(s)
  <2>1. kills' \in 0..MaxKills
    BY <1>13, <1>0, BoundsAssumption DEF Killed
  <2>2. Quiet(s, Idle)
    BY <1>13, <1>0, <1>a, <2>1 DEF Killed, Reviewed
  <2> QED
    BY <2>2
<1> QED
  BY <1>1, <1>2, <1>3, <1>4, <1>5, <1>6, <1>7, <1>8, <1>9, <1>10, <1>11, <1>12, <1>13 DEF QuietStep

-----------------------------------------------------------------------------
(* A checkout whose pin a step leaves alone, and whose deletions go on.    *)
Untouched(d) ==
  /\ gens'[d] = gens[d] /\ marker'[d] = marker[d] /\ adopted[d] \subseteq adopted'[d]
  /\ \A t \in Sessions : Deleting(t, d)' => Deleting(t, d) /\ sess'[t] = sess[t]

LEMMA UntouchedUncrossed ==
  ASSUME NEW d \in Checkouts, Uncrossed(d), Untouched(d)
  PROVE Uncrossed(d)'
BY DEF Untouched, Uncrossed, Selected, Waiting

LEMMA UntouchedReading ==
  ASSUME TypeOK, Reading, Untouched(tick.at), tick' = tick, crossed \subseteq crossed'
  PROVE Reading'
<1>1. \A g : Kept(tick.at, g) => Kept(tick.at, g)'
  BY DEF Kept, Untouched
<1> QED
  BY <1>1 DEF Reading, Told, Untouched

(* What a turn of the supervisor is told stays so while the generation it  *)
(* reads is kept.                                                          *)
LEMMA ReadingGoesOn ==
  ASSUME TypeOK, Reading, crossed \subseteq crossed', NEW c \in Checkouts, NEW g \in Nat, NEW pc,
         c = tick.at, g = tick.gen, pc = tick.pc,
         tick'.pc = pc, tick'.at = c, tick'.gen = g, tick'.cfg = tick.cfg, tick'.todo = tick.todo,
         Told(tick)' => Told(tick), adopted[c] \subseteq adopted'[c],
         g \in DOMAIN gens'[c] => g \in DOMAIN gens[c] /\ gens'[c][g].files = gens[c][g].files,
         pc \in {"dir", "files"} /\ tick'.moves = 0 => tick.moves = 0 /\ marker'[c] = marker[c],
         pc \in {"dir", "files"} /\ c \notin crossed' /\ Told(tick)' /\ Kept(c, g) => Kept(c, g)'
  PROVE Reading'
<1> SUFFICES ASSUME c \notin crossed', Told(tick)'
             PROVE /\ pc = "dir" => /\ g \in DOMAIN gens'[c] => Kept(c, g)'
                                    /\ tick'.moves = 0 => marker'[c] = g
                                    /\ tick'.cfg = NoFiles
                   /\ pc = "files" =>
                        /\ Kept(c, g)'
                        /\ \A f \in Files : \/ tick'.cfg[f] = gens'[c][g].files[f]
                                            \/ \E i \in DOMAIN tick'.todo : tick'.todo[i] = f
                   /\ pc \in {"report", "runs"} => tick'.cfg \in adopted'[c] \cup {NoFiles}
  BY DEF Reading
<1>1. c \notin crossed /\ Told(tick)
  OBVIOUS
<1>2. CASE pc = "dir"
  BY <1>1, <1>2 DEF Reading
<1>3. CASE pc = "files"
  <2>1. Kept(c, g) /\ Kept(c, g)'
    BY <1>1, <1>3 DEF Reading
  <2>2. gens'[c][g].files = gens[c][g].files
    BY <2>1 DEF Kept
  <2> QED
    BY <1>1, <1>3, <2>1, <2>2 DEF Reading
<1>4. CASE pc \in {"report", "runs"}
  BY <1>1, <1>4 DEF Reading
<1> QED
  BY <1>2, <1>3, <1>4

(* What every step of a session takes from the invariant.                  *)
LEMMA Facts ==
  ASSUME IInv, NEW s \in Sessions
  PROVE /\ sess[s] \in Sess /\ sess[s].at \in Checkouts /\ sess[s].tree \in FileSet /\ sess[s].gen \in Nat
        /\ sess \in [Sessions -> Sess] /\ minted \in Nat /\ marker \in [Checkouts -> Nat]
        /\ DOMAIN gens = Checkouts /\ tick.at \in Checkouts /\ crossed \subseteq Checkouts
        /\ \A c \in Checkouts : DOMAIN gens[c] \subseteq 1..minted
        /\ \A c \in Checkouts : \A g \in DOMAIN gens[c] : gens[c][g] \in GenSet /\ g \in Nat
BY DEF IInv, TypeOK, Sess

(* A new generation waits, and is the last and the latest.                 *)
LEMMA PublishInv ==
  ASSUME IInv, NEW s \in Sessions, Publish(s)
  PROVE IInv'
<1>a. PICK c \in Checkouts, new \in Nat, r \in Sess : c = sess[s].at /\ new = minted + 1 /\ r = sess[s]
  BY Facts
<1> DEFINE n == [Idle EXCEPT !.pc = "mark", !.at = c, !.gen = new]
<1>0. /\ r \in Sess /\ c \in Checkouts /\ r.tree \in FileSet /\ sess \in [Sessions -> Sess] /\ minted \in Nat
      /\ DOMAIN gens = Checkouts /\ crossed \subseteq Checkouts /\ tick.at \in Checkouts
      /\ \A d \in Checkouts : DOMAIN gens[d] \subseteq 1..minted
      /\ \A d \in Checkouts : \A g \in DOMAIN gens[d] : gens[d][g] \in GenSet /\ g \in Nat
  BY <1>a, Facts
<1>1. PICK b \in Nat : \A d \in Checkouts : \A g \in DOMAIN gens[d] : gens[d][g].mtime <= b
  BY DEF IInv, Dated
<1>2. Now(c) \in Nat /\ Now(c) <= b + 1 /\ \A g \in DOMAIN gens[c] : gens[c][g].mtime < Now(c)
  BY <1>0, <1>1, NowIsLater DEF IInv
<1>3. /\ r.pc = "publish" /\ minted' = new /\ sess' = [sess EXCEPT ![s] = n]
      /\ gens' = [gens EXCEPT ![c] = [g \in DOMAIN gens[c] \cup {new} |->
                                        IF g = new THEN Generation(r) ELSE gens[c][g]]]
      /\ UNCHANGED <<tree, marker, tick, agenda, history, edits, kills>>
  BY <1>a DEF Publish, At, Becomes
<1>4. /\ DOMAIN gens'[c] = DOMAIN gens[c] \cup {new} /\ gens'[c][new] = Generation(r)
      /\ \A g \in DOMAIN gens[c] : g # new /\ gens'[c][g] = gens[c][g]
      /\ \A d \in Checkouts : d # c => gens'[d] = gens[d]
      /\ DOMAIN gens' = Checkouts
  BY <1>a, <1>0, <1>3
<1>5. /\ Generation(r) \in GenSet /\ Generation(r).files = Generation(r).shown /\ Whole(Generation(r))
      /\ Steady(Generation(r)) /\ ~Generation(r).named /\ Generation(r).mtime = Now(c)
  <2>1. Reviewed(r) /\ r.kind \in Kinds /\ r.shown \in FileSet \cup {Nothing}
    BY <1>a, <1>0 DEF IInv, Shown, Sess
  <2>2. (IF r.kind = "explicit" THEN r.tree ELSE r.shown) = r.tree
    BY <1>3, <2>1 DEF Reviewed
  <2>3. (r.kind = "add") \in BOOLEAN
    OBVIOUS
  <2> QED
    BY <1>a, <1>0, <1>2, <2>2 DEF Generation, GenSet, Whole, Steady
<1>6. /\ n \in Sess /\ n.pc = "mark" /\ n.gen = new /\ n.doomed = {} /\ n.at = c
  <2>1. Idle \in Sess /\ Idle.doomed = {}
    BY CheckoutsAssumption DEF Idle, Sess, Steps, Kinds, NoFiles, FileSet, Bytes
  <2> QED
    BY <2>1 DEF Sess, Steps, Idle
<1>7. sess'[s] = n /\ (\A t \in Sessions : t # s => sess'[t] = sess[t]) /\ sess' \in [Sessions -> Sess]
  BY <1>0, <1>3, <1>6
<1> HIDE DEF n
<1>8. new = minted + 1 /\ new \in Nat
  BY <1>a
<1>9. TypeOK'
  <2>1. ASSUME NEW d \in Checkouts
        PROVE DOMAIN gens'[d] \subseteq 1..minted' /\ \A g \in DOMAIN gens'[d] : gens'[d][g] \in GenSet
    BY <1>0, <1>3, <1>4, <1>5, <1>8
  <2>2. \A t \in Sessions : sess'[t].pc \in {"read", "reread", "restore"} => sess'[t] = sess[t]
    BY <1>6, <1>7
  <2>3. /\ minted' \in Nat /\ DOMAIN gens' = Checkouts /\ sess' \in [Sessions -> Sess]
        /\ UNCHANGED <<tree, marker, tick, agenda, adopted, crossed, edits, kills>>
    BY <1>3, <1>4, <1>7, <1>8 DEF history
  <2> QED
    BY <2>1, <2>2, <2>3 DEF IInv, TypeOK
<1>10. Shown'
  <2>1. Reviewed(n)
    BY <1>6 DEF Reviewed
  <2> QED
    BY <1>4, <1>5, <1>7, <2>1 DEF IInv, Shown
<1>11. Numbered'
  <2>1. /\ \A d \in Checkouts : marker[d] <= minted /\ marker[d] \in Nat
        /\ \A t \in Sessions : sess[t].gen <= minted /\ sess[t].gen \in Nat /\ sess[t].doomed \subseteq 1..minted
        /\ tick.gen <= minted /\ tick.gen \in Nat
    BY DEF IInv, Numbered, TypeOK, Sess
  <2>2. \A t \in Sessions : t # s => sess'[t].gen # new
    BY <1>0, <1>7, <1>8, <2>1
  <2> QED
    BY <1>0, <1>3, <1>6, <1>7, <1>8, <2>1, <2>2 DEF IInv, Numbered
<1>12. Dated'
  <2>1. \A d \in Checkouts : \A g \in DOMAIN gens'[d] : Steady(gens'[d][g])
    BY <1>4, <1>5 DEF IInv, Dated
  <2>2. ASSUME NEW d \in Checkouts, NEW g \in DOMAIN gens'[d], NEW h \in DOMAIN gens'[d],
               Whole(gens'[d][g]), Whole(gens'[d][h]), g < h
        PROVE gens'[d][g].mtime < gens'[d][h].mtime
    <3>1. CASE d # c
      BY <1>4, <2>2, <3>1 DEF IInv, Dated
    <3>2. CASE d = c /\ h = new
      BY <1>0, <1>2, <1>4, <1>5, <1>8, <2>2, <3>2
    <3>3. CASE d = c /\ g = new
      BY <1>0, <1>4, <1>8, <2>2, <3>3
    <3>4. CASE d = c /\ g # new /\ h # new
      BY <1>4, <2>2, <3>4 DEF IInv, Dated
    <3> QED
      BY <3>1, <3>2, <3>3, <3>4
  <2>3. \A d \in Checkouts : \A g \in DOMAIN gens'[d] : gens'[d][g].mtime <= b + 1
    <3>1. \A d \in Checkouts : \A g \in DOMAIN gens[d] : gens[d][g].mtime <= b + 1
      BY <1>0, <1>1 DEF GenSet
    <3> QED
      BY <1>2, <1>4, <1>5, <3>1
  <2>4. \E m \in Nat : \A d \in Checkouts : \A g \in DOMAIN gens'[d] : gens'[d][g].mtime <= m
    <3>1. b + 1 \in Nat
      BY <1>0, <1>1
    <3> QED
      BY <2>3, <3>1
  <2> QED
    BY <2>1, <2>2, <2>4 DEF Dated
<1>13. Waiting(c)' = Waiting(c) \cup {new} /\ Selected(c)' = Selected(c)
  BY <1>0, <1>3, <1>4, <1>5, <1>8 DEF Waiting, Selected, IInv, Numbered, TypeOK
<1>14. \A t \in Sessions, d \in Checkouts : Deleting(t, d)' => Deleting(t, d) /\ sess'[t] = sess[t]
  BY <1>6, <1>7 DEF Deleting
<1>15. ASSUME NEW d \in Checkouts \ crossed' PROVE Uncrossed(d)'
  <2>1. d \notin crossed /\ Uncrossed(d)
    BY <1>3 DEF IInv, history
  <2>2. CASE d # c
    BY <1>3, <1>4, <1>14, <2>1, <2>2, UntouchedUncrossed DEF Untouched, history
  <2>3. CASE d = c
    <3>1. Selected(c)' => /\ Whole(gens'[c][marker'[c]]) /\ gens'[c][marker'[c]].named
                          /\ gens'[c][marker'[c]].files \in adopted'[c]
                          /\ \A x \in DOMAIN gens'[c] : gens'[c][x].named => x <= marker'[c]
      BY <1>3, <1>4, <1>5, <1>13, <2>1, <2>3 DEF Uncrossed, Selected, history
    <3>2. ASSUME NEW w \in Waiting(c)'
          PROVE Whole(gens'[c][w]) /\ \A x \in DOMAIN gens'[c] : gens'[c][x].named => x < w
      <4>1. CASE w = new
        BY <1>0, <1>4, <1>5, <1>8, <4>1
      <4>2. CASE w \in Waiting(c)
        BY <1>4, <1>5, <2>1, <2>3, <4>2 DEF Uncrossed, Waiting
      <4> QED
        BY <1>13, <4>1, <4>2
    <3>3. ASSUME NEW t \in Sessions, Deleting(t, c)'
          PROVE sess'[t].doomed \cap (Waiting(c)' \cup {marker'[c]}) = {}
      <4>1. Deleting(t, c) /\ sess'[t] = sess[t] /\ new \notin sess[t].doomed
        BY <1>0, <1>8, <1>14, <3>3 DEF IInv, Numbered
      <4> QED
        BY <1>3, <1>13, <2>1, <2>3, <4>1 DEF Uncrossed
    <3> QED
      BY <2>3, <3>1, <3>2, <3>3 DEF Uncrossed
  <2> QED
    BY <2>2, <2>3
<1>16. Reading'
  <2>1. CASE tick.at # c
    BY <1>0, <1>3, <1>4, <1>14, <2>1, UntouchedReading DEF Untouched, history, IInv
  <2>2. CASE tick.at = c
    <3>1. \A g : Kept(c, g) => Kept(c, g)'
      BY <1>3, <1>4, <1>5, <1>14, <2>2 DEF Kept, history
    <3>2. tick.gen # new
      BY <1>0, <1>8 DEF IInv, Numbered, TypeOK
    <3>3. tick' = tick /\ crossed' = crossed /\ adopted' = adopted /\ marker' = marker /\ tick.gen \in Nat
      BY <1>3 DEF history, IInv, TypeOK
    <3>4. tick.gen \in DOMAIN gens'[c] => tick.gen \in DOMAIN gens[c] /\ gens'[c][tick.gen] = gens[c][tick.gen]
      BY <1>4, <3>2
    <3>5. TypeOK /\ Reading /\ (Told(tick)' => Told(tick))
      BY <3>3 DEF IInv, Told
    <3> QED
      BY <2>2, <3>1, <3>3, <3>4, <3>5, ReadingGoesOn
  <2> QED
    BY <2>1, <2>2
<1> QED
  BY <1>9, <1>10, <1>11, <1>12, <1>15, <1>16 DEF IInv

-----------------------------------------------------------------------------
(* The marker moves on to the one generation that waited.                  *)
LEMMA MarkInv ==
  ASSUME IInv, NEW s \in Sessions, Mark(s)
  PROVE IInv'
<1>a. PICK c \in Checkouts, g \in Nat, r \in Sess : c = sess[s].at /\ g = sess[s].gen /\ r = sess[s]
  BY Facts
<1> DEFINE n == [r EXCEPT !.pc = "prune"]
<1>0. /\ sess \in [Sessions -> Sess] /\ minted \in Nat /\ marker \in [Checkouts -> Nat]
      /\ DOMAIN gens = Checkouts /\ crossed \subseteq Checkouts /\ tick.at \in Checkouts
      /\ \A d \in Checkouts : DOMAIN gens[d] \subseteq 1..minted
      /\ \A d \in Checkouts : \A x \in DOMAIN gens[d] : gens[d][x] \in GenSet /\ x \in Nat
      /\ adopted \in [Checkouts -> SUBSET FileSet] /\ g <= minted
  BY <1>a, Facts DEF IInv, TypeOK, Numbered
<1>1. /\ r.pc = "mark" /\ marker' = [marker EXCEPT ![c] = g] /\ sess' = [sess EXCEPT ![s] = n]
      /\ IF g \in DOMAIN gens[c]
           THEN /\ gens' = [gens EXCEPT ![c][g].named = TRUE]
                /\ adopted' = [adopted EXCEPT ![c] = adopted[c] \cup {gens[c][g].files}]
           ELSE UNCHANGED <<gens, adopted>>
      /\ crossed' = Crossing(c, Waiting(c) = {g})
      /\ tick' = IF tick.at = c /\ tick.pc # "idle" /\ tick.moves < 2
                   THEN [tick EXCEPT !.moves = tick.moves + 1] ELSE tick
      /\ UNCHANGED <<tree, minted, agenda, edits, kills>>
  BY <1>a DEF Mark, At, Becomes, Goes
<1>2. n \in Sess /\ n.pc = "prune" /\ n.at = c /\ n.gen = g /\ n.doomed = r.doomed
  BY <1>a DEF Sess, Steps
<1>3. sess'[s] = n /\ (\A t \in Sessions : t # s => sess'[t] = sess[t]) /\ sess' \in [Sessions -> Sess]
  BY <1>0, <1>1, <1>2
<1> HIDE DEF n
<1>4. /\ marker'[c] = g /\ (\A d \in Checkouts : d # c => marker'[d] = marker[d])
      /\ marker' \in [Checkouts -> Nat]
  BY <1>0, <1>1
<1>5. /\ DOMAIN gens' = Checkouts /\ \A d \in Checkouts : DOMAIN gens'[d] = DOMAIN gens[d]
      /\ \A d \in Checkouts : d # c => gens'[d] = gens[d]
      /\ \A x \in DOMAIN gens[c] : x # g => gens'[c][x] = gens[c][x]
  BY <1>0, <1>1
<1>6. ASSUME g \in DOMAIN gens[c]
      PROVE gens'[c][g] = [gens[c][g] EXCEPT !.named = TRUE]
  BY <1>0, <1>1, <1>6
<1>7. ASSUME NEW d \in Checkouts, NEW x \in DOMAIN gens[d]
      PROVE /\ gens'[d][x] \in GenSet /\ gens'[d][x].files = gens[d][x].files
            /\ gens'[d][x].left = gens[d][x].left /\ gens'[d][x].mtime = gens[d][x].mtime
            /\ gens'[d][x].shown = gens[d][x].shown
            /\ Whole(gens'[d][x]) <=> Whole(gens[d][x])
            /\ Steady(gens'[d][x]) <=> Steady(gens[d][x])
            /\ gens'[d][x].named = (gens[d][x].named \/ (d = c /\ x = g))
  <2>1. gens[d][x] \in GenSet
    BY <1>0
  <2>2. CASE d = c /\ x = g
    <3>1. gens'[d][x] = [gens[d][x] EXCEPT !.named = TRUE]
      BY <1>6, <2>2
    <3>2. /\ gens'[d][x] \in GenSet /\ gens'[d][x].files = gens[d][x].files
          /\ gens'[d][x].left = gens[d][x].left /\ gens'[d][x].mtime = gens[d][x].mtime
          /\ gens'[d][x].shown = gens[d][x].shown /\ gens'[d][x].named = TRUE
      BY <2>1, <3>1 DEF GenSet
    <3>3. Whole(gens'[d][x]) <=> Whole(gens[d][x])
      BY <3>2 DEF Whole
    <3>4. Steady(gens'[d][x]) <=> Steady(gens[d][x])
      BY <3>2 DEF Steady
    <3> QED
      BY <2>2, <3>2, <3>3, <3>4
  <2>3. CASE ~(d = c /\ x = g)
    <3>1. gens'[d][x] = gens[d][x]
      BY <1>5, <2>3
    <3>2. gens[d][x].named \in BOOLEAN
      BY <2>1 DEF GenSet
    <3> QED
      BY <2>1, <2>3, <3>1, <3>2
  <2> QED
    BY <2>2, <2>3
<1>8. adopted' \in [Checkouts -> SUBSET FileSet] /\ \A d \in Checkouts : adopted[d] \subseteq adopted'[d]
  BY <1>0, <1>1 DEF GenSet
<1>9. crossed \subseteq crossed' /\ crossed' \subseteq Checkouts /\ (c \notin crossed' => Waiting(c) = {g})
  BY <1>0, <1>1 DEF Crossing
<1>10. TypeOK'
  <2>1. tick' \in [pc : {"idle", "dir", "files", "report", "runs"}, at : Checkouts, gen : Nat,
                   todo : Seq(Files), cfg : FileSet, moves : 0..2, misled : BOOLEAN]
        /\ tick'.pc = tick.pc /\ tick'.todo = tick.todo
    <3>1. CASE tick' = tick
      BY <3>1 DEF IInv, TypeOK
    <3>2. CASE tick' = [tick EXCEPT !.moves = tick.moves + 1] /\ tick.moves < 2
      <4>1. PICK m \in 0..2 : m = tick.moves + 1
        BY <3>2 DEF IInv, TypeOK
      <4> QED
        BY <3>2, <4>1 DEF IInv, TypeOK
    <3> QED
      BY <1>1, <3>1, <3>2
  <2>2. \A t \in Sessions : sess'[t].pc \in {"read", "reread", "restore"} => sess'[t] = sess[t]
    BY <1>2, <1>3
  <2> QED
    BY <1>0, <1>1, <1>3, <1>4, <1>5, <1>7, <1>8, <1>9, <2>1, <2>2 DEF IInv, TypeOK
<1>11. Shown'
  <2>1. Reviewed(n)
    BY <1>2 DEF Reviewed
  <2> QED
    BY <1>3, <1>5, <1>7, <2>1 DEF IInv, Shown
<1>12. Numbered'
  <2>1. tick'.gen = tick.gen
    BY <1>1 DEF IInv, TypeOK
  <2> QED
    BY <1>a, <1>0, <1>1, <1>2, <1>3, <1>4, <2>1 DEF IInv, Numbered
<1>13. Dated'
  BY <1>5, <1>7 DEF IInv, Dated
<1>14. \A t \in Sessions, d \in Checkouts : Deleting(t, d)' => Deleting(t, d) /\ sess'[t] = sess[t]
  BY <1>2, <1>3 DEF Deleting
<1>15. ASSUME c \notin crossed'
       PROVE /\ g \in DOMAIN gens[c] /\ Whole(gens[c][g]) /\ Waiting(c) = {g}
             /\ \A x \in DOMAIN gens[c] : gens[c][x].named => x < g
             /\ \A t \in Sessions : Deleting(t, c) => sess[t].doomed \cap {g, marker[c]} = {}
             /\ Uncrossed(c)
  <2>1. Uncrossed(c) /\ Waiting(c) = {g}
    BY <1>9, <1>15 DEF IInv
  <2> QED
    BY <2>1 DEF Uncrossed, Waiting
<1>16. ASSUME NEW d \in Checkouts \ crossed' PROVE Uncrossed(d)'
  <2>1. CASE d # c
    BY <1>4, <1>5, <1>8, <1>9, <1>14, <2>1, UntouchedUncrossed DEF Untouched, IInv
  <2>2. CASE d = c
    <3>0. \A x \in DOMAIN gens'[c] : x = g \/ gens[c][x].named
      BY <1>5, <1>15, <2>2 DEF Waiting
    <3>1. Waiting(c)' = {}
      <4>1. ASSUME NEW x \in DOMAIN gens'[c] PROVE gens'[c][x].named
        <5>1. x \in DOMAIN gens[c]
          BY <1>5
        <5>2. gens'[c][x].named = (gens[c][x].named \/ x = g)
          BY <1>7, <5>1
        <5> QED
          BY <3>0, <5>2
      <4> QED
        BY <4>1 DEF Waiting
    <3>2. Whole(gens'[c][g]) /\ gens'[c][g].named
      BY <1>7, <1>15, <2>2
    <3>3. gens'[c][g].files \in adopted'[c]
      BY <1>0, <1>1, <1>7, <1>15, <2>2
    <3>4. \A x \in DOMAIN gens'[c] : gens'[c][x].named => x <= g
      BY <1>0, <1>5, <1>7, <1>15, <2>2
    <3>5. \A t \in Sessions : Deleting(t, c)' => sess'[t].doomed \cap {g} = {}
      BY <1>14, <1>15, <2>2
    <3> QED
      BY <1>4, <2>2, <3>1, <3>2, <3>3, <3>4, <3>5 DEF Uncrossed
  <2> QED
    BY <2>1, <2>2
<1>17. Reading'
  <2>1. CASE tick.at # c \/ tick.pc = "idle"
    <3>1. tick' = tick
      BY <1>1, <2>1
    <3>2. CASE tick.at # c
      BY <1>0, <1>4, <1>5, <1>8, <1>9, <1>14, <3>1, <3>2, UntouchedReading DEF Untouched, IInv
    <3>3. CASE tick.pc = "idle"
      BY <3>1, <3>3 DEF Reading
    <3> QED
      BY <2>1, <3>2, <3>3
  <2>2. CASE tick.at = c /\ tick.pc # "idle"
    <3>1. PICK o \in Nat, pc \in {"idle", "dir", "files", "report", "runs"} :
            o = tick.gen /\ pc = tick.pc /\ tick.moves \in 0..2
      BY DEF IInv, TypeOK
    <3>2. /\ tick'.pc = pc /\ tick'.at = c /\ tick'.gen = o /\ tick'.cfg = tick.cfg /\ tick'.todo = tick.todo
          /\ tick'.misled = tick.misled /\ tick'.moves \in 1..2
          /\ tick'.moves < 2 => tick.moves = 0 /\ tick'.moves = 1
      BY <1>1, <2>2, <3>1 DEF IInv, TypeOK
    <3>3. Told(tick)' => Told(tick) /\ tick.moves = 0 /\ tick'.moves = 1
      BY <3>2 DEF Told
    <3>4. ASSUME c \notin crossed', Told(tick)', Kept(c, o) PROVE Kept(c, o)'
      <4>1. o \in DOMAIN gens[c] /\ Whole(gens[c][o]) /\ gens[c][o].named /\ marker[c] = o /\ o # g
        BY <1>0, <1>15, <3>3, <3>4 DEF Kept, Waiting
      <4>2. \A x \in DOMAIN gens[c] : gens[c][x].named => x <= o
        BY <1>15, <3>4, <4>1 DEF Uncrossed, Selected
      <4>3. \A t \in Sessions : Deleting(t, c)' => o \notin sess'[t].doomed
        BY <1>14, <1>15, <3>4, <4>1
      <4>4. gens'[c][o] = gens[c][o] /\ gens[c][o].files \in adopted'[c]
        BY <1>5, <1>8, <3>4, <4>1 DEF Kept
      <4>5. \A x \in DOMAIN gens'[c] \ {g} : gens'[c][x].named => x <= o
        BY <1>5, <4>2
      <4> QED
        BY <1>4, <1>5, <3>3, <3>4, <4>1, <4>3, <4>4, <4>5 DEF Kept
    <3>5. o \in DOMAIN gens'[c] => o \in DOMAIN gens[c] /\ gens'[c][o].files = gens[c][o].files
      BY <1>5, <1>7
    <3>6. TypeOK /\ Reading
      BY DEF IInv
    <3>7. tick'.moves # 0
      BY <3>2
    <3> QED
      BY <1>8, <1>9, <2>2, <3>1, <3>2, <3>3, <3>4, <3>5, <3>6, <3>7, ReadingGoesOn
  <2> QED
    BY <2>1, <2>2
<1> QED
  BY <1>10, <1>11, <1>12, <1>13, <1>16, <1>17 DEF IInv

(* What is pruned is neither the pin nor, unless the youngest is what a    *)
(* deletion left of one, the generation that the pin moved on from.        *)
LEMMA SupersededIsOlder ==
  ASSUME IInv, NEW c \in Checkouts, NEW keep, NEW g \in Superseded(c, keep), ~Misled(c, keep),
         Whole(gens[c][g])
  PROVE \E h \in DOMAIN gens[c] \ {keep} : Whole(gens[c][h]) /\ g < h
<1> DEFINE others == DOMAIN gens[c] \ {keep}
           Times == {gens[c][x].mtime : x \in others}
<1>0. \A x \in others : gens[c][x].mtime \in Nat /\ x \in Nat
  BY DEF IInv, TypeOK, GenSet
<1>1. PICK b \in Nat : \A x \in others : gens[c][x].mtime <= b
  BY DEF IInv, Dated
<1>2. g \in others /\ \E h \in others : gens[c][h].mtime > gens[c][g].mtime
  BY DEF Superseded
<1>3. PICK m \in Times : \A x \in Times : x <= m
  <2>1. Times \in SUBSET Nat /\ Times # {} /\ \A x \in Times : x <= b
    BY <1>0, <1>1, <1>2
  <2> QED
    BY <2>1, GreatestExists
<1>4. PICK h \in others : gens[c][h].mtime = m
  OBVIOUS
<1>5. h \in others \ Superseded(c, keep)
  <2>1. ASSUME NEW x \in others PROVE ~(gens[c][x].mtime > gens[c][h].mtime)
    <3>1. gens[c][x].mtime <= m
      BY <1>3
    <3> QED
      BY <1>0, <1>4, <3>1
  <2> QED
    BY <2>1 DEF Superseded
<1>6. Whole(gens[c][h])
  BY <1>5 DEF Misled
<1>7. gens[c][g].mtime < gens[c][h].mtime
  BY <1>0, <1>2, <1>3, <1>4
<1>8. ~(h < g) /\ h # g
  <2>1. h < g => gens[c][h].mtime < gens[c][g].mtime
    BY <1>2, <1>5, <1>6 DEF IInv, Dated
  <2> QED
    BY <1>0, <1>2, <1>5, <1>7, <2>1
<1> QED
  BY <1>0, <1>2, <1>5, <1>6, <1>8

LEMMA PruneInv ==
  ASSUME IInv, NEW s \in Sessions, Prune(s)
  PROVE IInv'
<1>a. PICK c \in Checkouts, keep \in Nat, r \in Sess, doomed \in SUBSET Nat :
        c = sess[s].at /\ keep = sess[s].gen /\ r = sess[s] /\ doomed = Superseded(c, keep)
  <2>1. Superseded(sess[s].at, sess[s].gen) \in SUBSET Nat
    BY Facts DEF Superseded
  <2> QED
    BY <2>1, Facts
<1> DEFINE n == [r EXCEPT !.pc = "delete", !.doomed = doomed]
<1>0. /\ sess \in [Sessions -> Sess] /\ minted \in Nat
      /\ DOMAIN gens = Checkouts /\ crossed \subseteq Checkouts /\ tick.at \in Checkouts
      /\ \A d \in Checkouts : DOMAIN gens[d] \subseteq 1..minted
      /\ \A d \in Checkouts : \A x \in DOMAIN gens[d] : gens[d][x] \in GenSet /\ x \in Nat
      /\ doomed \subseteq DOMAIN gens[c] \ {keep}
  BY <1>a, Facts DEF Superseded
<1>1. /\ r.pc = "prune" /\ sess' = [sess EXCEPT ![s] = n]
      /\ crossed' = Crossing(c, marker[c] = keep /\ Waiting(c) = {})
      /\ tick' = IF tick.at = c /\ tick.pc # "idle" /\ Misled(c, keep)
                   THEN [tick EXCEPT !.misled = TRUE] ELSE tick
      /\ UNCHANGED <<tree, pins, agenda, adopted, edits, kills>>
  BY <1>a DEF Prune, At, Becomes
<1>2. n \in Sess /\ n.pc = "delete" /\ n.at = c /\ n.gen = r.gen /\ n.doomed = doomed
  BY <1>a DEF Sess, Steps
<1>3. sess'[s] = n /\ (\A t \in Sessions : t # s => sess'[t] = sess[t]) /\ sess' \in [Sessions -> Sess]
  BY <1>0, <1>1, <1>2
<1> HIDE DEF n
<1>4. crossed \subseteq crossed' /\ crossed' \subseteq Checkouts
      /\ (c \notin crossed' => marker[c] = keep /\ Waiting(c) = {})
  BY <1>0, <1>1 DEF Crossing
<1>5. /\ tick' \in [pc : {"idle", "dir", "files", "report", "runs"}, at : Checkouts, gen : Nat,
                    todo : Seq(Files), cfg : FileSet, moves : 0..2, misled : BOOLEAN]
      /\ tick'.pc = tick.pc /\ tick'.at = tick.at /\ tick'.gen = tick.gen /\ tick'.todo = tick.todo
      /\ tick'.cfg = tick.cfg /\ tick'.moves = tick.moves /\ (tick.misled => tick'.misled)
      /\ tick.at = c /\ tick.pc # "idle" /\ Misled(c, keep) => tick'.misled
      /\ tick.at # c => tick' = tick
  <2>1. CASE tick' = tick
    BY <1>1, <2>1 DEF IInv, TypeOK
  <2>2. CASE tick' = [tick EXCEPT !.misled = TRUE] /\ tick.at = c
    BY <1>1, <2>2 DEF IInv, TypeOK
  <2> QED
    BY <1>1, <2>1, <2>2
<1>6. TypeOK'
  <2>1. \A t \in Sessions : sess'[t].pc \in {"read", "reread", "restore"} => sess'[t] = sess[t]
    BY <1>2, <1>3
  <2> QED
    BY <1>1, <1>3, <1>4, <1>5, <2>1 DEF IInv, TypeOK, pins
<1>7. Shown'
  <2>1. Reviewed(n)
    BY <1>2 DEF Reviewed
  <2> QED
    BY <1>1, <1>3, <2>1 DEF IInv, Shown, pins
<1>8. Numbered'
  <2>1. doomed \subseteq 1..minted
    BY <1>0
  <2> QED
    BY <1>a, <1>1, <1>2, <1>3, <1>5, <2>1 DEF IInv, Numbered, pins
<1>9. Dated'
  BY <1>1 DEF IInv, Dated, pins
<1>10. \A t \in Sessions : Deleting(t, c)' => (t = s /\ sess'[t] = n) \/ (Deleting(t, c) /\ sess'[t] = sess[t])
  BY <1>3 DEF Deleting
<1>11. \A t \in Sessions, d \in Checkouts : Deleting(t, d)' /\ d # c => Deleting(t, d) /\ sess'[t] = sess[t]
  BY <1>2, <1>3 DEF Deleting
<1>12. \A d \in Checkouts : Selected(d)' = Selected(d) /\ Waiting(d)' = Waiting(d)
  BY <1>1 DEF pins, Selected, Waiting
<1>13. ASSUME NEW d \in Checkouts \ crossed' PROVE Uncrossed(d)'
  <2>0. Uncrossed(d)
    BY <1>4 DEF IInv
  <2>1. CASE d # c
    BY <1>1, <1>11, <2>0, <2>1, UntouchedUncrossed DEF Untouched, pins
  <2>2. CASE d = c
    BY <1>0, <1>1, <1>2, <1>4, <1>10, <1>12, <2>0, <2>2 DEF Uncrossed, pins
  <2> QED
    BY <2>1, <2>2
<1>14. Reading'
  <2>1. CASE tick.at # c
    BY <1>0, <1>1, <1>4, <1>5, <1>11, <2>1, UntouchedReading DEF Untouched, IInv, pins
  <2>2. CASE tick.at = c /\ tick.pc = "idle"
    BY <1>5, <2>2 DEF Reading
  <2>3. CASE tick.at = c /\ tick.pc # "idle"
    <3>1. PICK o \in Nat, pc \in {"idle", "dir", "files", "report", "runs"} :
            o = tick.gen /\ pc = tick.pc /\ tick.moves \in 0..2
      BY DEF IInv, TypeOK
    <3>2. Told(tick)' => Told(tick) /\ ~Misled(c, keep)
      BY <1>5, <2>3 DEF Told
    <3>3. ASSUME c \notin crossed', Told(tick)', Kept(c, o) PROVE Kept(c, o)'
      <4>0. /\ o \in DOMAIN gens[c] /\ Whole(gens[c][o]) /\ gens[c][o].named
            /\ gens[c][o].files \in adopted[c]
        BY <3>3 DEF Kept
      <4>1. CASE tick.moves = 0 /\ marker[c] = o
        BY <1>1, <1>5, <4>0, <4>1 DEF Kept, pins
      <4>2. CASE ~(tick.moves = 0 /\ marker[c] = o)
        <5>1. /\ tick.moves = 1 /\ marker[c] # o
              /\ \A t \in Sessions : Deleting(t, c) => o \notin sess[t].doomed
              /\ \A x \in DOMAIN gens[c] \ {marker[c]} : gens[c][x].named => x <= o
          BY <3>3, <4>2 DEF Kept
        <5>2. o \notin doomed
          <6> SUFFICES ASSUME o \in doomed PROVE FALSE
            OBVIOUS
          <6>1. PICK h \in DOMAIN gens[c] \ {keep} : o < h
            BY <1>a, <3>2, <3>3, <4>0, SupersededIsOlder
          <6>2. gens[c][h].named /\ h # marker[c]
            BY <1>4, <3>3, <6>1 DEF Waiting
          <6> QED
            BY <1>0, <5>1, <6>1, <6>2
        <5>3. \A t \in Sessions : Deleting(t, c)' => o \notin sess'[t].doomed
          BY <1>2, <1>10, <5>1, <5>2
        <5> QED
          BY <1>1, <1>5, <4>0, <5>1, <5>3 DEF Kept, pins
      <4> QED
        BY <4>1, <4>2
    <3>4. gens' = gens /\ marker' = marker /\ adopted' = adopted /\ TypeOK /\ Reading
      BY <1>1 DEF pins, IInv
    <3> QED
      BY <1>4, <1>5, <2>3, <3>1, <3>2, <3>3, <3>4, ReadingGoesOn
  <2> QED
    BY <2>1, <2>2, <2>3
<1> QED
  BY <1>6, <1>7, <1>8, <1>9, <1>13, <1>14 DEF IInv

-----------------------------------------------------------------------------
(* A file of a doomed generation goes, or its empty directory: never one   *)
(* that waits, that the marker names, or that the supervisor's turn reads. *)
LEMMA DeleteInv ==
  ASSUME IInv, NEW s \in Sessions, Delete(s)
  PROVE IInv'
<1>a. PICK c \in Checkouts : c = sess[s].at
  BY Facts
<1>0. /\ sess \in [Sessions -> Sess] /\ minted \in Nat /\ DOMAIN gens = Checkouts /\ tick.at \in Checkouts
      /\ \A d \in Checkouts : DOMAIN gens[d] \subseteq 1..minted
      /\ \A d \in Checkouts : \A x \in DOMAIN gens[d] : gens[d][x] \in GenSet /\ x \in Nat
  BY Facts
<1>1. PICK g \in sess[s].doomed \cap DOMAIN gens[c] : Unlink(c, g)
  BY <1>a DEF Delete, At
<1>b. \/ \E f \in gens[c][g].left :
           gens' = [gens EXCEPT ![c][g] = [gens[c][g] EXCEPT !.left = gens[c][g].left \ {f}, !.mtime = Now(c)]]
      \/ gens' = [gens EXCEPT ![c] = [h \in DOMAIN gens[c] \ {g} |-> gens[c][h]]]
  BY <1>1 DEF Unlink
<1>2. /\ sess[s].pc \in {"delete", "raze"} /\ Deleting(s, c)
      /\ UNCHANGED <<tree, marker, minted, sess, tick, agenda, history, edits, kills>>
  BY <1>a DEF Delete, Deleting
<1>3. PICK b \in Nat : \A d \in Checkouts : \A x \in DOMAIN gens[d] : gens[d][x].mtime <= b
  BY DEF IInv, Dated
<1>4. PICK now \in Nat : now = Now(c) /\ now <= b + 1
  BY <1>0, <1>3, NowIsLater DEF IInv
<1>5. /\ DOMAIN gens' = Checkouts /\ \A d \in Checkouts : d # c => gens'[d] = gens[d]
      /\ DOMAIN gens'[c] \subseteq DOMAIN gens[c]
      /\ DOMAIN gens[c] \ {g} \subseteq DOMAIN gens'[c]
      /\ \A x \in DOMAIN gens[c] \ {g} : gens'[c][x] = gens[c][x]
  <2>1. CASE gens' = [gens EXCEPT ![c] = [h \in DOMAIN gens[c] \ {g} |-> gens[c][h]]]
    BY <1>0, <2>1
  <2>2. ASSUME NEW gn, gens' = [gens EXCEPT ![c][g] = gn]
        PROVE /\ DOMAIN gens' = Checkouts /\ \A d \in Checkouts : d # c => gens'[d] = gens[d]
              /\ DOMAIN gens'[c] = DOMAIN gens[c]
              /\ \A x \in DOMAIN gens[c] \ {g} : gens'[c][x] = gens[c][x]
    BY <1>0, <2>2
  <2> QED
    BY <1>1, <1>b, <2>1, <2>2
<1>6. ASSUME g \in DOMAIN gens'[c]
      PROVE /\ gens'[c][g] \in GenSet /\ gens'[c][g].files = gens[c][g].files
            /\ gens'[c][g].shown = gens[c][g].shown /\ gens'[c][g].named = gens[c][g].named
            /\ gens'[c][g].mtime = now /\ Steady(gens'[c][g]) /\ ~Whole(gens'[c][g])
  <2>1. PICK f \in gens[c][g].left :
             gens' = [gens EXCEPT ![c][g] = [gens[c][g] EXCEPT !.left = gens[c][g].left \ {f}, !.mtime = Now(c)]]
    <3>1. ASSUME gens' = [gens EXCEPT ![c] = [h \in DOMAIN gens[c] \ {g} |-> gens[c][h]]] PROVE FALSE
      <4>1. gens'[c] = [h \in DOMAIN gens[c] \ {g} |-> gens[c][h]]
        BY <1>0, <3>1
      <4> QED
        BY <1>6, <4>1
    <3> QED
      BY <1>b, <3>1
  <2>2. gens[c][g] \in GenSet /\ Steady(gens[c][g])
    BY <1>0 DEF IInv, Dated
  <2>3. gens'[c][g] = [gens[c][g] EXCEPT !.left = gens[c][g].left \ {f}, !.mtime = now]
    BY <1>0, <1>4, <2>1, <2>2 DEF GenSet
  <2>4. f \in {e \in Files : gens[c][g].files[e] # Absent}
    BY <2>1, <2>2 DEF Steady
  <2> QED
    BY <2>2, <2>3, <2>4 DEF GenSet, Steady, Whole
<1>7. ASSUME NEW d \in Checkouts, NEW x \in DOMAIN gens'[d]
      PROVE /\ x \in DOMAIN gens[d] /\ gens'[d][x] \in GenSet /\ gens'[d][x].files = gens[d][x].files
            /\ gens'[d][x].shown = gens[d][x].shown /\ gens'[d][x].named = gens[d][x].named
            /\ gens'[d][x].mtime <= b + 1 /\ Steady(gens'[d][x])
            /\ Whole(gens'[d][x]) => gens'[d][x] = gens[d][x]
  <2>1. CASE d = c /\ x = g
    BY <1>1, <1>4, <1>6, <2>1
  <2>2. CASE ~(d = c /\ x = g)
    <3>1. x \in DOMAIN gens[d] /\ gens'[d][x] = gens[d][x]
      BY <1>5, <2>2
    <3>2. gens[d][x] \in GenSet /\ gens[d][x].mtime <= b
      BY <1>0, <1>3, <3>1
    <3>3. gens[d][x].mtime <= b + 1
      BY <3>2 DEF GenSet
    <3>4. Steady(gens[d][x])
      BY <3>1 DEF IInv, Dated
    <3> QED
      BY <3>1, <3>2, <3>3, <3>4
  <2> QED
    BY <2>1, <2>2
<1>8. TypeOK'
  BY <1>2, <1>5, <1>7 DEF IInv, TypeOK, history
<1>9. Shown'
  BY <1>2, <1>7 DEF IInv, Shown
<1>10. Numbered'
  BY <1>2 DEF IInv, Numbered
<1>11. Dated'
  <2>1. \A d \in Checkouts : \A x, y \in DOMAIN gens'[d] :
          Whole(gens'[d][x]) /\ Whole(gens'[d][y]) /\ x < y => gens'[d][x].mtime < gens'[d][y].mtime
    BY <1>7 DEF IInv, Dated
  <2>2. \A d \in Checkouts : \A x \in DOMAIN gens'[d] : Steady(gens'[d][x]) /\ gens'[d][x].mtime <= b + 1
    BY <1>7
  <2>3. b + 1 \in Nat
    OBVIOUS
  <2> QED
    BY <2>1, <2>2, <2>3 DEF Dated
<1>12. \A t \in Sessions, d \in Checkouts : Deleting(t, d)' <=> Deleting(t, d)
  BY <1>2 DEF Deleting
<1>13. ASSUME NEW d \in Checkouts \ crossed' PROVE Uncrossed(d)'
  <2>0. Uncrossed(d)
    BY <1>2 DEF IInv, history
  <2>1. CASE d # c
    BY <1>2, <1>5, <1>12, <2>0, <2>1, UntouchedUncrossed DEF Untouched, history
  <2>2. CASE d = c
    <3>1. g \notin Waiting(c) /\ g # marker[c]
      BY <1>1, <1>2, <2>0, <2>2, <1>a DEF Uncrossed
    <3>2. Waiting(c)' = Waiting(c) /\ (Selected(c)' <=> Selected(c))
      BY <1>2, <1>5, <1>7, <3>1 DEF Waiting, Selected
    <3>3. Selected(c) => gens'[c][marker[c]] = gens[c][marker[c]]
      BY <1>5, <3>1 DEF Selected
    <3>4. \A w \in Waiting(c) : gens'[c][w] = gens[c][w]
      BY <1>5, <3>1 DEF Waiting
    <3>5. Selected(c)' => /\ Whole(gens'[c][marker'[c]]) /\ gens'[c][marker'[c]].named
                          /\ gens'[c][marker'[c]].files \in adopted'[c]
                          /\ \A x \in DOMAIN gens'[c] : gens'[c][x].named => x <= marker'[c]
      BY <1>2, <1>7, <2>0, <2>2, <3>2, <3>3 DEF Uncrossed, history
    <3>6. \A w \in Waiting(c)' : /\ Whole(gens'[c][w])
                                 /\ \A x \in DOMAIN gens'[c] : gens'[c][x].named => x < w
      BY <1>7, <2>0, <2>2, <3>2, <3>4 DEF Uncrossed
    <3>7. \A t \in Sessions : Deleting(t, c)' => sess'[t].doomed \cap (Waiting(c)' \cup {marker'[c]}) = {}
      BY <1>2, <1>12, <2>0, <2>2, <3>2 DEF Uncrossed
    <3> QED
      BY <2>2, <3>5, <3>6, <3>7 DEF Uncrossed
  <2> QED
    BY <2>1, <2>2
<1>14. Reading'
  <2>1. CASE tick.at # c
    BY <1>0, <1>2, <1>5, <1>12, <2>1, UntouchedReading DEF Untouched, IInv, history
  <2>2. CASE tick.at = c
    <3>1. PICK o \in Nat, pc \in {"idle", "dir", "files", "report", "runs"} : o = tick.gen /\ pc = tick.pc
      BY DEF IInv, TypeOK
    <3>2. ASSUME c \notin crossed', Kept(c, o) PROVE Kept(c, o)'
      <4>0. Uncrossed(c)
        BY <1>2, <3>2 DEF IInv, history
      <4>1. o # g
        BY <1>1, <1>2, <1>a, <3>2, <4>0 DEF Kept, Uncrossed
      <4>2. o \in DOMAIN gens'[c] /\ gens'[c][o] = gens[c][o]
        BY <1>5, <3>2, <4>1 DEF Kept
      <4>3. \A x \in DOMAIN gens'[c] : x \in DOMAIN gens[c] /\ gens'[c][x].named = gens[c][x].named
        BY <1>7
      <4> QED
        BY <1>2, <1>12, <3>2, <4>2, <4>3 DEF Kept, history
    <3>3. o \in DOMAIN gens'[c] => o \in DOMAIN gens[c] /\ gens'[c][o].files = gens[c][o].files
      BY <1>7
    <3>4. tick' = tick /\ crossed' = crossed /\ adopted' = adopted /\ marker' = marker /\ TypeOK /\ Reading
      BY <1>2 DEF history, IInv
    <3>5. Told(tick)' => Told(tick)
      BY <3>4 DEF Told
    <3> QED
      BY <2>2, <3>1, <3>2, <3>3, <3>4, <3>5, ReadingGoesOn
  <2> QED
    BY <2>1, <2>2
<1> QED
  BY <1>8, <1>9, <1>10, <1>11, <1>13, <1>14 DEF IInv

(* With the marker gone nothing is adopted, and everything may go.         *)
LEMMA ForgetInv ==
  ASSUME IInv, NEW s \in Sessions, Forget(s)
  PROVE IInv'
<1>a. PICK c \in Checkouts, r \in Sess, doomed \in SUBSET Nat :
        c = sess[s].at /\ r = sess[s] /\ doomed = DOMAIN gens[c]
  <2>1. DOMAIN gens[sess[s].at] \in SUBSET Nat
    BY Facts
  <2> QED
    BY <2>1, Facts
<1> DEFINE n == [r EXCEPT !.pc = "raze", !.doomed = doomed]
<1>0. /\ sess \in [Sessions -> Sess] /\ minted \in Nat /\ marker \in [Checkouts -> Nat]
      /\ DOMAIN gens = Checkouts /\ crossed \subseteq Checkouts /\ tick.at \in Checkouts
      /\ \A d \in Checkouts : DOMAIN gens[d] \subseteq 1..minted
      /\ tree \in [Checkouts -> FileSet] /\ NoFiles \in FileSet
  BY Facts DEF IInv, TypeOK, NoFiles, FileSet, Bytes
<1>1. /\ r.pc = "forget" /\ sess' = [sess EXCEPT ![s] = n] /\ marker' = [marker EXCEPT ![c] = 0]
      /\ tree' = [tree EXCEPT ![c] = NoFiles]
      /\ tick' = IF tick.at = c /\ tick.pc # "idle" THEN [tick EXCEPT !.moves = 2] ELSE tick
      /\ crossed' = Crossing(c, Waiting(c) = {})
      /\ UNCHANGED <<gens, minted, agenda, adopted, edits, kills>>
  BY <1>a DEF Forget, At, Becomes
<1>2. n \in Sess /\ n.pc = "raze" /\ n.at = c /\ n.gen = r.gen /\ n.doomed = doomed
  BY <1>a DEF Sess, Steps
<1>3. sess'[s] = n /\ (\A t \in Sessions : t # s => sess'[t] = sess[t]) /\ sess' \in [Sessions -> Sess]
  BY <1>0, <1>1, <1>2
<1> HIDE DEF n
<1>4. /\ marker'[c] = 0 /\ (\A d \in Checkouts : d # c => marker'[d] = marker[d])
      /\ marker' \in [Checkouts -> Nat]
  BY <1>0, <1>1
<1>5. /\ tick' \in [pc : {"idle", "dir", "files", "report", "runs"}, at : Checkouts, gen : Nat,
                    todo : Seq(Files), cfg : FileSet, moves : 0..2, misled : BOOLEAN]
      /\ tick'.pc = tick.pc /\ tick'.at = tick.at /\ tick'.gen = tick.gen /\ tick'.todo = tick.todo
      /\ tick.at = c /\ tick.pc # "idle" => tick'.moves = 2
      /\ tick.at # c => tick' = tick
  <2>1. CASE tick' = tick /\ ~(tick.at = c /\ tick.pc # "idle")
    BY <1>1, <2>1 DEF IInv, TypeOK
  <2>2. CASE tick' = [tick EXCEPT !.moves = 2] /\ tick.at = c
    <3>1. PICK m \in 0..2 : m = 2
      OBVIOUS
    <3> QED
      BY <1>1, <2>2, <3>1 DEF IInv, TypeOK
  <2> QED
    BY <1>1, <2>1, <2>2
<1>6. crossed \subseteq crossed' /\ crossed' \subseteq Checkouts /\ (c \notin crossed' => Waiting(c) = {})
  BY <1>0, <1>1 DEF Crossing
<1>7. TypeOK'
  <2>1. \A t \in Sessions : sess'[t].pc \in {"read", "reread", "restore"} => sess'[t] = sess[t]
    BY <1>2, <1>3
  <2>2. tree' \in [Checkouts -> FileSet]
    BY <1>0, <1>1
  <2> QED
    BY <1>1, <1>3, <1>4, <1>5, <1>6, <2>1, <2>2 DEF IInv, TypeOK
<1>8. Shown'
  <2>1. Reviewed(n)
    BY <1>2 DEF Reviewed
  <2> QED
    BY <1>1, <1>3, <2>1 DEF IInv, Shown
<1>9. Numbered'
  <2>1. doomed \subseteq 1..minted
    BY <1>a, <1>0
  <2> QED
    BY <1>a, <1>0, <1>1, <1>2, <1>3, <1>4, <1>5, <2>1 DEF IInv, Numbered
<1>10. Dated'
  BY <1>1 DEF IInv, Dated
<1>11. \A t \in Sessions : Deleting(t, c)' => (t = s /\ sess'[t] = n) \/ (Deleting(t, c) /\ sess'[t] = sess[t])
  BY <1>3 DEF Deleting
<1>12. \A t \in Sessions, d \in Checkouts : Deleting(t, d)' /\ d # c => Deleting(t, d) /\ sess'[t] = sess[t]
  BY <1>2, <1>3 DEF Deleting
<1>13. ASSUME NEW d \in Checkouts \ crossed' PROVE Uncrossed(d)'
  <2>0. Uncrossed(d)
    BY <1>6 DEF IInv
  <2>1. CASE d # c
    BY <1>1, <1>4, <1>12, <2>0, <2>1, UntouchedUncrossed DEF Untouched
  <2>2. CASE d = c
    <3>1. ~Selected(c)' /\ Waiting(c)' = {}
      BY <1>0, <1>1, <1>4, <1>6, <2>2 DEF Selected, Waiting
    <3>2. ASSUME NEW t \in Sessions, Deleting(t, c)' PROVE 0 \notin sess'[t].doomed
      <4>1. sess'[t].doomed \subseteq 1..minted
        BY <1>a, <1>0, <1>2, <1>11, <3>2 DEF IInv, Numbered
      <4> QED
        BY <4>1
    <3> QED
      BY <1>4, <2>2, <3>1, <3>2 DEF Uncrossed
  <2> QED
    BY <2>1, <2>2
<1>14. Reading'
  <2>1. CASE tick.at # c
    BY <1>0, <1>1, <1>4, <1>5, <1>6, <1>12, <2>1, UntouchedReading DEF Untouched, IInv
  <2>2. CASE tick.at = c /\ tick.pc = "idle"
    BY <1>5, <2>2 DEF Reading
  <2>3. CASE tick.at = c /\ tick.pc # "idle"
    <3>1. ~Told(tick)'
      BY <1>5, <2>3 DEF Told
    <3> QED
      BY <3>1 DEF Reading
  <2> QED
    BY <2>1, <2>2, <2>3
<1> QED
  BY <1>7, <1>8, <1>9, <1>10, <1>13, <1>14 DEF IInv

(* The box's writes touch no pin.                                          *)
LEMMA BoxWritesInv ==
  ASSUME IInv, NEW c \in Checkouts, NEW f \in Files, BoxWrites(c, f)
  PROVE IInv'
<1>1. tree' \in [Checkouts -> FileSet] /\ edits' \in 0..MaxEdits
  BY BoundsAssumption DEF BoxWrites, IInv, TypeOK, FileSet, Bytes
<1>2. UNCHANGED <<marker, gens, minted, sess, tick, agenda, adopted, crossed, kills>>
  BY DEF BoxWrites, pins, history
<1>3. TypeOK'
  BY <1>1, <1>2 DEF IInv, TypeOK
<1>4. Shown' /\ Numbered' /\ Dated'
  BY <1>2 DEF IInv, Shown, Numbered, Dated
<1>5. \A d \in Checkouts \ crossed' : Uncrossed(d)'
  BY <1>2, UntouchedUncrossed DEF IInv, Untouched, Deleting
<1>6. Reading'
  BY <1>2, UntouchedReading DEF IInv, Untouched, Deleting
<1> QED
  BY <1>3, <1>4, <1>5, <1>6 DEF IInv

-----------------------------------------------------------------------------
(* A generation that is whole is read as it was adopted.                   *)
LEMMA WholeView ==
  ASSUME NEW gn \in GenSet, Whole(gn)
  PROVE View(gn) = gn.files
BY DEF GenSet, FileSet, Whole, View

(* The supervisor's turn: it starts on the marker's generation, and reads  *)
(* it file by file while it is kept.                                       *)
LEMMA TickInv ==
  ASSUME IInv, Tick
  PROVE IInv'
<1>0. /\ tick \in [pc : {"idle", "dir", "files", "report", "runs"}, at : Checkouts, gen : Nat,
                   todo : Seq(Files), cfg : FileSet, moves : 0..2, misled : BOOLEAN]
      /\ tick.pc = "files" => tick.todo # <<>>
      /\ NoFiles \in FileSet /\ Main \in Checkouts /\ <<>> \in Seq(Files)
  BY CheckoutsAssumption DEF IInv, TypeOK, NoFiles, FileSet, Bytes
<1>a. PICK zero \in 0..2 : zero = 0
  OBVIOUS
<1>b. /\ Resting \in [pc : {"idle", "dir", "files", "report", "runs"}, at : Checkouts, gen : Nat,
                      todo : Seq(Files), cfg : FileSet, moves : 0..2, misled : BOOLEAN]
      /\ Resting.pc = "idle" /\ Resting.cfg = NoFiles /\ Resting.gen = 0 /\ Resting.moves = 0
  BY <1>0, <1>a DEF Resting
<1>1. UNCHANGED <<tree, marker, gens, minted, sess, agenda, adopted, crossed, edits, kills>>
  BY DEF Tick, TickBegins, TickOpens, TickReads, TickReports, TickEnds, pins, history
<1>2. Shown' /\ Dated'
  BY <1>1 DEF IInv, Shown, Dated
<1>3. \A d \in Checkouts \ crossed' : Uncrossed(d)'
  BY <1>1, UntouchedUncrossed DEF IInv, Untouched, Deleting
<1>4. SUFFICES /\ tick' \in [pc : {"idle", "dir", "files", "report", "runs"}, at : Checkouts, gen : Nat,
                             todo : Seq(Files), cfg : FileSet, moves : 0..2, misled : BOOLEAN]
               /\ tick'.pc = "files" => tick'.todo # <<>>
               /\ tick'.gen <= minted
               /\ Reading'
  <2>1. TypeOK'
    BY <1>1, <1>4 DEF IInv, TypeOK
  <2>2. Numbered'
    BY <1>1, <1>4 DEF IInv, Numbered
  <2> QED
    BY <1>2, <1>3, <1>4, <2>1, <2>2 DEF IInv
<1>5. ASSUME tick' = Resting PROVE tick'.pc = "idle" /\ tick'.gen <= minted /\ Reading'
  BY <1>b, <1>5 DEF Reading, IInv, TypeOK
<1>6. ASSUME NEW c \in Checkouts, TickBegins(c)
      PROVE /\ tick' \in [pc : {"idle", "dir", "files", "report", "runs"}, at : Checkouts, gen : Nat,
                          todo : Seq(Files), cfg : FileSet, moves : 0..2, misled : BOOLEAN]
            /\ tick'.pc = "files" => tick'.todo # <<>>
            /\ tick'.gen <= minted /\ Reading'
  <2>1. PICK g \in Nat : g = marker[c] /\ g <= minted
    BY DEF IInv, TypeOK, Numbered
  <2>2. tick' = [Resting EXCEPT !.pc = "dir", !.at = c, !.gen = g]
    BY <1>6, <2>1 DEF TickBegins
  <2>3. /\ tick' \in [pc : {"idle", "dir", "files", "report", "runs"}, at : Checkouts, gen : Nat,
                      todo : Seq(Files), cfg : FileSet, moves : 0..2, misled : BOOLEAN]
        /\ tick'.pc = "dir" /\ tick'.at = c /\ tick'.gen = g /\ tick'.cfg = NoFiles /\ tick'.moves = 0
    BY <1>b, <2>2
  <2>4. ASSUME c \notin crossed, g \in DOMAIN gens[c] PROVE Kept(c, g)'
    <3>1. Uncrossed(c) /\ Selected(c)
      BY <2>1, <2>4 DEF IInv, Selected
    <3>2. Whole(gens[c][g]) /\ gens[c][g].named /\ gens[c][g].files \in adopted[c]
      BY <2>1, <3>1 DEF Uncrossed
    <3> QED
      BY <1>1, <2>1, <2>3, <2>4, <3>2 DEF Kept
  <2>5. Reading'
    BY <1>1, <2>1, <2>3, <2>4 DEF Reading
  <2> QED
    BY <2>1, <2>3, <2>5
<1>7. ASSUME TickOpens
      PROVE /\ tick' \in [pc : {"idle", "dir", "files", "report", "runs"}, at : Checkouts, gen : Nat,
                          todo : Seq(Files), cfg : FileSet, moves : 0..2, misled : BOOLEAN]
            /\ tick'.pc = "files" => tick'.todo # <<>>
            /\ tick'.gen <= minted /\ Reading'
  <2>1. /\ tick.pc = "dir"
        /\ \/ tick.gen \in DOMAIN gens[tick.at] /\ tick' = [tick EXCEPT !.pc = "files", !.todo = FileOrder]
           \/ tick' = [tick EXCEPT !.pc = "report"]
    BY <1>7 DEF TickOpens
  <2>2. /\ tick' \in [pc : {"idle", "dir", "files", "report", "runs"}, at : Checkouts, gen : Nat,
                      todo : Seq(Files), cfg : FileSet, moves : 0..2, misled : BOOLEAN]
        /\ tick'.at = tick.at /\ tick'.gen = tick.gen /\ tick'.cfg = tick.cfg
        /\ tick'.moves = tick.moves /\ tick'.misled = tick.misled
        /\ \/ tick'.pc = "files" /\ tick'.todo = FileOrder /\ tick.gen \in DOMAIN gens[tick.at]
           \/ tick'.pc = "report"
    BY <1>0, <2>1, FilesToRead
  <2>3. tick'.gen <= minted
    BY <2>2 DEF IInv, Numbered
  <2>4. Told(tick)' => Told(tick)
    BY <2>2 DEF Told
  <2>5. PICK c \in Checkouts, g \in Nat : c = tick.at /\ g = tick.gen
    BY <1>0
  <2>6. Kept(c, g)' <=> Kept(c, g)
    BY <1>1, <2>2 DEF Kept, Deleting
  <2>7. CASE tick'.pc = "files"
    <3>1. c \notin crossed' /\ Told(tick)' => Kept(c, g)'
      BY <1>1, <2>1, <2>2, <2>4, <2>5, <2>6, <2>7 DEF IInv, Reading
    <3>2. \A f \in Files : \E i \in DOMAIN tick'.todo : tick'.todo[i] = f
      BY <2>2, <2>7, FilesAssumption
    <3> QED
      BY <2>2, <2>3, <2>5, <2>7, <3>1, <3>2, FilesToRead DEF Reading
  <2>8. CASE tick'.pc = "report"
    <3>1. c \notin crossed' /\ Told(tick)' => tick'.cfg = NoFiles
      BY <1>1, <2>1, <2>2, <2>4, <2>5 DEF IInv, Reading
    <3> QED
      BY <2>2, <2>3, <2>5, <2>8, <3>1 DEF Reading
  <2> QED
    BY <2>2, <2>7, <2>8
<1>8. ASSUME TickReads
      PROVE /\ tick' \in [pc : {"idle", "dir", "files", "report", "runs"}, at : Checkouts, gen : Nat,
                          todo : Seq(Files), cfg : FileSet, moves : 0..2, misled : BOOLEAN]
            /\ tick'.pc = "files" => tick'.todo # <<>>
            /\ tick'.gen <= minted /\ Reading'
  <2>0. tick.pc = "files" /\ tick.todo # <<>> /\ tick.todo \in Seq(Files)
    BY <1>0, <1>8 DEF TickReads
  <2>a. PICK c \in Checkouts, g \in Nat, q \in Seq(Files) : c = tick.at /\ g = tick.gen /\ q = tick.todo /\ q # <<>>
    BY <1>0, <2>0
  <2>1. PICK f \in Files, rest \in Seq(Files) :
          /\ f = Head(q) /\ rest = Tail(q)
          /\ \A i \in DOMAIN q : q[i] = f \/ \E j \in DOMAIN rest : rest[j] = q[i]
    <3>1. /\ Head(q) \in Files /\ Tail(q) \in Seq(Files)
          /\ \A i \in DOMAIN q : q[i] = Head(q) \/ \E j \in DOMAIN Tail(q) : Tail(q)[j] = q[i]
      BY <2>a, TakingOne
    <3> QED
      BY <3>1, Zenon
  <2>2. PICK seen \in Bytes : seen = IF g \in DOMAIN gens[c] THEN View(gens[c][g])[f] ELSE Absent
    <3>1. g \in DOMAIN gens[c] => gens[c][g] \in GenSet
      BY DEF IInv, TypeOK
    <3> QED
      BY <3>1 DEF View, GenSet, FileSet, Bytes
  <2>3. PICK pc \in {"files", "report"} : pc = IF rest = <<>> THEN "report" ELSE "files"
    OBVIOUS
  <2>4. tick' = [tick EXCEPT !.cfg[f] = seen, !.todo = rest, !.pc = pc]
    BY <1>8, <2>0, <2>a, <2>1, <2>2, <2>3 DEF TickReads
  <2>5. /\ tick' \in [pc : {"idle", "dir", "files", "report", "runs"}, at : Checkouts, gen : Nat,
                      todo : Seq(Files), cfg : FileSet, moves : 0..2, misled : BOOLEAN]
        /\ tick'.at = c /\ tick'.gen = g /\ tick'.moves = tick.moves /\ tick'.misled = tick.misled
        /\ tick'.pc = pc /\ tick'.todo = rest
        /\ tick'.cfg[f] = seen /\ \A e \in Files : e # f => tick'.cfg[e] = tick.cfg[e]
    <3> DEFINE cfg == [tick.cfg EXCEPT ![f] = seen]
    <3>1. tick' = [tick EXCEPT !.cfg = cfg, !.todo = rest, !.pc = pc]
      BY <1>0, <2>4
    <3>2. tick.cfg \in [Files -> Bytes]
      BY <1>0 DEF FileSet
    <3>3. cfg \in FileSet /\ cfg[f] = seen /\ \A e \in Files : e # f => cfg[e] = tick.cfg[e]
      BY <3>2 DEF FileSet
    <3> HIDE DEF cfg
    <3> QED
      BY <1>0, <2>a, <3>1, <3>3
  <2>6. g <= minted
    BY <2>a, <2>1 DEF IInv, Numbered
  <2>7. Told(tick)' => Told(tick)
    BY <2>5 DEF Told
  <2>8. Kept(c, g)' <=> Kept(c, g)
    BY <1>1, <2>5 DEF Kept, Deleting
  <2>9. ASSUME c \notin crossed, Told(tick)'
        PROVE /\ Kept(c, g) /\ gens[c][g] \in GenSet
              /\ \A e \in Files : \/ tick'.cfg[e] = gens[c][g].files[e]
                                  \/ \E j \in DOMAIN rest : rest[j] = e
    <3>1. /\ Kept(c, g)
          /\ \A e \in Files : \/ tick.cfg[e] = gens[c][g].files[e]
                              \/ \E i \in DOMAIN tick.todo : tick.todo[i] = e
      BY <2>0, <2>a, <2>1, <2>7, <2>9 DEF IInv, Reading
    <3>2. gens[c][g] \in GenSet /\ Whole(gens[c][g]) /\ g \in DOMAIN gens[c]
      BY <3>1 DEF Kept, IInv, TypeOK
    <3>3. seen = gens[c][g].files[f]
      BY <2>2, <3>2, WholeView
    <3>4. ASSUME NEW e \in Files
          PROVE tick'.cfg[e] = gens[c][g].files[e] \/ \E j \in DOMAIN rest : rest[j] = e
      <4>1. CASE e = f
        BY <2>5, <3>3, <4>1
      <4>2. CASE e # f
        <5>1. tick'.cfg[e] = tick.cfg[e]
          BY <2>5, <4>2
        <5>2. CASE \E i \in DOMAIN tick.todo : tick.todo[i] = e
          BY <2>a, <2>1, <4>2, <5>2
        <5> QED
          BY <3>1, <5>1, <5>2
      <4> QED
        BY <4>1, <4>2
    <3> QED
      BY <3>1, <3>2, <3>4
  <2>10. CASE pc = "files"
    BY <1>1, <2>3, <2>5, <2>6, <2>8, <2>9, <2>10 DEF Reading
  <2>11. CASE pc = "report"
    <3>1. DOMAIN rest = {}
      BY <2>a, <2>1, <2>3, <2>11
    <3>2. ASSUME c \notin crossed, Told(tick)' PROVE tick'.cfg \in adopted[c]
      <4>1. \A e \in Files : tick'.cfg[e] = gens[c][g].files[e]
        BY <2>9, <3>1, <3>2
      <4>2. tick'.cfg = gens[c][g].files
        <5>1. tick'.cfg \in FileSet /\ gens[c][g].files \in FileSet
          BY <2>5, <2>9, <3>2 DEF GenSet
        <5> QED
          BY <4>1, <5>1 DEF FileSet
      <4> QED
        BY <2>9, <3>2, <4>2 DEF Kept
    <3> QED
      BY <1>1, <2>5, <2>6, <2>11, <3>2 DEF Reading
  <2> QED
    BY <2>10, <2>11
<1>9. ASSUME TickReports
      PROVE /\ tick' \in [pc : {"idle", "dir", "files", "report", "runs"}, at : Checkouts, gen : Nat,
                          todo : Seq(Files), cfg : FileSet, moves : 0..2, misled : BOOLEAN]
            /\ tick'.pc = "files" => tick'.todo # <<>>
            /\ tick'.gen <= minted /\ Reading'
  <2>1. CASE tick' = Resting
    BY <1>5, <1>b, <2>1
  <2>2. CASE tick' = [tick EXCEPT !.pc = "runs", !.gen = 0]
    <3>1. /\ tick' \in [pc : {"idle", "dir", "files", "report", "runs"}, at : Checkouts, gen : Nat,
                        todo : Seq(Files), cfg : FileSet, moves : 0..2, misled : BOOLEAN]
          /\ tick'.pc = "runs" /\ tick'.at = tick.at /\ tick'.gen = 0 /\ tick'.cfg = tick.cfg
          /\ tick'.moves = tick.moves /\ tick'.misled = tick.misled
      BY <1>0, <2>2
    <3>2. Told(tick)' => Told(tick)
      BY <3>1 DEF Told
    <3>3. tick.pc = "report" /\ 0 <= minted
      BY <1>9 DEF TickReports, IInv, TypeOK
    <3>4. Reading'
      BY <1>1, <3>1, <3>2, <3>3 DEF Reading, IInv
    <3> QED
      BY <3>1, <3>3, <3>4
  <2> QED
    BY <1>9, <2>1, <2>2 DEF TickReports
<1>10. ASSUME TickEnds PROVE tick' = Resting
  BY <1>10 DEF TickEnds
<1> QED
  BY <1>5, <1>6, <1>7, <1>8, <1>9, <1>10, <1>b DEF Tick

-----------------------------------------------------------------------------
LEMMA NextInv == IInv /\ [Next]_vars => IInv'
<1> SUFFICES ASSUME IInv, [Next]_vars PROVE IInv'
  OBVIOUS
<1>1. CASE UNCHANGED vars
  <2>1. UNCHANGED <<tree, marker, gens, minted, sess, tick, agenda, adopted, crossed, edits, kills>>
    BY <1>1 DEF vars, pins, history
  <2>2. TypeOK' /\ Shown' /\ Numbered' /\ Dated'
    BY <2>1 DEF IInv, TypeOK, Shown, Numbered, Dated
  <2>3. \A d \in Checkouts \ crossed' : Uncrossed(d)'
    BY <2>1, UntouchedUncrossed DEF IInv, Untouched, Deleting
  <2>4. Reading'
    BY <2>1, UntouchedReading DEF IInv, Untouched, Deleting
  <2> QED
    BY <2>2, <2>3, <2>4 DEF IInv
<1>2. CASE \E c \in Checkouts, f \in Files : BoxWrites(c, f)
  BY <1>2, BoxWritesInv
<1>3. ASSUME NEW s \in Sessions, Session(s) PROVE IInv'
  BY <1>3, QuietStepInv, PublishInv, MarkInv, PruneInv, DeleteInv, ForgetInv DEF Session, QuietStep
<1>4. CASE Tick
  BY <1>4, TickInv
<1> QED
  BY <1>1, <1>2, <1>3, <1>4 DEF Next

LEMMA Invariance == Spec => []IInv
<1> QED
  BY InitInv, NextInv, PTL DEF Spec

(* Every variable keeps its type, generations are numbered up to the last  *)
(* one made, and whoever reads or puts back files has some left            *)
(* (configpin.py's inspect, revert and generation_id).                     *)
THEOREM TypeCorrect == Spec => []TypeOK
<1>1. IInv => TypeOK
  BY DEF IInv
<1> QED
  BY <1>1, Invariance, PTL

(* What a pin holds is what an operator was shown, and every turn of the   *)
(* supervisor short of the named races runs one adopted file set, whole,   *)
(* or none: adopt() compares once more, publishes before it marks, and     *)
(* prunes neither the pin nor what a reader of the last one still reads.   *)
THEOREM ShownAndWhole == Spec => []RunsWhatWasShown
<1>1. IInv => PinIsWhatWasShown
  BY DEF IInv, Shown, PinIsWhatWasShown, Selected
<1>2. IInv => TicksRunWhole
  BY DEF IInv, Reading, Told, TicksRunWhole
<1>3. IInv => RunsWhatWasShown
  BY <1>1, <1>2 DEF RunsWhatWasShown
<1> QED
  BY <1>3, Invariance, PTL

-----------------------------------------------------------------------------
(* What the promise is about: what runs for each checkout not crossed, and *)
(* what was ever adopted for it.                                           *)
Runs == [c \in Checkouts |-> IF c \in crossed THEN Nothing ELSE PinOf(c)]
Was == [c \in Checkouts |-> IF c \in crossed THEN {} ELSE adopted[c]]

(* What a checkout runs stays what it is while the generation its marker   *)
(* names stays as it is.                                                   *)
LEMMA SamePin ==
  ASSUME NEW c \in Checkouts, marker'[c] = marker[c], Selected(c)' <=> Selected(c),
         Selected(c) => View(gens'[c][marker[c]]) = View(gens[c][marker[c]])
  PROVE PinOf(c)' = PinOf(c)
BY DEF PinOf, Selected, View

(* Crossing loses the checkout its promise, once.                          *)
LEMMA CrossingLoses ==
  ASSUME NEW c \in Checkouts, crossed' = crossed \cup {c}, crossed \subseteq Checkouts,
         \A d \in Checkouts \ crossed' : PinOf(d)' = PinOf(d) /\ adopted'[d] = adopted[d]
  PROVE Promise!Lose(c)
<1>1. Runs' = [Runs EXCEPT ![c] = Nothing]
  BY DEF Runs
<1>2. Was' = [Was EXCEPT ![c] = {}]
  BY DEF Was
<1> QED
  BY <1>1, <1>2 DEF Promise!Lose, Runs, Was

(* A step that crosses nobody's path and moves no pin is none of the       *)
(* promise's.                                                              *)
LEMMA PromiseStutters ==
  ASSUME crossed' = crossed,
         \A d \in Checkouts \ crossed : PinOf(d)' = PinOf(d) /\ adopted'[d] = adopted[d]
  PROVE UNCHANGED <<Runs, Was, crossed>>
BY DEF Runs, Was

LEMMA InitPromise == Init => Promise!Init
<1> SUFFICES ASSUME Init PROVE Promise!Init
  OBVIOUS
<1>1. IInv /\ crossed = {}
  BY InitInv DEF Init
<1>2. \A c \in Checkouts : PinOf(c) \in FileSet \cup {Nothing}
  BY <1>1, PinIsFiles DEF IInv
<1>3. ASSUME NEW c \in Checkouts PROVE adopted[c] = {PinOf(c)} \ {Nothing}
  <2>1. PICK held \in {{}, {d \in Checkouts : tree[d] # NoFiles}} :
          /\ marker = [d \in Checkouts |-> IF d \in held THEN 1 ELSE 0]
          /\ gens = [d \in Checkouts |-> [g \in (IF d \in held THEN {1} ELSE {}) |-> Earlier(tree[d])]]
          /\ adopted = [d \in Checkouts |-> IF d \in held THEN {tree[d]} ELSE {}]
    BY DEF Init
  <2>2. tree[c] \in FileSet
    BY <1>1 DEF IInv, TypeOK
  <2>3. CASE c \in held
    <3>1. gens[c][1] = Earlier(tree[c]) /\ marker[c] = 1 /\ 1 \in DOMAIN gens[c]
      BY <2>1, <2>3
    <3>2. Earlier(tree[c]) \in GenSet /\ Whole(Earlier(tree[c])) /\ Earlier(tree[c]).files = tree[c]
      BY <2>2 DEF Earlier, GenSet, Whole
    <3>3. PinOf(c) = tree[c]
      BY <3>1, <3>2, WholeView DEF PinOf, Selected
    <3> QED
      BY <2>1, <2>2, <2>3, <3>3, NothingAssumption
  <2>4. CASE c \notin held
    <3>1. PinOf(c) = Nothing
      BY <2>1, <2>4 DEF PinOf, Selected
    <3> QED
      BY <2>1, <2>4, <3>1
  <2> QED
    BY <2>3, <2>4
<1> QED
  BY <1>1, <1>2, <1>3 DEF Promise!Init

(* The marker's one rename is the adoption the promise speaks of.          *)
LEMMA MarkAdopts ==
  ASSUME IInv, NEW s \in Sessions, Mark(s)
  PROVE Promise!Next \/ UNCHANGED <<Runs, Was, crossed>>
<1>a. PICK c \in Checkouts, g \in Nat : c = sess[s].at /\ g = sess[s].gen
  BY Facts
<1>0. /\ marker \in [Checkouts -> Nat] /\ DOMAIN gens = Checkouts /\ crossed \subseteq Checkouts
      /\ adopted \in [Checkouts -> SUBSET FileSet]
      /\ \A d \in Checkouts : \A x \in DOMAIN gens[d] : gens[d][x] \in GenSet
  BY Facts DEF IInv, TypeOK
<1>1. /\ marker' = [marker EXCEPT ![c] = g]
      /\ IF g \in DOMAIN gens[c]
           THEN /\ gens' = [gens EXCEPT ![c][g].named = TRUE]
                /\ adopted' = [adopted EXCEPT ![c] = adopted[c] \cup {gens[c][g].files}]
           ELSE UNCHANGED <<gens, adopted>>
      /\ crossed' = IF Waiting(c) = {g} THEN crossed ELSE crossed \cup {c}
  BY <1>a DEF Mark, At, Crossing
<1>2. ASSUME NEW d \in Checkouts, d # c PROVE PinOf(d)' = PinOf(d) /\ adopted'[d] = adopted[d]
  <2>1. gens'[d] = gens[d] /\ marker'[d] = marker[d] /\ adopted'[d] = adopted[d]
    BY <1>0, <1>1, <1>2
  <2> QED
    BY <2>1 DEF PinOf, Selected
<1>3. CASE Waiting(c) # {g}
  BY <1>0, <1>1, <1>2, <1>3, CrossingLoses DEF Promise!Next
<1>4. CASE Waiting(c) = {g} /\ c \in crossed
  BY <1>1, <1>2, <1>4, PromiseStutters
<1>5. CASE Waiting(c) = {g} /\ c \notin crossed
  <2>1. g \in DOMAIN gens[c] /\ Whole(gens[c][g]) /\ gens[c][g] \in GenSet
    BY <1>0, <1>5 DEF IInv, Uncrossed, Waiting
  <2>2. gens'[c][g] = [gens[c][g] EXCEPT !.named = TRUE] /\ DOMAIN gens'[c] = DOMAIN gens[c]
    BY <1>0, <1>1, <2>1
  <2>3. gens'[c][g] \in GenSet /\ Whole(gens'[c][g]) /\ gens'[c][g].files = gens[c][g].files
    BY <2>1, <2>2 DEF GenSet, Whole
  <2>4. PICK files \in FileSet : files = gens[c][g].files
    BY <2>1 DEF GenSet
  <2>5. PinOf(c)' = files
    BY <1>0, <1>1, <2>1, <2>2, <2>3, <2>4, WholeView DEF PinOf, Selected
  <2>6. adopted'[c] = adopted[c] \cup {files} /\ crossed' = crossed
    BY <1>0, <1>1, <1>5, <2>1, <2>4
  <2>7. Runs' = [Runs EXCEPT ![c] = files]
    BY <1>2, <1>5, <2>5, <2>6 DEF Runs
  <2>8. Was' = [Was EXCEPT ![c] = Was[c] \cup {files}]
    BY <1>2, <1>5, <2>6 DEF Was
  <2>9. Promise!Adopt(c)
    BY <1>5, <2>4, <2>6, <2>7, <2>8 DEF Promise!Adopt, Runs, Was
  <2> QED
    BY <2>9 DEF Promise!Next
<1> QED
  BY <1>3, <1>4, <1>5

(* So is forgetting, and crossing another's path.                          *)
LEMMA ForgetDrops ==
  ASSUME IInv, NEW s \in Sessions, Forget(s)
  PROVE Promise!Next \/ UNCHANGED <<Runs, Was, crossed>>
<1>a. PICK c \in Checkouts : c = sess[s].at
  BY Facts
<1>0. /\ marker \in [Checkouts -> Nat] /\ DOMAIN gens = Checkouts /\ crossed \subseteq Checkouts
      /\ \A d \in Checkouts : DOMAIN gens[d] \subseteq 1..minted
  BY Facts
<1>1. /\ marker' = [marker EXCEPT ![c] = 0] /\ gens' = gens /\ adopted' = adopted
      /\ crossed' = IF Waiting(c) = {} THEN crossed ELSE crossed \cup {c}
  BY <1>a DEF Forget, At, Crossing
<1>2. ASSUME NEW d \in Checkouts, d # c PROVE PinOf(d)' = PinOf(d) /\ adopted'[d] = adopted[d]
  BY <1>0, <1>1, <1>2 DEF PinOf, Selected, View
<1>3. CASE Waiting(c) # {}
  BY <1>0, <1>1, <1>2, <1>3, CrossingLoses DEF Promise!Next
<1>4. CASE Waiting(c) = {} /\ c \in crossed
  BY <1>1, <1>2, <1>4, PromiseStutters
<1>5. CASE Waiting(c) = {} /\ c \notin crossed
  <2>1. PinOf(c)' = Nothing
    BY <1>0, <1>1 DEF PinOf, Selected
  <2>2. Runs' = [Runs EXCEPT ![c] = Nothing]
    BY <1>1, <1>2, <1>5, <2>1 DEF Runs
  <2>3. Was' = Was /\ crossed' = crossed
    BY <1>1, <1>5 DEF Was
  <2>4. Promise!Drop(c)
    BY <1>5, <2>2, <2>3 DEF Promise!Drop, Runs, Was
  <2> QED
    BY <2>4 DEF Promise!Next
<1> QED
  BY <1>3, <1>4, <1>5

LEMMA PruneCrosses ==
  ASSUME IInv, NEW s \in Sessions, Prune(s)
  PROVE Promise!Next \/ UNCHANGED <<Runs, Was, crossed>>
<1>a. PICK c \in Checkouts : c = sess[s].at
  BY Facts
<1>1. /\ marker' = marker /\ gens' = gens /\ adopted' = adopted
      /\ crossed' = crossed \/ crossed' = crossed \cup {c}
  BY <1>a DEF Prune, At, Crossing, pins
<1>2. \A d \in Checkouts : PinOf(d)' = PinOf(d) /\ adopted'[d] = adopted[d]
  BY <1>1 DEF PinOf, Selected, View
<1>3. crossed \subseteq Checkouts
  BY Facts
<1> QED
  BY <1>1, <1>2, <1>3, CrossingLoses, PromiseStutters DEF Promise!Next

(* Nobody sees a generation that is published and not named yet, nor one   *)
(* that is deleted.                                                        *)
LEMMA PublishShowsNothing ==
  ASSUME IInv, NEW s \in Sessions, Publish(s)
  PROVE UNCHANGED <<Runs, Was, crossed>>
<1>a. PICK c \in Checkouts, new \in Nat : c = sess[s].at /\ new = minted + 1
  BY Facts
<1>0. /\ marker \in [Checkouts -> Nat] /\ DOMAIN gens = Checkouts /\ minted \in Nat
      /\ \A d \in Checkouts : marker[d] <= minted
  BY Facts DEF IInv, Numbered
<1>1. /\ gens' = [gens EXCEPT ![c] = [g \in DOMAIN gens[c] \cup {new} |->
                                        IF g = new THEN Generation(sess[s]) ELSE gens[c][g]]]
      /\ marker' = marker /\ adopted' = adopted /\ crossed' = crossed
  BY <1>a DEF Publish, At, history
<1>2. ASSUME NEW d \in Checkouts PROVE PinOf(d)' = PinOf(d) /\ adopted'[d] = adopted[d]
  <2>0. marker[d] # new /\ marker'[d] = marker[d]
    BY <1>a, <1>0, <1>1
  <2>1. CASE d # c
    <3>1. gens'[d] = gens[d]
      BY <1>0, <1>1, <2>1
    <3> QED
      BY <1>1, <3>1 DEF PinOf, Selected, View
  <2>2. CASE d = c
    <3>1. DOMAIN gens'[c] = DOMAIN gens[c] \cup {new}
          /\ \A g \in DOMAIN gens[c] : g # new => gens'[c][g] = gens[c][g]
      BY <1>0, <1>1
    <3>2. Selected(c)' <=> Selected(c)
      BY <2>0, <2>2, <3>1 DEF Selected
    <3>3. Selected(c) => gens'[c][marker[c]] = gens[c][marker[c]]
      BY <2>0, <2>2, <3>1 DEF Selected
    <3> QED
      BY <1>1, <2>0, <2>2, <3>2, <3>3, SamePin
  <2> QED
    BY <2>1, <2>2
<1> QED
  BY <1>1, <1>2, PromiseStutters

LEMMA DeleteShowsNothing ==
  ASSUME IInv, NEW s \in Sessions, Delete(s)
  PROVE UNCHANGED <<Runs, Was, crossed>>
<1>a. PICK c \in Checkouts : c = sess[s].at
  BY Facts
<1>0. DOMAIN gens = Checkouts
  BY Facts
<1>1. PICK g \in sess[s].doomed \cap DOMAIN gens[c] : Unlink(c, g)
  BY <1>a DEF Delete, At
<1>2. /\ marker' = marker /\ adopted' = adopted /\ crossed' = crossed /\ Deleting(s, c)
  BY <1>a DEF Delete, Deleting, history
<1>3. /\ \A d \in Checkouts : d # c => gens'[d] = gens[d]
      /\ \A x : x # g => (x \in DOMAIN gens'[c] <=> x \in DOMAIN gens[c])
      /\ \A x \in DOMAIN gens[c] : x # g => gens'[c][x] = gens[c][x]
  <2>1. CASE gens' = [gens EXCEPT ![c] = [h \in DOMAIN gens[c] \ {g} |-> gens[c][h]]]
    BY <1>0, <2>1
  <2>2. ASSUME NEW gn, gens' = [gens EXCEPT ![c][g] = gn]
        PROVE /\ \A d \in Checkouts : d # c => gens'[d] = gens[d]
              /\ DOMAIN gens'[c] = DOMAIN gens[c]
              /\ \A x \in DOMAIN gens[c] : x # g => gens'[c][x] = gens[c][x]
    BY <1>0, <2>2
  <2> QED
    BY <1>1, <2>1, <2>2 DEF Unlink
<1>4. ASSUME NEW d \in Checkouts \ crossed PROVE PinOf(d)' = PinOf(d) /\ adopted'[d] = adopted[d]
  <2>1. CASE d # c
    BY <1>2, <1>3, <2>1 DEF PinOf, Selected, View
  <2>2. CASE d = c
    <3>1. g # marker[c]
      BY <1>a, <1>2, <1>4, <2>2 DEF IInv, Uncrossed
    <3>2. Selected(c)' <=> Selected(c)
      BY <1>2, <1>3, <3>1 DEF Selected
    <3>3. Selected(c) => gens'[c][marker[c]] = gens[c][marker[c]]
      BY <1>3, <3>1 DEF Selected
    <3> QED
      BY <1>2, <2>2, <3>2, <3>3, SamePin
  <2> QED
    BY <2>1, <2>2
<1> QED
  BY <1>2, <1>4, PromiseStutters

LEMMA StepPromise ==
  ASSUME IInv, [Next]_vars
  PROVE Promise!Next \/ UNCHANGED <<Runs, Was, crossed>>
<1>1. ASSUME UNCHANGED <<marker, gens, adopted, crossed>> PROVE UNCHANGED <<Runs, Was, crossed>>
  <2>1. \A d \in Checkouts : PinOf(d)' = PinOf(d)
    BY <1>1 DEF PinOf, Selected, View
  <2> QED
    BY <1>1, <2>1, PromiseStutters
<1>2. CASE UNCHANGED vars
  BY <1>1, <1>2 DEF vars, pins, history
<1>3. CASE (\E c \in Checkouts, f \in Files : BoxWrites(c, f)) \/ Tick
  BY <1>1, <1>3 DEF BoxWrites, Tick, TickBegins, TickOpens, TickReads, TickReports, TickEnds, pins, history
<1>4. ASSUME NEW s \in Sessions, Session(s) PROVE Promise!Next \/ UNCHANGED <<Runs, Was, crossed>>
  <2>1. CASE QuietStep(s)
    <3>1. UNCHANGED <<marker, gens, adopted, crossed>>
      BY <2>1 DEF QuietStep, Start, Inspect, ReadTree, Measure, AdoptUnasked, SaysAdopt, SaysRevert, SaysShare,
                  Leaves, Check, Adopted, Restore, Razed, CheckOut, Killed, pins, history
    <3> QED
      BY <1>1, <3>1
  <2> QED
    BY <1>4, <2>1, MarkAdopts, ForgetDrops, PruneCrosses, PublishShowsNothing, DeleteShowsNothing
       DEF Session, QuietStep
<1> QED
  BY <1>2, <1>3, <1>4 DEF Next

(* What the host runs for a checkout is switched whole, in one step, by an *)
(* adoption, and dropped only by forgetting it: the generations of         *)
(* configpin.py implement AdoptedConfig, whoever is killed, as long as     *)
(* adoptions do not cross.                                                 *)
THEOREM PinsImplementTheirPromise == Spec => PinSwitchesWhole
<1>1. Init => Promise!Init
  BY InitPromise
<1>2. IInv /\ [Next]_vars => [Promise!Next]_<<Runs, Was, crossed>>
  BY StepPromise
<1> QED
  BY <1>1, <1>2, Invariance, PTL DEF Spec, PinSwitchesWhole, Promise!Spec, Runs, Was

-----------------------------------------------------------------------------
(* The agents' sessions of a box.                                          *)

(* What may be said of a session, and of the one a resume removes.         *)
FromOK(s, f) ==
  s.id = f.id /\ (f.took = f.thread \/ (s.agent = "codex" /\ f.tag # f.thread))
IsSession(s, i, k) ==
  s \in [born : 0..k, name : {s.name}, id : 1..i, agent : Agent!Agents, tag : (-1)..i,
         thread : 0..i, alive : BOOLEAN, stale : BOOLEAN, asked : BOOLEAN, from : {s.from}]
SessionOK(s, i, k) ==
  /\ IsSession(s, i, k)
  /\ s.agent = "claude" /\ s.tag = 0 => s.thread = s.id
  /\ s.agent = "claude" /\ s.tag > 0 => s.tag = s.id /\ s.thread = s.id
  /\ s.tag < 0 => s.agent = "claude" /\ s.asked
  /\ \A f \in s.from : FromOK(s, f)

(* No two sessions were made by one command, and no two share a            *)
(* conversation that neither was asked for.                                *)
BornApart(S) == \A s, t \in S : s.born = t.born => s = t
Apart(s, t) ==
  /\ s.thread = t.thread => s.thread <= 0
  /\ s.thread = t.tag => s.thread <= 0
  /\ s.tag = t.thread => s.tag <= 0
  /\ s.tag = t.tag => s.tag <= 0
TalkApart(S) == \A s, t \in S : s # t /\ ~s.asked /\ ~t.asked => Apart(s, t)

(* A command in progress, of a box that holds the sessions S.              *)
IsCommand(c, i, k) ==
  c \in [pc : {"idle", "remove", "launch"}, verb : {"", "resume", "stop", "clean"}, born : 0..k,
         blind : BOOLEAN, known : SUBSET (0..k), old : {c.old}, doomed : {c.doomed},
         name : {c.name}, agent : {c.agent}, conv : 0..i]
ResumeOK(c, S, i, k) ==
  /\ c.doomed = {} /\ c.agent \in Agent!Agents /\ c.conv > 0 /\ c.born \notin c.known
  /\ \A t \in S : t.born # c.born
  /\ \A o \in c.old :
       c.old = {o} /\ SessionOK(o, i, k) /\ o.agent = c.agent /\ Agent!Conversation(o) = c.conv
         /\ o.born \in c.known
  /\ ~c.blind =>
       \A t \in S : ~t.asked /\ t.born \in c.known => \E o \in c.old : t.born = o.born \/ o.asked
  /\ c.pc = "remove" => \A o \in c.old : \A t \in S : t.born = o.born => t.name = o.name
  /\ c.pc = "launch" => \A o \in c.old : \A t \in S : t.born # o.born
CommandOK(c, S, i, k) ==
  /\ IsCommand(c, i, k)
  /\ c.pc = "launch" => c.verb = "resume"
  /\ c.verb = "resume" => ResumeOK(c, S, i, k)
Interleaved(c, d) ==
  c.verb = "resume" /\ d.verb = "resume" =>
    c.born # d.born /\ c.born \notin d.known /\ d.born \notin c.known

CommandsOK(C, S, i, k) ==
  /\ \A p \in Operators : CommandOK(C[p], S, i, k)
  /\ \A p, q \in Operators : p # q => Interleaved(C[p], C[q])

(* The inductive invariant.                                                *)
SessionsInv ==
  /\ ids \in Nat /\ commands \in Nat
  /\ convs \in [Agent!Agents -> SUBSET (1..ids)]
  /\ cmd = [p \in Operators |-> cmd[p]]
  /\ \A s \in sessions : SessionOK(s, ids, commands)
  /\ BornApart(sessions)
  /\ TalkApart(sessions)
  /\ CommandsOK(cmd, sessions, ids, commands)

LEMMA IdleIsOK ==
  ASSUME NEW S, NEW i \in Nat, NEW k \in Nat
  PROVE CommandOK(Agent!Idle, S, i, k)
<1>1. Agent!Idle.pc = "idle" /\ Agent!Idle.verb = ""
  BY DEF Agent!Idle
<1>2. IsCommand(Agent!Idle, i, k)
  BY DEF Agent!Idle, IsCommand
<1> QED
  BY <1>1, <1>2 DEF CommandOK

LEMMA SessionLater ==
  ASSUME NEW s, NEW i \in Nat, NEW k \in Nat, NEW j \in Nat, NEW l \in Nat, i <= j, k <= l,
         SessionOK(s, i, k)
  PROVE SessionOK(s, j, l)
<1>1. IsSession(s, j, l)
  <2>1. 0..k \subseteq 0..l /\ 1..i \subseteq 1..j /\ (-1)..i \subseteq (-1)..j /\ 0..i \subseteq 0..j
    OBVIOUS
  <2> QED
    BY <2>1 DEF SessionOK, IsSession
<1> QED
  BY <1>1 DEF SessionOK

(* What a change of the sessions leaves of a command: each session is one  *)
(* that was there, or one of another command's.                            *)
Carried(c, S, T) ==
  \A t \in T : \/ \E u \in S : u.born = t.born /\ u.name = t.name /\ u.asked = t.asked
               \/ c.verb = "resume" => t.born \notin c.known /\ t.born # c.born

LEMMA CommandLater ==
  ASSUME NEW c, NEW S, NEW T, NEW i \in Nat, NEW k \in Nat, NEW j \in Nat, NEW l \in Nat,
         i <= j, k <= l, CommandOK(c, S, i, k), Carried(c, S, T)
  PROVE CommandOK(c, T, j, l)
<1>1. IsCommand(c, j, l)
  <2>1. 0..k \subseteq 0..l /\ 0..i \subseteq 0..j
    OBVIOUS
  <2>2. SUBSET (0..k) \subseteq SUBSET (0..l)
    BY <2>1
  <2> QED
    BY <2>1, <2>2 DEF CommandOK, IsCommand
<1>2. ASSUME c.verb = "resume" PROVE ResumeOK(c, T, j, l)
  <2>0. ResumeOK(c, S, i, k)
    BY <1>2 DEF CommandOK
  <2>1. /\ c.doomed = {} /\ c.agent \in Agent!Agents /\ c.conv > 0 /\ c.born \notin c.known
        /\ \A t \in T : t.born # c.born
    BY <1>2, <2>0 DEF ResumeOK, Carried
  <2>2. \A o \in c.old :
          c.old = {o} /\ SessionOK(o, j, l) /\ o.agent = c.agent /\ Agent!Conversation(o) = c.conv
            /\ o.born \in c.known
    BY <2>0, SessionLater DEF ResumeOK
  <2>3. ASSUME ~c.blind, NEW t \in T, ~t.asked, t.born \in c.known
        PROVE \E o \in c.old : t.born = o.born \/ o.asked
    BY <1>2, <2>0, <2>3 DEF ResumeOK, Carried
  <2>4. ASSUME c.pc = "remove", NEW o \in c.old, NEW t \in T, t.born = o.born PROVE t.name = o.name
    BY <1>2, <2>0, <2>4 DEF ResumeOK, Carried
  <2>5. ASSUME c.pc = "launch", NEW o \in c.old, NEW t \in T PROVE t.born # o.born
    BY <1>2, <2>0, <2>5 DEF ResumeOK, Carried
  <2> QED
    BY <2>1, <2>2, <2>3, <2>4, <2>5 DEF ResumeOK
<1> QED
  BY <1>1, <1>2 DEF CommandOK

(* The session a command makes.                                            *)
LEMMA SessionMade ==
  ASSUME NEW i \in Nat, NEW k \in Nat, NEW born \in 0..k, NEW name, NEW id \in 1..i,
         NEW agent \in Agent!Agents, NEW tag \in (-1)..i, NEW thread \in 0..i, NEW wanted \in BOOLEAN,
         NEW from
  PROVE LET s == Agent!Session(born, name, id, agent, tag, thread, wanted, from)
        IN  /\ IsSession(s, i, k)
            /\ s.born = born /\ s.name = name /\ s.id = id /\ s.agent = agent /\ s.tag = tag
            /\ s.thread = thread /\ s.asked = wanted /\ s.from = from
BY DEF Agent!Session, IsSession

(* A new session, of a command of its own.                                 *)
LEMMA SessionJoins ==
  ASSUME NEW S, NEW n, BornApart(S), TalkApart(S), \A t \in S : t.born # n.born,
         \A t \in S : ~n.asked /\ ~t.asked => Apart(n, t)
  PROVE BornApart(S \cup {n}) /\ TalkApart(S \cup {n})
<1>1. BornApart(S \cup {n})
  BY DEF BornApart
<1>2. \A t \in S : ~n.asked /\ ~t.asked => Apart(t, n)
  BY DEF Apart
<1>3. TalkApart(S \cup {n})
  BY <1>2 DEF TalkApart
<1> QED
  BY <1>1, <1>3

(* What happens in a pane.                                                 *)
LEMMA SessionBecomes ==
  ASSUME NEW S, NEW s \in S, NEW n, BornApart(S), TalkApart(S), n.born = s.born, n.asked = s.asked,
         \A t \in S : t # s /\ ~s.asked /\ ~t.asked /\ Apart(s, t) => Apart(n, t)
  PROVE BornApart((S \ {s}) \cup {n}) /\ TalkApart((S \ {s}) \cup {n})
<1>1. BornApart(S \ {s}) /\ TalkApart(S \ {s})
  BY DEF BornApart, TalkApart
<1>2. \A t \in S \ {s} : t.born # n.born
  BY DEF BornApart
<1>3. \A t \in S \ {s} : ~n.asked /\ ~t.asked => Apart(n, t)
  BY DEF TalkApart
<1> QED
  BY <1>1, <1>2, <1>3, SessionJoins

(* One terminal's command goes on, the others' stay.                       *)
LEMMA CommandsLater ==
  ASSUME NEW C, C = [q \in Operators |-> C[q]], NEW p \in Operators, NEW c, NEW S, NEW T,
         NEW i \in Nat, NEW k \in Nat, NEW j \in Nat, NEW l \in Nat, i <= j, k <= l,
         CommandsOK(C, S, i, k), CommandOK(c, T, j, l),
         \A q \in Operators : q # p => Carried(C[q], S, T) /\ Interleaved(c, C[q])
  PROVE /\ CommandsOK([C EXCEPT ![p] = c], T, j, l)
        /\ [C EXCEPT ![p] = c] = [q \in Operators |-> [C EXCEPT ![p] = c][q]]
<1> DEFINE D == [C EXCEPT ![p] = c]
<1>1. D[p] = c /\ \A q \in Operators : q # p => D[q] = C[q]
  OBVIOUS
<1>2. D = [q \in Operators |-> D[q]]
  OBVIOUS
<1> HIDE DEF D
<1>3. ASSUME NEW q \in Operators PROVE CommandOK(D[q], T, j, l)
  <2>1. CASE q = p
    BY <1>1, <2>1
  <2>2. CASE q # p
    BY <1>1, <2>2, CommandLater DEF CommandsOK
  <2> QED
    BY <2>1, <2>2
<1>4. ASSUME NEW q \in Operators, NEW r \in Operators, q # r PROVE Interleaved(D[q], D[r])
  <2>1. CASE q = p
    BY <1>1, <1>4, <2>1
  <2>2. CASE r = p
    <3>1. Interleaved(c, C[q])
      BY <1>4, <2>2
    <3> QED
      BY <1>1, <1>4, <2>2, <3>1 DEF Interleaved
  <2>3. CASE q # p /\ r # p
    BY <1>1, <1>4, <2>3 DEF CommandsOK
  <2> QED
    BY <2>1, <2>2, <2>3
<1>5. CommandsOK(D, T, j, l)
  BY <1>3, <1>4 DEF CommandsOK
<1> QED
  BY <1>2, <1>5 DEF D

(* No terminal's command goes on.                                          *)
LEMMA CommandsStay ==
  ASSUME NEW C, NEW S, NEW T, NEW i \in Nat, NEW k \in Nat, NEW j \in Nat, NEW l \in Nat,
         i <= j, k <= l, CommandsOK(C, S, i, k), \A q \in Operators : Carried(C[q], S, T)
  PROVE CommandsOK(C, T, j, l)
BY CommandLater DEF CommandsOK

LEMMA SessionsInitially == Agent!Init => SessionsInv
<1> SUFFICES ASSUME Agent!Init PROVE SessionsInv
  OBVIOUS
<1>1. ids \in {0, 1} /\ commands = 0 /\ ids \in Nat /\ commands \in Nat
  <2>1. ids = 0 \/ ids = 1
    BY Zenon DEF Agent!Init
  <2>2. commands = 0
    BY DEF Agent!Init
  <2> QED
    BY <2>1, <2>2
<1>2. convs \in [Agent!Agents -> SUBSET (1..ids)]
  BY <1>1 DEF Agent!Init, Agent!Agents
<1>3. cmd = [p \in Operators |-> Agent!Idle]
  BY DEF Agent!Init
<1>4. cmd = [p \in Operators |-> cmd[p]]
  BY <1>3
<1>5. CommandsOK(cmd, sessions, ids, commands)
  <2>1. \A p \in Operators : cmd[p] = Agent!Idle
    BY <1>3
  <2>2. Agent!Idle.verb # "resume"
    BY DEF Agent!Idle
  <2>3. \A p, q \in Operators : Interleaved(cmd[p], cmd[q])
    BY <2>1, <2>2 DEF Interleaved
  <2> QED
    BY <1>1, <2>1, <2>3, IdleIsOK DEF CommandsOK
<1> DEFINE first == Agent!Session(0, Agent!Default("claude", 1), 1, "claude", 0, 1, FALSE, {})
<1>6. \/ sessions = {}
      \/ sessions = {first} /\ ids = 1
  BY DEF Agent!Init, Agent!Untagged
<1>7. IsSession(first, 1, commands) /\ first.id = 1 /\ first.tag = 0 /\ first.thread = 1 /\ first.from = {}
  <2>2. PICK none, one, agent, no, name, from :
           /\ first = Agent!Session(none, name, one, agent, none, one, no, from)
           /\ none = 0 /\ one = 1 /\ agent = "claude" /\ no = FALSE /\ from = {}
    BY Zenon
  <2> HIDE DEF first
  <2>3. none \in 0..commands /\ none \in (-1)..one /\ one \in 1..one /\ one \in 0..one /\ one \in Nat
    BY <1>1, <2>2
  <2>4. agent \in Agent!Agents /\ no \in BOOLEAN
    BY <2>2 DEF Agent!Agents
  <2>5. /\ IsSession(first, one, commands) /\ first.id = one /\ first.tag = none /\ first.thread = one
        /\ first.from = from
    BY <1>1, <2>2, <2>3, <2>4, SessionMade
  <2> QED
    BY <2>2, <2>5
<1> HIDE DEF first
<1>8. SessionOK(first, 1, commands)
  BY <1>7 DEF SessionOK
<1>9. \A s \in sessions : SessionOK(s, ids, commands)
  BY <1>6, <1>8
<1>10. BornApart(sessions) /\ TalkApart(sessions)
  BY <1>6 DEF BornApart, TalkApart
<1> QED
  BY <1>1, <1>2, <1>4, <1>5, <1>9, <1>10 DEF SessionsInv

(* A session of its own command joins the others.                          *)
LEMMA MakesKeeps ==
  ASSUME SessionsInv, NEW n, Agent!Makes(n), ids' \in Nat, ids <= ids', commands' \in Nat,
         commands <= commands', SessionOK(n, ids', commands'), \A t \in sessions : t.born # n.born,
         \A t \in sessions : ~n.asked /\ ~t.asked => Apart(n, t)
  PROVE /\ convs' \in [Agent!Agents -> SUBSET (1..ids')]
        /\ \A s \in sessions' : SessionOK(s, ids', commands')
        /\ BornApart(sessions') /\ TalkApart(sessions')
<1>1. sessions' = sessions \cup {n}
  BY DEF Agent!Makes
<1>2. ids \in Nat /\ commands \in Nat
  BY DEF SessionsInv
<1>3. \A s \in sessions' : SessionOK(s, ids', commands')
  BY <1>1, <1>2, SessionLater DEF SessionsInv
<1>4. BornApart(sessions') /\ TalkApart(sessions')
  BY <1>1, SessionJoins DEF SessionsInv
<1>5. convs' \in [Agent!Agents -> SUBSET (1..ids')]
  <2>1. convs \in [Agent!Agents -> SUBSET (1..ids')]
    BY <1>2 DEF SessionsInv
  <2>2. n.thread # 0 => n.thread \in 1..ids'
    BY DEF SessionOK, IsSession
  <2> QED
    BY <2>1, <2>2 DEF Agent!Makes
<1> QED
  BY <1>3, <1>4, <1>5

LEMMA StartKeeps == ASSUME SessionsInv, NEW p \in Operators, Agent!Start(p) PROVE SessionsInv'
<1>1. /\ ids \in Nat /\ commands \in Nat /\ ids' = ids + 1 /\ commands' = commands + 1 /\ cmd' = cmd
      /\ ids' \in Nat /\ commands' \in Nat /\ ids <= ids' /\ commands <= commands'
  BY DEF SessionsInv, Agent!Start
<1>2. PICK agent \in Agent!Agents :
        \E a \in IF agent = "claude" THEN Agent!ClaudeArgs(ids') ELSE Agent!CodexArgs(ids') :
        \E name \in {Agent!Given(n) : n \in Names} \cup {Agent!Default(agent, a.id)} :
          Agent!Makes(Agent!Session(commands', name, a.id, agent, a.tag, a.thread, a.asked, {}))
  BY DEF Agent!Start
<1>3. PICK a \in IF agent = "claude" THEN Agent!ClaudeArgs(ids') ELSE Agent!CodexArgs(ids') :
        \E name \in {Agent!Given(n) : n \in Names} \cup {Agent!Default(agent, a.id)} :
          Agent!Makes(Agent!Session(commands', name, a.id, agent, a.tag, a.thread, a.asked, {}))
  BY <1>2
<1>4. PICK name :
        Agent!Makes(Agent!Session(commands', name, a.id, agent, a.tag, a.thread, a.asked, {}))
  BY <1>3
<1>5. convs["claude"] \subseteq 1..ids /\ convs["codex"] \subseteq 1..ids
  BY <1>1 DEF SessionsInv, Agent!Agents
<1>6. /\ a.id \in 1..ids' /\ a.tag \in (-1)..ids' /\ a.thread \in 0..ids' /\ a.asked \in BOOLEAN
      /\ agent = "claude" /\ a.tag = 0 => a.thread = a.id
      /\ agent = "claude" /\ a.tag > 0 => a.tag = a.id /\ a.thread = a.id
      /\ a.tag < 0 => agent = "claude" /\ a.asked
      /\ ~a.asked => a.tag \in {0, ids'} /\ a.thread \in {0, ids'}
  <2>1. CASE agent = "claude"
    <3>1. a \in Agent!ClaudeArgs(ids')
      BY <1>3, <2>1
    <3>2. CASE a = [id |-> ids', tag |-> ids', thread |-> ids', asked |-> FALSE]
      BY <1>1, <2>1, <3>2
    <3>3. CASE \E c \in convs["claude"] : a = [id |-> c, tag |-> c, thread |-> c, asked |-> TRUE]
      BY <1>1, <1>5, <2>1, <3>3
    <3>4. CASE \E c \in convs["claude"] \cup {ids'} :
                 a = [id |-> ids', tag |-> -1, thread |-> c, asked |-> TRUE]
      BY <1>1, <1>5, <2>1, <3>4
    <3> QED
      BY <3>1, <3>2, <3>3, <3>4 DEF Agent!ClaudeArgs, Agent!NO_CONVERSATION
  <2>2. CASE agent = "codex"
    <3>1. PICK c \in convs["codex"] \cup {0} :
            a = [id |-> ids', tag |-> 0, thread |-> c, asked |-> c # 0]
      BY <1>3, <2>2 DEF Agent!CodexArgs, Agent!Untagged
    <3>2. /\ c \in 0..ids' /\ a.asked = (c # 0) /\ a.id = ids' /\ a.tag = 0 /\ a.thread = c
          /\ 0 \in (-1)..ids' /\ ids' \in 1..ids'
      BY <1>1, <1>5, <3>1
    <3>3. ~a.asked => c = 0
      BY <3>2
    <3>4. a.asked \in BOOLEAN
      BY <3>2
    <3> QED
      BY <2>2, <3>2, <3>3, <3>4
  <2> QED
    BY <2>1, <2>2 DEF Agent!Agents
<1> DEFINE n == Agent!Session(commands', name, a.id, agent, a.tag, a.thread, a.asked, {})
<1>7. /\ IsSession(n, ids', commands') /\ n.born = commands' /\ n.id = a.id /\ n.agent = agent
      /\ n.tag = a.tag /\ n.thread = a.thread /\ n.asked = a.asked /\ n.from = {}
  <2>1. commands' \in 0..commands'
    BY <1>1
  <2> QED
    BY <1>1, <1>6, <2>1, SessionMade
<1>8. Agent!Makes(n)
  BY <1>4
<1> HIDE DEF n
<1>9. SessionOK(n, ids', commands')
  BY <1>6, <1>7 DEF SessionOK
<1>10. \A t \in sessions : t.born \in 0..commands /\ t.tag <= ids /\ t.thread <= ids
                             /\ t.tag \in Int /\ t.thread \in Int
  BY <1>1 DEF SessionsInv, SessionOK, IsSession
<1>11. \A t \in sessions : t.born # n.born
  BY <1>1, <1>7, <1>10
<1>12. ASSUME NEW t \in sessions, ~n.asked PROVE Apart(n, t)
  BY <1>1, <1>6, <1>7, <1>10, <1>12 DEF Apart
<1>13. /\ convs' \in [Agent!Agents -> SUBSET (1..ids')]
       /\ \A s \in sessions' : SessionOK(s, ids', commands')
       /\ BornApart(sessions') /\ TalkApart(sessions')
  BY <1>1, <1>8, <1>9, <1>11, <1>12, MakesKeeps
<1>14. CommandsOK(cmd, sessions', ids', commands')
  <2>1. ASSUME NEW q \in Operators PROVE Carried(cmd[q], sessions, sessions')
    <3>1. cmd[q].born \in 0..commands /\ cmd[q].known \in SUBSET (0..commands)
      BY DEF SessionsInv, CommandsOK, CommandOK, IsCommand
    <3>2. n.born \notin cmd[q].known /\ n.born # cmd[q].born
      BY <1>1, <1>7, <3>1
    <3>3. sessions' = sessions \cup {n}
      BY <1>8 DEF Agent!Makes
    <3> QED
      BY <3>2, <3>3 DEF Carried
  <2>2. CommandsOK(cmd, sessions, ids, commands)
    BY DEF SessionsInv
  <2> QED
    BY <1>1, <2>1, <2>2, CommandsStay
<1> QED
  BY <1>1, <1>13, <1>14 DEF SessionsInv

(* A command goes on where no session is made.                             *)
LEMMA GoesKeeps ==
  ASSUME SessionsInv, NEW p \in Operators, NEW c, Agent!Goes(p, c), sessions' \subseteq sessions,
         convs' = convs, ids' = ids, commands' \in Nat, commands <= commands',
         CommandOK(c, sessions', ids, commands'),
         \A q \in Operators : q # p => Interleaved(c, cmd[q])
  PROVE SessionsInv'
<1>1. ids \in Nat /\ commands \in Nat /\ cmd = [q \in Operators |-> cmd[q]]
      /\ CommandsOK(cmd, sessions, ids, commands)
  BY DEF SessionsInv
<1>2. \A q \in Operators : Carried(cmd[q], sessions, sessions')
  BY DEF Carried
<1>3. cmd' = [cmd EXCEPT ![p] = c]
  BY DEF Agent!Goes
<1>4. /\ CommandsOK(cmd', sessions', ids', commands')
      /\ cmd' = [q \in Operators |-> cmd'[q]]
  BY <1>1, <1>2, <1>3, CommandsLater
<1>5. \A s \in sessions' : SessionOK(s, ids', commands')
  BY <1>1, SessionLater DEF SessionsInv
<1>6. BornApart(sessions') /\ TalkApart(sessions')
  BY DEF SessionsInv, BornApart, TalkApart
<1>7. convs' \in [Agent!Agents -> SUBSET (1..ids')]
  BY DEF SessionsInv
<1> QED
  BY <1>1, <1>4, <1>5, <1>6, <1>7 DEF SessionsInv

(* One that only removes.                                                  *)
LEMMA RemoverIsOK ==
  ASSUME NEW c, NEW S, NEW i, NEW k, IsCommand(c, i, k), c.verb # "resume", c.pc # "launch"
  PROVE CommandOK(c, S, i, k) /\ \A d : Interleaved(c, d)
BY DEF CommandOK, Interleaved

LEMMA EndsKeeps ==
  ASSUME SessionsInv, NEW p \in Operators, Agent!Ends(p), sessions' \subseteq sessions,
         convs' = convs, ids' = ids, commands' = commands
  PROVE SessionsInv'
<1>1. ids \in Nat /\ commands \in Nat
  BY DEF SessionsInv
<1>2. CommandOK(Agent!Idle, sessions', ids, commands')
  BY <1>1, IdleIsOK
<1>3. Agent!Idle.verb # "resume"
  BY DEF Agent!Idle
<1>4. \A q \in Operators : Interleaved(Agent!Idle, cmd[q])
  BY <1>3 DEF Interleaved
<1>5. Agent!Goes(p, Agent!Idle)
  BY DEF Agent!Ends
<1> QED
  BY <1>1, <1>2, <1>4, <1>5, GoesKeeps

(* `stop' and `clean' begin.                                               *)
LEMMA RemoverKeeps ==
  ASSUME SessionsInv, NEW p \in Operators, NEW verb \in {"stop", "clean"}, NEW old, NEW doomed,
         Agent!Goes(p, [Agent!Idle EXCEPT !.pc = "remove", !.verb = verb, !.old = old, !.doomed = doomed]),
         sessions' = sessions, convs' = convs, ids' = ids, commands' = commands + 1
  PROVE SessionsInv'
<1> DEFINE c == [Agent!Idle EXCEPT !.pc = "remove", !.verb = verb, !.old = old, !.doomed = doomed]
<1>1. ids \in Nat /\ commands \in Nat /\ commands' \in Nat /\ commands <= commands'
  BY DEF SessionsInv
<1>2. IsCommand(c, ids, commands') /\ c.verb # "resume" /\ c.pc # "launch"
  <2>1. IsCommand(Agent!Idle, ids, commands')
    BY <1>1, IdleIsOK DEF CommandOK
  <2> QED
    BY <2>1 DEF IsCommand
<1>3. Agent!Goes(p, c)
  OBVIOUS
<1> HIDE DEF c
<1> QED
  BY <1>1, <1>2, <1>3, RemoverIsOK, GoesKeeps

LEMMA StopKeeps == ASSUME SessionsInv, NEW p \in Operators, Agent!Stop(p) PROVE SessionsInv'
<1>1. PICK s : Agent!Goes(p, [Agent!Idle EXCEPT !.pc = "remove", !.verb = "stop", !.old = {s}])
  BY DEF Agent!Stop
<1>2. [Agent!Idle EXCEPT !.pc = "remove", !.verb = "stop", !.old = {s}] =
        [Agent!Idle EXCEPT !.pc = "remove", !.verb = "stop", !.old = {s}, !.doomed = {}]
  <2>1. IsCommand(Agent!Idle, 0, 0)
    BY IdleIsOK DEF CommandOK
  <2>2. Agent!Idle.doomed = {}
    BY DEF Agent!Idle
  <2> QED
    BY <2>1, <2>2 DEF IsCommand
<1>3. Agent!Goes(p, [Agent!Idle EXCEPT !.pc = "remove", !.verb = "stop", !.old = {s}, !.doomed = {}])
  BY <1>1, <1>2
<1>4. sessions' = sessions /\ convs' = convs /\ ids' = ids /\ commands' = commands + 1
  BY DEF Agent!Stop, Agent!Asks
<1> QED
  BY <1>3, <1>4, RemoverKeeps

LEMMA CleanKeeps == ASSUME SessionsInv, NEW p \in Operators, Agent!Clean(p) PROVE SessionsInv'
<1>1. \E old, doomed : Agent!Goes(p, [Agent!Idle EXCEPT !.pc = "remove", !.verb = "clean", !.old = old,
                                                        !.doomed = doomed])
  BY DEF Agent!Clean
<1>2. sessions' = sessions /\ convs' = convs /\ ids' = ids /\ commands' = commands + 1
  BY DEF Agent!Clean, Agent!Asks
<1> QED
  BY <1>1, <1>2, RemoverKeeps

LEMMA ConversationIs ==
  ASSUME NEW s, NEW i \in Nat, NEW k \in Nat, SessionOK(s, i, k)
  PROVE /\ Agent!Conversation(s) \in 0..i
        /\ Agent!Conversation(s) > 0 => Agent!Conversation(s) \in {s.thread, s.tag}
        /\ Agent!Conversation(s) > 0 /\ s.agent = "claude" =>
             Agent!Conversation(s) = s.id /\ Agent!Conversation(s) = s.thread
        /\ Agent!Conversation(s) > 0 /\ s.agent = "codex" => Agent!Conversation(s) = s.tag
<1>1. s.tag \in (-1)..i /\ s.id \in 1..i /\ s.thread \in 0..i
  BY DEF SessionOK, IsSession
<1>2. "claude" # "codex"
  OBVIOUS
<1> QED
  BY <1>1, <1>2 DEF SessionOK, Agent!Conversation, Agent!Untagged

LEMMA PaneKeeps ==
  ASSUME SessionsInv, NEW s \in sessions, NEW n, Agent!Becomes(s, n), n.born = s.born, n.name = s.name,
         n.asked = s.asked, ids' \in Nat, ids <= ids', SessionOK(n, ids', commands),
         \A t \in sessions : t # s /\ ~s.asked /\ ~t.asked /\ Apart(s, t) => Apart(n, t),
         convs' \in [Agent!Agents -> SUBSET (1..ids')], cmd' = cmd, commands' = commands
  PROVE SessionsInv'
<1>1. sessions' = (sessions \ {s}) \cup {n}
  BY DEF Agent!Becomes
<1>2. ids \in Nat /\ commands \in Nat /\ CommandsOK(cmd, sessions, ids, commands)
  BY DEF SessionsInv
<1>3. \A t \in sessions' : SessionOK(t, ids', commands')
  BY <1>1, <1>2, SessionLater DEF SessionsInv
<1>4. BornApart(sessions') /\ TalkApart(sessions')
  BY <1>1, SessionBecomes DEF SessionsInv
<1>5. \A q \in Operators : Carried(cmd[q], sessions, sessions')
  BY <1>1 DEF Carried
<1>6. CommandsOK(cmd', sessions', ids', commands')
  BY <1>2, <1>5, CommandsStay
<1> QED
  BY <1>2, <1>3, <1>4, <1>6 DEF SessionsInv

LEMMA HitsAre ==
  ASSUME NEW seen, NEW target
  PROVE /\ Agent!Hits(seen, target) \subseteq seen
        /\ Agent!Hits(seen, target) = {} => \A t \in seen : ~Agent!Matches(t, target)
<1>1. \A t : Agent!Exact(t, target) => Agent!Matches(t, target)
  BY DEF Agent!Exact, Agent!Matches
<1> QED
  BY <1>1 DEF Agent!Hits

(* What a resume sets out with.                                            *)
LEMMA ResumingIs ==
  ASSUME SessionsInv, commands' = commands + 1, NEW seen \in SUBSET sessions, NEW agent, NEW conv \in 0..ids
  PROVE LET r == Agent!Resuming(seen, agent, conv)
        IN  /\ IsCommand(r, ids, commands') /\ r.pc = "launch" /\ r.verb = "resume" /\ r.born = commands'
            /\ r.agent = agent /\ r.conv = conv /\ r.blind = (seen # sessions)
            /\ r.known = {s.born : s \in {t \in seen : Agent!Conversation(t) = conv}}
            /\ r.old = {} /\ r.doomed = {}
<1> DEFINE known == {s.born : s \in {t \in seen : Agent!Conversation(t) = conv}}
<1> DEFINE blind == seen # sessions
<1>0. ids \in Nat /\ commands \in Nat /\ commands' \in Nat /\ commands' \in 0..commands'
  BY DEF SessionsInv
<1>1. \A t \in sessions : t.born \in 0..commands'
  BY <1>0 DEF SessionsInv, SessionOK, IsSession
<1>2. known \in SUBSET (0..commands') /\ blind \in BOOLEAN
  BY <1>1
<1>3. IsCommand(Agent!Idle, ids, commands') /\ Agent!Idle.old = {} /\ Agent!Idle.doomed = {}
  <2>1. CommandOK(Agent!Idle, sessions, ids, commands')
    BY <1>0, IdleIsOK
  <2>2. Agent!Idle.old = {} /\ Agent!Idle.doomed = {}
    BY DEF Agent!Idle
  <2> QED
    BY <2>1, <2>2 DEF CommandOK
<1> DEFINE r == [Agent!Idle EXCEPT !.pc = "launch", !.verb = "resume", !.born = commands', !.agent = agent,
                   !.conv = conv, !.blind = blind, !.known = known]
<1>4. Agent!Resuming(seen, agent, conv) = r
  BY DEF Agent!Resuming
<1> HIDE DEF known, blind
<1>5. /\ IsCommand(r, ids, commands') /\ r.pc = "launch" /\ r.verb = "resume" /\ r.born = commands'
      /\ r.agent = agent /\ r.conv = conv /\ r.blind = blind /\ r.known = known
      /\ r.old = {} /\ r.doomed = {}
  BY <1>0, <1>2, <1>3 DEF IsCommand
<1> HIDE DEF r
<1>6. r.blind = (seen # sessions)
  BY <1>5 DEF blind
<1> QED
  BY <1>4, <1>5, <1>6 DEF known

(* Its claims on the other commands'.                                      *)
LEMMA ResumeCrosses ==
  ASSUME SessionsInv, commands' = commands + 1, NEW c, c.born = commands',
         \A b \in c.known : \E s \in sessions : b = s.born
  PROVE /\ \A q \in Operators : Interleaved(c, cmd[q])
        /\ c.born \notin c.known /\ \A t \in sessions : t.born # c.born
<1>0. commands \in Nat /\ commands' > commands
  BY DEF SessionsInv
<1>1. \A t \in sessions : t.born \in 0..commands
  BY DEF SessionsInv, SessionOK, IsSession
<1>2. \A t \in sessions : t.born # c.born
  BY <1>0, <1>1
<1>3. ASSUME NEW q \in Operators, cmd[q].verb = "resume" PROVE c.born # cmd[q].born /\ c.born \notin cmd[q].known
                                                          /\ cmd[q].born \notin c.known
  <2>1. /\ cmd[q].born \in 0..commands /\ cmd[q].known \in SUBSET (0..commands)
        /\ \A t \in sessions : t.born # cmd[q].born
    BY <1>3 DEF SessionsInv, CommandsOK, CommandOK, IsCommand, ResumeOK
  <2> QED
    BY <1>0, <2>1
<1> QED
  BY <1>2, <1>3 DEF Interleaved

LEMMA ResumeKeeps == ASSUME SessionsInv, NEW p \in Operators, Agent!Resume(p) PROVE SessionsInv'
<1>0. /\ ids \in Nat /\ commands \in Nat /\ commands' = commands + 1 /\ commands' \in Nat
      /\ commands <= commands' /\ sessions' = sessions /\ convs' = convs /\ ids' = ids
  <2>1. commands' = commands + 1 /\ sessions' = sessions /\ convs' = convs /\ ids' = ids
    BY DEF Agent!Resume, Agent!Asks
  <2> QED
    BY <2>1 DEF SessionsInv
<1>1. PICK seen \in {sessions, {}}, target \in Agent!Targets,
           name \in {Agent!Unnamed} \cup {Agent!Given(n) : n \in Names} :
        LET hits == Agent!Hits(seen, target)
        IN  /\ Agent!Listed(seen)
            /\ \/ \E old \in hits :
                    /\ hits = {old} /\ ~old.alive /\ Agent!Conversation(old) # 0
                    /\ Agent!Goes(p, [Agent!Resuming(seen, old.agent, Agent!Conversation(old)) EXCEPT
                                 !.pc = "remove", !.old = {old},
                                 !.name = IF name = Agent!Unnamed THEN old.name ELSE name])
               \/ /\ hits = {}
                  /\ \E agent \in Agent!Agents :
                       /\ target.uuid \in convs[agent]
                       /\ Agent!Goes(p, [Agent!Resuming(seen, agent, target.uuid) EXCEPT !.name = name])
  BY DEF Agent!Resume
<1>2. ASSUME NEW c, IsCommand(c, ids, commands'), c.verb = "resume", c.born = commands',
             c.known = {s.born : s \in {t \in seen : Agent!Conversation(t) = c.conv}},
             ResumeOK(c, sessions, ids, commands'), Agent!Goes(p, c)
      PROVE SessionsInv'
  <2>1. \A b \in c.known : \E s \in sessions : b = s.born
    BY <1>2
  <2>2. CommandOK(c, sessions', ids, commands')
    BY <1>0, <1>2 DEF CommandOK
  <2>3. \A q \in Operators : Interleaved(c, cmd[q])
    BY <1>0, <1>2, <2>1, ResumeCrosses
  <2> QED
    BY <1>0, <1>2, <2>2, <2>3, GoesKeeps
<1>3. CASE \E old \in Agent!Hits(seen, target) :
             /\ Agent!Hits(seen, target) = {old} /\ ~old.alive /\ Agent!Conversation(old) # 0
             /\ Agent!Goes(p, [Agent!Resuming(seen, old.agent, Agent!Conversation(old)) EXCEPT
                          !.pc = "remove", !.old = {old},
                          !.name = IF name = Agent!Unnamed THEN old.name ELSE name])
  <2>1. PICK old \in Agent!Hits(seen, target) :
             /\ Agent!Hits(seen, target) = {old} /\ ~old.alive /\ Agent!Conversation(old) # 0
             /\ Agent!Goes(p, [Agent!Resuming(seen, old.agent, Agent!Conversation(old)) EXCEPT
                          !.pc = "remove", !.old = {old},
                          !.name = IF name = Agent!Unnamed THEN old.name ELSE name])
    BY <1>3
  <2>2. seen = sessions /\ old \in sessions
    BY <2>1, HitsAre
  <2>c. PICK agent, conv : agent = old.agent /\ conv = Agent!Conversation(old)
    OBVIOUS
  <2> DEFINE r == Agent!Resuming(seen, agent, conv)
  <2> DEFINE called == IF name = Agent!Unnamed THEN old.name ELSE name
  <2> DEFINE c == [r EXCEPT !.pc = "remove", !.old = {old}, !.name = called]
  <2>3. Agent!Goes(p, c)
    BY <2>1, <2>c
  <2>4. SessionOK(old, ids, commands) /\ SessionOK(old, ids, commands')
    BY <1>0, <2>2, SessionLater DEF SessionsInv
  <2>5. conv \in 0..ids /\ conv > 0 /\ conv \in {old.thread, old.tag}
    BY <1>0, <2>1, <2>4, <2>c, ConversationIs
  <2>6. old.agent \in Agent!Agents
    BY <2>4 DEF SessionOK, IsSession
  <2>d. conv \in 0..ids
    BY <2>5
  <2>b. seen \in SUBSET sessions
    OBVIOUS
  <2>7. /\ IsCommand(r, ids, commands') /\ r.pc = "launch" /\ r.verb = "resume" /\ r.born = commands'
        /\ r.agent = agent /\ r.conv = conv /\ r.blind = (seen # sessions)
        /\ r.known = {s.born : s \in {t \in seen : Agent!Conversation(t) = conv}}
        /\ r.old = {} /\ r.doomed = {}
    BY <1>0, <2>d, <2>b, ResumingIs
  <2> HIDE DEF r, called
  <2>8. /\ IsCommand(c, ids, commands') /\ c.pc = "remove" /\ c.verb = "resume" /\ c.born = commands'
        /\ c.agent = old.agent /\ c.conv = conv /\ c.blind = r.blind
        /\ c.known = r.known /\ c.old = {old} /\ c.doomed = {}
    BY <2>7, <2>c DEF IsCommand
  <2> HIDE DEF c
  <2>9. \A t \in sessions : t.born \in c.known => Agent!Conversation(t) = conv
    BY <2>2, <2>7, <2>8 DEF SessionsInv, BornApart
  <2>10. ASSUME NEW t \in sessions, ~t.asked, t.born \in c.known PROVE t.born = old.born \/ old.asked
    <3>1. SessionOK(t, ids, commands) /\ Agent!Conversation(t) = conv
      BY <2>9, <2>10 DEF SessionsInv
    <3>2. conv \in {t.thread, t.tag}
      BY <1>0, <2>5, <3>1, ConversationIs
    <3>3. ~Apart(old, t)
      BY <2>5, <3>2 DEF Apart
    <3> QED
      BY <2>2, <2>10, <3>3 DEF SessionsInv, TalkApart
  <2>11. old.born \in c.known
    BY <2>2, <2>7, <2>8, <2>c
  <2>12. c.born \notin c.known /\ \A t \in sessions : t.born # c.born
    <3>1. \A b \in c.known : \E s \in sessions : b = s.born
      BY <2>2, <2>7, <2>8
    <3> QED
      BY <1>0, <2>8, <3>1, ResumeCrosses
  <2>13. \A t \in sessions : t.born = old.born => t.name = old.name
    BY <2>2 DEF SessionsInv, BornApart
  <2>14. Agent!Conversation(old) = conv
    BY <2>c
  <2>15. ResumeOK(c, sessions, ids, commands')
    BY <2>4, <2>5, <2>6, <2>8, <2>10, <2>11, <2>12, <2>13, <2>14 DEF ResumeOK
  <2> QED
    BY <1>2, <2>3, <2>7, <2>8, <2>15
<1>4. CASE /\ Agent!Hits(seen, target) = {}
           /\ \E agent \in Agent!Agents :
                /\ target.uuid \in convs[agent]
                /\ Agent!Goes(p, [Agent!Resuming(seen, agent, target.uuid) EXCEPT !.name = name])
  <2>1. PICK agent \in Agent!Agents :
                /\ target.uuid \in convs[agent]
                /\ Agent!Goes(p, [Agent!Resuming(seen, agent, target.uuid) EXCEPT !.name = name])
    BY <1>4
  <2> DEFINE conv == target.uuid
  <2>2. conv \in 1..ids /\ conv \in 0..ids /\ conv > 0
    BY <1>0, <2>1 DEF SessionsInv
  <2> DEFINE r == Agent!Resuming(seen, agent, conv)
  <2> DEFINE c == [r EXCEPT !.name = name]
  <2>3. Agent!Goes(p, c)
    BY <2>1
  <2>4. \A t \in seen : Agent!Conversation(t) # conv
    BY <1>4, <2>2, HitsAre DEF Agent!Matches
  <2> HIDE DEF conv
  <2>5. seen \in SUBSET sessions
    OBVIOUS
  <2>6. /\ IsCommand(r, ids, commands') /\ r.pc = "launch" /\ r.verb = "resume" /\ r.born = commands'
        /\ r.agent = agent /\ r.conv = conv /\ r.blind = (seen # sessions)
        /\ r.known = {s.born : s \in {t \in seen : Agent!Conversation(t) = conv}}
        /\ r.old = {} /\ r.doomed = {}
    BY <1>0, <2>2, <2>5, ResumingIs
  <2> HIDE DEF r
  <2>7. /\ IsCommand(c, ids, commands') /\ c.pc = "launch" /\ c.verb = "resume" /\ c.born = commands'
        /\ c.agent = agent /\ c.conv = conv /\ c.known = r.known /\ c.old = {} /\ c.doomed = {}
    BY <2>6 DEF IsCommand
  <2> HIDE DEF c
  <2>8. c.known = {}
    BY <2>4, <2>6, <2>7
  <2>9. \A t \in sessions : t.born # c.born
    BY <1>0, <2>7, <2>8, ResumeCrosses
  <2>10. ResumeOK(c, sessions, ids, commands')
    BY <2>2, <2>7, <2>8, <2>9 DEF ResumeOK
  <2> QED
    BY <1>2, <2>3, <2>6, <2>7, <2>10
<1> QED
  BY <1>1, <1>3, <1>4

LEMMA RemoveKeeps == ASSUME SessionsInv, NEW p \in Operators, Agent!Remove(p) PROVE SessionsInv'
<1>1. PICK c, gone :
        /\ c = cmd[p] /\ gone = UNION {Agent!Named(s.name) : s \in c.old}
        /\ c.pc = "remove" /\ sessions' = sessions \ gone
        /\ IF c.verb = "resume" /\ gone # {} THEN Agent!Goes(p, [c EXCEPT !.pc = "launch"])
           ELSE IF c.doomed # {}
           THEN \E s \in c.doomed : Agent!Goes(p, [c EXCEPT !.old = {s}, !.doomed = @ \ {s}])
           ELSE Agent!Ends(p)
        /\ UNCHANGED <<convs, ids, commands, events>>
  BY DEF Agent!Remove
<1>2. /\ ids \in Nat /\ commands \in Nat /\ sessions' \subseteq sessions /\ convs' = convs /\ ids' = ids
      /\ commands' = commands
  BY <1>1 DEF SessionsInv
<1>3. /\ CommandOK(c, sessions, ids, commands) /\ IsCommand(c, ids, commands)
      /\ \A q \in Operators : q # p => Interleaved(c, cmd[q])
  BY <1>1 DEF SessionsInv, CommandsOK, CommandOK
<1>4. ASSUME c.verb = "resume", gone # {}, Agent!Goes(p, [c EXCEPT !.pc = "launch"]) PROVE SessionsInv'
  <2> DEFINE d == [c EXCEPT !.pc = "launch"]
  <2>1. Agent!Goes(p, d)
    BY <1>4
  <2>2. /\ IsCommand(d, ids, commands) /\ d.pc = "launch" /\ d.verb = c.verb /\ d.born = c.born
        /\ d.blind = c.blind /\ d.known = c.known /\ d.old = c.old /\ d.doomed = c.doomed
        /\ d.agent = c.agent /\ d.conv = c.conv
    BY <1>3 DEF IsCommand
  <2> HIDE DEF d
  <2>3. ResumeOK(c, sessions, ids, commands)
    BY <1>3, <1>4 DEF CommandOK
  <2>4. ASSUME NEW o \in c.old, NEW t \in sessions' PROVE t.born # o.born
    <3>1. t \in sessions /\ t \notin Agent!Named(o.name)
      BY <1>1, <2>4
    <3> QED
      BY <1>1, <2>3, <3>1 DEF ResumeOK, Agent!Named
  <2>5. ResumeOK(d, sessions', ids, commands)
    BY <1>2, <2>2, <2>3, <2>4 DEF ResumeOK
  <2>6. CommandOK(d, sessions', ids, commands)
    BY <1>4, <2>2, <2>5, Zenon DEF CommandOK
  <2>7. \A q \in Operators : q # p => Interleaved(d, cmd[q])
    BY <1>3, <2>2 DEF Interleaved
  <2> QED
    BY <1>2, <2>1, <2>6, <2>7, GoesKeeps
<1>5. ASSUME ~(c.verb = "resume" /\ gone # {}), NEW s \in c.doomed,
             Agent!Goes(p, [c EXCEPT !.old = {s}, !.doomed = @ \ {s}])
      PROVE SessionsInv'
  <2> DEFINE d == [c EXCEPT !.old = {s}, !.doomed = @ \ {s}]
  <2>1. Agent!Goes(p, d)
    BY <1>5
  <2>2. c.verb # "resume"
    BY <1>3, <1>5 DEF CommandOK, ResumeOK
  <2>3. IsCommand(d, ids, commands) /\ d.pc = c.pc /\ d.verb = c.verb
    BY <1>3 DEF IsCommand
  <2> HIDE DEF d
  <2>a. c.pc = "remove"
    BY <1>1
  <2>b. d.verb # "resume" /\ d.pc # "launch"
    BY <2>2, <2>3, <2>a
  <2>4. CommandOK(d, sessions', ids, commands) /\ \A q \in Operators : Interleaved(d, cmd[q])
    BY <2>3, <2>b, RemoverIsOK
  <2> QED
    BY <1>2, <2>1, <2>4, GoesKeeps
<1>6. CASE Agent!Ends(p)
  BY <1>2, <1>6, EndsKeeps
<1> QED
  BY <1>1, <1>4, <1>5, <1>6

(* What the session of a resume takes from the one it replaces.            *)
LEMMA TakenIsOK ==
  ASSUME NEW c, NEW i \in Nat, NEW k \in Nat, c.conv > 0, c.conv \in 0..i, NEW o, SessionOK(o, i, k),
         o.agent = c.agent, Agent!Conversation(o) = c.conv, NEW n, n.agent = c.agent,
         n.id = IF c.agent = "claude" THEN c.conv ELSE o.id
  PROVE FromOK(n, [id |-> o.id, tag |-> o.tag, thread |-> o.thread, took |-> c.conv])
<1>1. o.agent \in {"claude", "codex"}
  BY DEF SessionOK, IsSession, Agent!Agents
<1>2. CASE o.agent = "claude"
  <2>1. c.conv = o.id /\ c.conv = o.thread
    BY <1>2, ConversationIs
  <2> QED
    BY <1>2, <2>1 DEF FromOK
<1>3. CASE o.agent = "codex"
  <2>1. c.conv = o.tag
    BY <1>3, ConversationIs
  <2>2. n.id = o.id /\ n.agent = "codex"
    BY <1>3
  <2>3. c.conv = o.thread \/ o.tag # o.thread
    BY <2>1
  <2> QED
    BY <2>2, <2>3 DEF FromOK
<1> QED
  BY <1>1, <1>2, <1>3

LEMMA LaunchKeeps == ASSUME SessionsInv, NEW p \in Operators, Agent!Launch(p) PROVE SessionsInv'
<1> DEFINE c == cmd[p]
           id == IF c.agent = "claude" THEN c.conv
                 ELSE IF c.old # {} THEN (CHOOSE s \in c.old : TRUE).id ELSE ids + 1
           twins == {t \in sessions : c.conv \in {t.thread, t.tag}}
           name == IF c.name = Agent!Unnamed THEN Agent!Default(c.agent, id) ELSE c.name
           tag == IF c.agent = "claude" THEN c.conv ELSE Agent!Untagged
           wanted == \/ c.blind \/ \E t \in c.old : t.asked
                     \/ twins # {} /\ \A t \in twins : t.asked \/ t.born \notin c.known
           from == {[id |-> t.id, tag |-> t.tag, thread |-> t.thread, took |-> c.conv] : t \in c.old}
           n == Agent!Session(c.born, name, id, c.agent, tag, c.conv, wanted, from)
<1>1. /\ c.pc = "launch"
      /\ \/ Agent!Makes(n)
         \/ Agent!Named(n.name) # {} /\ UNCHANGED <<sessions, convs>>
      /\ ids' = IF id > ids THEN id ELSE ids
      /\ Agent!Ends(p) /\ commands' = commands
  BY DEF Agent!Launch
<1>a. c = cmd[p]
  OBVIOUS
<1>b. id = IF c.agent = "claude" THEN c.conv
           ELSE IF c.old # {} THEN (CHOOSE s \in c.old : TRUE).id ELSE ids + 1
  OBVIOUS
<1>c. twins = {t \in sessions : c.conv \in {t.thread, t.tag}}
  OBVIOUS
<1>e. tag = IF c.agent = "claude" THEN c.conv ELSE 0
  BY DEF Agent!Untagged
<1>f. wanted <=> \/ c.blind \/ \E t \in c.old : t.asked
                 \/ twins # {} /\ \A t \in twins : t.asked \/ t.born \notin c.known
  OBVIOUS
<1>h. wanted \in BOOLEAN
  OBVIOUS
<1>g. from = {[id |-> t.id, tag |-> t.tag, thread |-> t.thread, took |-> c.conv] : t \in c.old}
  OBVIOUS
<1>i. n = Agent!Session(c.born, name, id, c.agent, tag, c.conv, wanted, from)
  OBVIOUS
<1> HIDE DEF c, id, twins, name, tag, wanted, from, n
<1>2. ids \in Nat /\ commands \in Nat
  BY DEF SessionsInv
<1>3. /\ CommandOK(c, sessions, ids, commands) /\ IsCommand(c, ids, commands)
      /\ \A q \in Operators : q # p => Interleaved(c, cmd[q])
  BY <1>a DEF SessionsInv, CommandsOK, CommandOK
<1>4. c.verb = "resume" /\ ResumeOK(c, sessions, ids, commands)
  BY <1>1, <1>3 DEF CommandOK
<1>5. c.conv \in 0..ids /\ c.conv > 0 /\ c.born \in 0..commands /\ c.agent \in {"claude", "codex"}
      /\ c.agent \in Agent!Agents
  BY <1>3, <1>4 DEF IsCommand, ResumeOK, Agent!Agents
<1>6. \A o \in c.old : c.old = {o} /\ SessionOK(o, ids, commands) /\ o.id \in 1..ids
  BY <1>4 DEF ResumeOK, SessionOK, IsSession
<1>7. \A o \in c.old : id = IF c.agent = "claude" THEN c.conv ELSE o.id
  <2>1. ASSUME NEW o \in c.old PROVE (CHOOSE s \in c.old : TRUE) = o
    BY <1>6
  <2>2. ASSUME NEW o \in c.old PROVE id = IF c.agent = "claude" THEN c.conv ELSE o.id
    <3>1. c.old # {} /\ (CHOOSE s \in c.old : TRUE) = o
      BY <2>1
    <3>2. (CHOOSE s \in c.old : TRUE).id = o.id
      BY <3>1
    <3>3. CASE c.agent = "claude"
      BY <1>b, <3>3
    <3>4. CASE c.agent # "claude"
      BY <1>b, <3>1, <3>2, <3>4
    <3> QED
      BY <3>3, <3>4
  <2> QED
    BY <2>2
<1>8. id \in 1..(ids + 1)
  <2>1. CASE c.old = {}
    BY <1>b, <1>2, <1>5, <2>1
  <2>2. ASSUME NEW o \in c.old PROVE id \in 1..(ids + 1)
    BY <1>2, <1>5, <1>6, <1>7
  <2> QED
    BY <2>1, <2>2
<1>9. ids' \in Nat /\ ids <= ids' /\ id \in 1..ids'
  BY <1>1, <1>2, <1>8
<1>10. tag \in (-1)..ids' /\ tag >= 0 /\ c.conv \in 0..ids' /\ commands' = commands
  BY <1>1, <1>2, <1>5, <1>9, <1>e
<1>11. /\ IsSession(n, ids', commands) /\ n.born = c.born /\ n.name = name /\ n.id = id
       /\ n.agent = c.agent /\ n.tag = tag /\ n.thread = c.conv /\ n.asked = wanted /\ n.from = from
  BY <1>2, <1>5, <1>9, <1>10, <1>h, <1>i, SessionMade
<1>12. \/ Agent!Makes(n)
       \/ UNCHANGED <<sessions, convs>>
  BY <1>1
<1>13. SessionOK(n, ids', commands)
  <2>1. ASSUME NEW f \in from PROVE FromOK(n, f)
    <3>1. PICK o \in c.old : f = [id |-> o.id, tag |-> o.tag, thread |-> o.thread, took |-> c.conv]
      BY <1>g, <2>1
    <3>2. SessionOK(o, ids, commands) /\ o.agent = c.agent /\ Agent!Conversation(o) = c.conv
      BY <1>4 DEF ResumeOK
    <3>3. n.id = IF c.agent = "claude" THEN c.conv ELSE o.id
      BY <1>7, <1>11
    <3> QED
      BY <1>2, <1>5, <1>11, <3>1, <3>2, <3>3, TakenIsOK
  <2>2. c.agent = "claude" => tag = c.conv /\ id = c.conv
    BY <1>b, <1>e
  <2> QED
    BY <1>5, <1>10, <1>11, <2>1, <2>2 DEF SessionOK
<1>14. \A t \in sessions : t.born # n.born
  BY <1>4, <1>11 DEF ResumeOK
<1>15. ASSUME NEW t \in sessions, ~n.asked, ~t.asked PROVE Apart(n, t)
  <2>1. ~c.blind /\ \A o \in c.old : ~o.asked
    BY <1>f, <1>11, <1>15
  <2>2. SUFFICES ASSUME t \in twins PROVE FALSE
    <3>1. c.conv # t.thread /\ c.conv # t.tag
      BY <1>c, <2>2
    <3>2. tag \in {0, c.conv}
      BY <1>e
    <3> QED
      BY <1>11, <3>1, <3>2 DEF Apart
  <2>3. PICK u \in twins : ~u.asked /\ u.born \in c.known
    BY <1>f, <1>11, <1>15, <2>2
  <2>4. PICK o \in c.old : u.born = o.born \/ o.asked
    BY <1>c, <1>4, <2>1, <2>3 DEF ResumeOK
  <2> QED
    BY <1>1, <1>4, <1>c, <2>1, <2>3, <2>4 DEF ResumeOK
<1>16. CASE Agent!Makes(n)
  <2>1. /\ convs' \in [Agent!Agents -> SUBSET (1..ids')]
        /\ \A s \in sessions' : SessionOK(s, ids', commands')
        /\ BornApart(sessions') /\ TalkApart(sessions')
    BY <1>2, <1>9, <1>10, <1>13, <1>14, <1>15, <1>16, MakesKeeps
  <2>2. sessions' = sessions \cup {n}
    BY <1>16 DEF Agent!Makes
  <2>3. ASSUME NEW q \in Operators, q # p PROVE Carried(cmd[q], sessions, sessions')
    <3>1. cmd[q].verb = "resume" => n.born \notin cmd[q].known /\ n.born # cmd[q].born
      BY <1>3, <1>4, <1>11, <2>3 DEF Interleaved
    <3> QED
      BY <2>2, <3>1 DEF Carried
  <2>4. Agent!Idle.verb # "resume" /\ \A q \in Operators : Interleaved(Agent!Idle, cmd[q])
    BY DEF Agent!Idle, Interleaved
  <2>5. CommandOK(Agent!Idle, sessions', ids', commands)
    BY <1>2, <1>9, IdleIsOK
  <2>6. cmd' = [cmd EXCEPT ![p] = Agent!Idle]
    BY <1>1 DEF Agent!Ends, Agent!Goes
  <2>7. cmd = [q \in Operators |-> cmd[q]] /\ CommandsOK(cmd, sessions, ids, commands)
    BY DEF SessionsInv
  <2>8. CommandsOK(cmd', sessions', ids', commands) /\ cmd' = [q \in Operators |-> cmd'[q]]
    BY <1>2, <1>9, <2>3, <2>4, <2>5, <2>6, <2>7, CommandsLater
  <2> QED
    BY <1>2, <1>9, <1>10, <2>1, <2>8 DEF SessionsInv
<1>17. CASE UNCHANGED <<sessions, convs>>
  <2>1. \A s \in sessions' : SessionOK(s, ids', commands)
    BY <1>2, <1>9, <1>17, SessionLater DEF SessionsInv
  <2>2. BornApart(sessions') /\ TalkApart(sessions')
    BY <1>17 DEF SessionsInv
  <2>3. \A q \in Operators : Carried(cmd[q], sessions, sessions')
    BY <1>17 DEF Carried
  <2>4. Agent!Idle.verb # "resume" /\ \A q \in Operators : Interleaved(Agent!Idle, cmd[q])
    BY DEF Agent!Idle, Interleaved
  <2>5. CommandOK(Agent!Idle, sessions', ids', commands)
    BY <1>2, <1>9, IdleIsOK
  <2>6. cmd' = [cmd EXCEPT ![p] = Agent!Idle]
    BY <1>1 DEF Agent!Ends, Agent!Goes
  <2>7. cmd = [q \in Operators |-> cmd[q]] /\ CommandsOK(cmd, sessions, ids, commands)
    BY DEF SessionsInv
  <2>8. CommandsOK(cmd', sessions', ids', commands) /\ cmd' = [q \in Operators |-> cmd'[q]]
    BY <1>2, <1>9, <2>3, <2>4, <2>5, <2>6, <2>7, CommandsLater
  <2>9. convs' \in [Agent!Agents -> SUBSET (1..ids')]
    BY <1>2, <1>9, <1>17 DEF SessionsInv
  <2> QED
    BY <1>2, <1>9, <1>10, <2>1, <2>2, <2>8, <2>9 DEF SessionsInv
<1> QED
  BY <1>12, <1>16, <1>17

LEMMA PanesKeep == ASSUME SessionsInv, NEW s \in sessions, Agent!Pane(s) PROVE SessionsInv'
<1>0. /\ ids \in Nat /\ commands \in Nat /\ SessionOK(s, ids, commands) /\ IsSession(s, ids, commands)
      /\ convs \in [Agent!Agents -> SUBSET (1..ids)]
  BY DEF SessionsInv, SessionOK
<1>1. CASE Agent!NewThread(s)
  <2>1. PICK n : n = [s EXCEPT !.thread = ids'] /\ Agent!Becomes(s, n)
    BY <1>1 DEF Agent!NewThread
  <2>2. ids' = ids + 1 /\ s.agent = "codex" /\ cmd' = cmd /\ commands' = commands
        /\ convs' = [convs EXCEPT !["codex"] = @ \cup {ids'}]
    BY <1>1 DEF Agent!NewThread
  <2>3. ids' \in Nat /\ ids <= ids' /\ ids' > ids /\ ids' \in 0..ids'
    BY <1>0, <2>2
  <2>4. SessionOK(s, ids', commands)
    BY <1>0, <2>3, SessionLater
  <2>5. /\ IsSession(n, ids', commands) /\ n.thread = ids' /\ n.born = s.born /\ n.name = s.name
        /\ n.id = s.id /\ n.agent = s.agent /\ n.tag = s.tag /\ n.asked = s.asked /\ n.from = s.from
    BY <2>1, <2>3, <2>4 DEF SessionOK, IsSession
  <2>6. SessionOK(n, ids', commands)
    BY <2>2, <2>4, <2>5 DEF SessionOK, FromOK
  <2>7. ASSUME NEW t \in sessions, Apart(s, t) PROVE Apart(n, t)
    <3>1. t.thread \in 0..ids /\ t.tag \in (-1)..ids
      BY DEF SessionsInv, SessionOK, IsSession
    <3> QED
      BY <1>0, <2>2, <2>3, <2>5, <2>7, <3>1 DEF Apart
  <2>8. convs' \in [Agent!Agents -> SUBSET (1..ids')]
    <3>1. convs["codex"] \cup {ids'} \in SUBSET (1..ids')
      BY <1>0, <2>2, <2>3 DEF Agent!Agents
    <3>2. \A a \in Agent!Agents : convs[a] \in SUBSET (1..ids')
      BY <1>0, <2>3
    <3> QED
      BY <1>0, <2>2, <3>1, <3>2
  <2> QED
    BY <2>1, <2>2, <2>3, <2>5, <2>6, <2>7, <2>8, PaneKeeps
<1>2. CASE Agent!Watch(s)
  <2>1. PICK n : n = [s EXCEPT !.tag = s.thread] /\ Agent!Becomes(s, n)
    BY <1>2 DEF Agent!Watch
  <2>2. s.agent = "codex" /\ cmd' = cmd /\ commands' = commands /\ convs' = convs /\ ids' = ids
    BY <1>2 DEF Agent!Watch
  <2>3. /\ IsSession(n, ids, commands) /\ n.thread = s.thread /\ n.born = s.born /\ n.name = s.name
        /\ n.id = s.id /\ n.agent = s.agent /\ n.tag = s.thread /\ n.asked = s.asked /\ n.from = s.from
    <3>1. s.thread \in (-1)..ids
      BY <1>0 DEF IsSession
    <3> QED
      BY <1>0, <2>1, <3>1 DEF IsSession
  <2>4. n.tag \in Int /\ n.tag >= 0 /\ n.agent # "claude"
    BY <1>0, <2>2, <2>3 DEF IsSession
  <2>a. \A f \in n.from : FromOK(n, f)
    BY <1>0, <2>3 DEF SessionOK, FromOK
  <2>5. SessionOK(n, ids, commands)
    BY <2>3, <2>4, <2>a DEF SessionOK
  <2>b. ids' \in Nat /\ ids <= ids' /\ SessionOK(n, ids', commands)
        /\ convs' \in [Agent!Agents -> SUBSET (1..ids')]
    BY <1>0, <2>2, <2>5
  <2>6. ASSUME NEW t \in sessions, Apart(s, t) PROVE Apart(n, t)
    BY <2>3, <2>6 DEF Apart
  <2> QED
    BY <2>1, <2>2, <2>3, <2>6, <2>b, PaneKeeps
<1>3. CASE Agent!Exit(s) \/ Agent!DaysPass(s)
  <2>1. PICK n : (n = [s EXCEPT !.alive = FALSE] \/ n = [s EXCEPT !.stale = TRUE]) /\ Agent!Becomes(s, n)
    BY <1>3 DEF Agent!Exit, Agent!DaysPass
  <2>2. cmd' = cmd /\ commands' = commands /\ convs' = convs /\ ids' = ids
    BY <1>3 DEF Agent!Exit, Agent!DaysPass
  <2>3. /\ IsSession(n, ids, commands) /\ n.thread = s.thread /\ n.born = s.born /\ n.name = s.name
        /\ n.id = s.id /\ n.agent = s.agent /\ n.tag = s.tag /\ n.asked = s.asked /\ n.from = s.from
    BY <1>0, <2>1 DEF IsSession
  <2>a. \A f \in n.from : FromOK(n, f)
    BY <1>0, <2>3 DEF SessionOK, FromOK
  <2>4. SessionOK(n, ids, commands)
    BY <1>0, <2>3, <2>a DEF SessionOK
  <2>b. ids' \in Nat /\ ids <= ids' /\ SessionOK(n, ids', commands)
        /\ convs' \in [Agent!Agents -> SUBSET (1..ids')]
    BY <1>0, <2>2, <2>4
  <2>5. ASSUME NEW t \in sessions, Apart(s, t) PROVE Apart(n, t)
    BY <2>3, <2>5 DEF Apart
  <2> QED
    BY <2>1, <2>2, <2>3, <2>5, <2>b, PaneKeeps
<1> QED
  BY <1>1, <1>2, <1>3 DEF Agent!Pane

LEMMA SessionsStep == ASSUME SessionsInv, [AnyNext]_allVars PROVE SessionsInv'
<1>1. CASE UNCHANGED agentsVars
  BY <1>1 DEF SessionsInv, agentsVars
<1>2. CASE Agent!Next
  <2>1. ASSUME NEW p \in Operators, Agent!Kill(p) PROVE SessionsInv'
    BY <2>1, EndsKeeps DEF Agent!Kill
  <2> QED
    BY <1>2, <2>1, StartKeeps, ResumeKeeps, StopKeeps, CleanKeeps, RemoveKeeps, LaunchKeeps, PanesKeep
       DEF Agent!Next, Agent!Verb
<1> QED
  BY <1>1, <1>2 DEF AnyNext, NextPin, NextAgent, NextSink, allVars

LEMMA SessionsContinueInside == SessionsInv => SessionsContinue
<1> SUFFICES ASSUME SessionsInv PROVE SessionsContinue
  OBVIOUS
<1>1. \A s \in sessions : \A f \in s.from : FromOK(s, f)
  BY DEF SessionsInv, SessionOK
<1>2. ASSUME NEW s \in sessions, NEW t \in sessions, s.born # t.born, s.thread = t.thread, s.thread # 0,
             ~s.asked, ~t.asked
      PROVE FALSE
  <2>1. s.thread \in 0..ids /\ ids \in Nat
    BY DEF SessionsInv, SessionOK, IsSession
  <2> QED
    BY <1>2, <2>1 DEF SessionsInv, TalkApart, Apart
<1> QED
  BY <1>1, <1>2 DEF SessionsContinue, Agent!SessionsContinue, Agent!Running, FromOK

(* A resumed agent keeps its id and goes on with what the one it replaced  *)
(* was in the middle of, and no two agents are in one conversation that    *)
(* none of them was asked for: whatever the terminals run at once, and     *)
(* whatever becomes of the sessions between a list and the removal.        *)
THEOREM AgentsGoOn == PinsSpec => []SessionsContinue
<1>1. AnyInit => SessionsInv
  <2>1. AnyInit => Agent!Init
    BY DEF AnyInit, AgentAtRest
  <2> QED
    BY <2>1, SessionsInitially
<1>2. SessionsInv /\ [AnyNext]_allVars => SessionsInv'
  BY SessionsStep
<1> QED
  BY <1>1, <1>2, SessionsContinueInside, PTL DEF PinsSpec

-----------------------------------------------------------------------------
(* The signed file of module SinkFile: every line on the file, or in a     *)
(* check's hands.                                                          *)
Batches == [from : Int, to : Int]
Macs == Seq(Batches)
HookStates == [last : Nat, file : HookFiles \cup {""}, mac : Macs]

Rounds == [pc : {"idle", "deliver", "save"}, st : HookStates, file : HookFiles \cup {""}, sent : Nat]

SinkTypes ==
  /\ hook \in HookFiles \cup {""} /\ arrived \in Nat
  /\ file \in [HookFiles -> Seq(Macs)]
  /\ saved \in HookStates
  /\ round \in Rounds
  /\ check \in [pc : {"idle", "state", "said"}, path : HookFiles \cup {""}, data : Seq(Macs),
                then : HookStates, st : HookStates, ok : BOOLEAN]
  /\ round.pc # "idle" => round.file \in HookFiles
  /\ check.pc # "idle" => check.path \in HookFiles

Elements(s) == {s[i] : i \in DOMAIN s}
Lines(p) == Elements(file[p]) \cup IF check.pc # "idle" /\ check.path = p THEN Elements(check.data) ELSE {}

(* What the next round goes on from at the file, and whether it goes on at *)
(* all; whether this round has written to it.                              *)
Base(p) == IF saved.file = p THEN saved.mac ELSE <<>>
GoesOn(p) == saved.file \in {"", p}
Writing(p) == round.sent > 0 /\ round.file = p
Extends(line, mac) == Len(mac) <= Len(line) /\ \A i \in 1..Len(mac) : line[i] = mac[i]
End(lines) == Sink!Before(lines, Len(lines) + 1)

(* What a round holds follows from what is saved.                          *)
Unstarted == saved.file = "" => saved.mac = <<>>

RoundInv ==
  /\ Unstarted
  /\ round.pc = "idle" => round.sent = 0
  /\ round.pc = "deliver" /\ round.sent = 0 => round.st = saved
  /\ round.pc = "save" /\ round.sent = 0 => round.st = Sink!Chained(saved, round.file)
  /\ round.sent > 0 => round.st.file = round.file

(* A line longer than the saved chain goes on from it; and between rounds  *)
(* by one line only.                                                       *)
LinesInv(p) ==
  /\ \A l \in Lines(p) : Len(l) > Len(Base(p)) => Extends(l, Base(p))
  /\ ~Writing(p) /\ GoesOn(p) => \A l \in Lines(p) : Len(l) <= Len(Base(p)) + 1
  /\ Writing(p) =>
       /\ Len(round.st.mac) = Len(Base(p)) + round.sent /\ Extends(round.st.mac, Base(p))
       /\ round.sent = 1 => Sink!Front(round.st.mac) = Base(p)
       /\ \A l \in Lines(p) : Len(l) <= Len(round.st.mac)
  /\ round.pc = "save" /\ round.sent = 0 /\ round.file = p /\ ~GoesOn(p) => Lines(p) = {}

(* A file that nobody else wrote is a chain, and ends where the state says *)
(* or one line on.                                                         *)
ChainInv(p) ==
  /\ Sink!Chain(file[p])
  /\ Writing(p) => End(file[p]) = round.st.mac
  /\ ~Writing(p) /\ GoesOn(p) =>
       \/ End(file[p]) = Base(p)
       \/ End(file[p]) # <<>> /\ Sink!Front(End(file[p])) = Base(p)

Seen(mac, lines) == Sink!Covered(mac) \subseteq UNION {Sink!Covered(lines[i]) : i \in DOMAIN lines}

CheckInv ==
  /\ check.pc # "idle" /\ check.path \notin damaged => file[check.path] # <<>>
  /\ check.pc # "idle" /\ check.path \notin damaged \cup broken /\ check.then.file = check.path =>
       Sink!Verifies(check.path, check.data, check.then)
  /\ check.pc = "said" => check.ok = Sink!Verifies(check.path, check.data, check.st)
  /\ check.pc = "said" /\ check.path \notin broken /\ check.ok => Seen(check.st.mac, check.data)

SinkInv ==
  /\ SinkTypes /\ RoundInv /\ CheckInv
  /\ \A p \in HookFiles \ broken : LinesInv(p)
  /\ \A p \in HookFiles \ (broken \cup damaged) : ChainInv(p)

LEMMA SecondHalf ==
  \A i, m, n, k, len \in Int :
     i >= 1 /\ i <= len /\ m = i - 1 /\ n = len - i /\ k >= 1 /\ k <= m + n /\ ~(k <= m) =>
       k - m \in 1..n /\ i + (k - m) \in 1..len
  OBVIOUS

LEMMA FrontIsShorter ==
  \A n \in Nat \ {0} : \A k : k = (IF 1 <= n - 1 THEN n - 1 - 1 + 1 ELSE 0) => k = n - 1
  OBVIOUS

LEMMA StateOfAFile ==
  ASSUME NEW st \in HookStates PROVE st.mac \in Macs /\ Len(st.mac) \in Nat /\ st.last \in Nat
<1>1. st.mac \in Macs /\ st.last \in Nat
  BY DEF HookStates
<1> QED
  BY <1>1 DEF Macs

LEMMA OneMore ==
  \A n \in Nat : /\ n = 0 \/ n > 0
                 /\ n + 1 \in Nat /\ n + 1 > 0 /\ n + 1 # 0
                 /\ n = 0 => n + 1 = 1
                 /\ n > 0 => n + 1 # 1
  OBVIOUS

LEMMA NoState == Sink!HookState \in HookStates
  BY DEF HookStates, Sink!HookState, Sink!NoPath, Macs

LEMMA AppendsToMac ==
  ASSUME NEW m \in Macs, NEW b \in Batches
  PROVE  /\ Append(m, b) \in Macs /\ Len(Append(m, b)) = Len(m) + 1 /\ Append(m, b) # <<>>
         /\ Sink!Front(Append(m, b)) = m
         /\ Extends(Append(m, b), m)
         /\ \A n \in Macs : Extends(m, n) => Extends(Append(m, b), n)
<1>1. Append(m, b) \in Macs /\ Len(Append(m, b)) = Len(m) + 1 /\ \A i \in 1..Len(m) : Append(m, b)[i] = m[i]
  BY DEF Macs
<1>2. Sink!Front(Append(m, b)) = m
  BY <1>1 DEF Sink!Front, Macs
<1>3. Len(m) \in Nat /\ \A n \in Macs : Len(n) \in Nat
  BY DEF Macs
<1>4. Append(m, b) # <<>>
  BY <1>1, <1>3, EmptySeq DEF Macs
<1> QED
  BY <1>1, <1>2, <1>3, <1>4 DEF Extends

LEMMA AppendsToLines ==
  ASSUME NEW s \in Seq(Macs), NEW l \in Macs
  PROVE  /\ Append(s, l) \in Seq(Macs) /\ Append(s, l) # <<>>
         /\ Elements(Append(s, l)) = Elements(s) \cup {l}
         /\ End(Append(s, l)) = l
         /\ Sink!Chain(s) /\ Sink!Follows(l, End(s)) => Sink!Chain(Append(s, l))
<1>1. /\ Append(s, l) \in Seq(Macs) /\ Len(Append(s, l)) = Len(s) + 1 /\ Len(s) \in Nat
      /\ \A i \in 1..Len(s) : Append(s, l)[i] = s[i]
      /\ Append(s, l)[Len(s) + 1] = l
      /\ DOMAIN s = 1..Len(s) /\ DOMAIN Append(s, l) = 1..(Len(s) + 1)
  OBVIOUS
<1>2. Append(s, l) # <<>>
  BY <1>1
<1>3. Elements(Append(s, l)) = Elements(s) \cup {l}
  <2>1. 1..(Len(s) + 1) = 1..Len(s) \cup {Len(s) + 1}
    BY <1>1
  <2> QED
    BY <1>1, <2>1 DEF Elements
<1>4. End(Append(s, l)) = l
  BY <1>1 DEF End, Sink!Before
<1>5. ASSUME Sink!Chain(s), Sink!Follows(l, End(s)) PROVE Sink!Chain(Append(s, l))
  <2> SUFFICES ASSUME NEW i \in 1..(Len(s) + 1)
               PROVE  Sink!Follows(Append(s, l)[i], Sink!Before(Append(s, l), i))
    BY <1>1 DEF Sink!Chain
  <2>1. Sink!Before(Append(s, l), i) = Sink!Before(s, i)
    BY <1>1 DEF Sink!Before
  <2>2. CASE i = Len(s) + 1
    BY <1>1, <1>5, <2>1, <2>2 DEF End
  <2>3. CASE i # Len(s) + 1
    BY <1>1, <1>5, <2>1, <2>3 DEF Sink!Chain
  <2> QED
    BY <2>2, <2>3
<1> QED
  BY <1>1, <1>2, <1>3, <1>4, <1>5

(* What somebody else leaves of a file are lines of it, or a torn one.     *)
LEMMA CutOrTorn ==
  ASSUME NEW s \in Seq(Macs), s # <<>>, NEW i \in DOMAIN s
  PROVE  /\ Sink!RemoveAt(s, i) \in Seq(Macs) /\ Elements(Sink!RemoveAt(s, i)) \subseteq Elements(s)
         /\ Append(Sink!Front(s), Sink!Torn) \in Seq(Macs)
         /\ Elements(Append(Sink!Front(s), Sink!Torn)) \subseteq Elements(s) \cup {<<>>}
<1>1. Sink!RemoveAt(s, i) \in Seq(Macs) /\ Elements(Sink!RemoveAt(s, i)) \subseteq Elements(s)
  <2> DEFINE a == SubSeq(s, 1, i - 1)
             b == SubSeq(s, i + 1, Len(s))
  <2>1. i \in 1..Len(s) /\ Len(s) \in Nat
    OBVIOUS
  <2>2. /\ a \in Seq(Macs) /\ b \in Seq(Macs) /\ Len(a) = i - 1 /\ Len(b) = Len(s) - i
        /\ \A j \in 1..Len(a) : a[j] = s[j]
        /\ \A j \in 1..Len(b) : b[j] = s[i + j]
    <3>1. \A j \in 1..Len(s) : s[j] \in Macs
      OBVIOUS
    <3>2. a \in Seq(Macs) /\ Len(a) = i - 1 /\ \A j \in 1..(i - 1) : a[j] = s[j]
      <4>1. \A j \in 1..(i - 1) : s[j] \in Macs
        BY <2>1, <3>1
      <4> QED
        BY <2>1, <4>1, SubSeqProperties
    <3>3. /\ b \in Seq(Macs) /\ Len(b) = Len(s) - i
          /\ \A j \in 1..(Len(s) - i) : b[j] = s[i + j]
      <4>1. \A j \in (i + 1)..Len(s) : s[j] \in Macs
        BY <2>1, <3>1
      <4>2. /\ b \in Seq(Macs) /\ Len(b) = IF i + 1 <= Len(s) THEN Len(s) - (i + 1) + 1 ELSE 0
            /\ \A j \in 1..(Len(s) - (i + 1) + 1) : b[j] = s[(i + 1) + j - 1]
        BY <2>1, <4>1, SubSeqProperties
      <4> QED
        BY <2>1, <4>2
    <3> QED
      BY <3>2, <3>3
  <2> HIDE DEF a, b
  <2>3. /\ a \o b \in Seq(Macs) /\ Len(a \o b) = Len(a) + Len(b)
        /\ Len(a) \in Nat /\ Len(b) \in Nat
        /\ \A j \in 1..Len(a \o b) : (a \o b)[j] = IF j <= Len(a) THEN a[j] ELSE b[j - Len(a)]
    <3>1. a \in Seq(Macs) /\ b \in Seq(Macs)
      BY <2>2
    <3>2. Len(a) \in Nat /\ Len(b) \in Nat
      BY <3>1, LenProperties
    <3>3. /\ a \o b \in Seq(Macs) /\ Len(a \o b) = Len(a) + Len(b)
          /\ \A j \in 1..(Len(a) + Len(b)) : (a \o b)[j] = IF j <= Len(a) THEN a[j] ELSE b[j - Len(a)]
      BY <3>1, ConcatProperties, Zenon
    <3> QED
      BY <3>2, <3>3
  <2>4. \A j \in 1..Len(a \o b) : \E k \in 1..Len(s) : (a \o b)[j] = s[k]
    <3> SUFFICES ASSUME NEW j \in 1..Len(a \o b) PROVE \E k \in 1..Len(s) : (a \o b)[j] = s[k]
      OBVIOUS
    <3>1. CASE j <= Len(a)
      <4>1. (a \o b)[j] = s[j] /\ j \in 1..Len(s)
        <5>1. j \in 1..Len(a)
          BY <2>3, <3>1
        <5>2. (a \o b)[j] = a[j]
          BY <2>3, <3>1
        <5> QED
          BY <2>1, <2>2, <5>1, <5>2
      <4> QED
        BY <4>1
    <3>2. CASE ~(j <= Len(a))
      <4>1. j - Len(a) \in 1..Len(b) /\ i + (j - Len(a)) \in 1..Len(s)
        <5>1. /\ Len(a) = i - 1 /\ Len(b) = Len(s) - i /\ Len(a \o b) = Len(a) + Len(b)
              /\ i \in Nat /\ i <= Len(s) /\ i >= 1 /\ Len(s) \in Nat /\ j \in Int
          BY <2>1, <2>2, <2>3
        <5>2. j >= 1 /\ j <= Len(a) + Len(b)
          BY <5>1
        <5>4. Len(a) \in Int /\ Len(b) \in Int /\ Len(s) \in Int /\ i \in Int
          BY <2>1, <2>3
        <5> QED
          BY <5>1, <5>2, <5>4, <3>2, SecondHalf, Zenon
      <4>2. (a \o b)[j] = s[i + (j - Len(a))]
        BY <2>2, <2>3, <3>2, <4>1
      <4> QED
        BY <4>1, <4>2
    <3> QED
      BY <3>1, <3>2
  <2>5. Sink!RemoveAt(s, i) = a \o b
    BY DEF Sink!RemoveAt, a, b
  <2>6. DOMAIN (a \o b) = 1..Len(a \o b) /\ DOMAIN s = 1..Len(s)
    BY <2>3
  <2>7. \A x \in Elements(a \o b) : x \in Elements(s)
    BY <2>4, <2>6 DEF Elements
  <2> QED
    BY <2>3, <2>5, <2>7
<1>2. <<>> \in Macs
  BY DEF Macs
<1>3. /\ Sink!Front(s) \in Seq(Macs) /\ Len(Sink!Front(s)) = Len(s) - 1
      /\ \A j \in 1..(Len(s) - 1) : Sink!Front(s)[j] = s[j]
  <2>1. Len(s) \in Nat /\ Len(s) > 0 /\ \A j \in 1..Len(s) : s[j] \in Macs
    BY EmptySeq
  <2>2. \A j \in 1..(Len(s) - 1) : s[j] \in Macs
    BY <2>1
  <2>3. /\ SubSeq(s, 1, Len(s) - 1) \in Seq(Macs)
        /\ Len(SubSeq(s, 1, Len(s) - 1)) = IF 1 <= Len(s) - 1 THEN Len(s) - 1 - 1 + 1 ELSE 0
        /\ \A j \in 1..(Len(s) - 1 - 1 + 1) : SubSeq(s, 1, Len(s) - 1)[j] = s[1 + j - 1]
    BY <2>1, <2>2, SubSeqProperties
  <2>4. /\ SubSeq(s, 1, Len(s) - 1) \in Seq(Macs) /\ Len(SubSeq(s, 1, Len(s) - 1)) = Len(s) - 1
    <3>1. Len(s) \in Nat \ {0}
      BY <2>1
    <3>2. Len(SubSeq(s, 1, Len(s) - 1)) = (IF 1 <= Len(s) - 1 THEN Len(s) - 1 - 1 + 1 ELSE 0)
      BY <2>3
    <3>3. Len(SubSeq(s, 1, Len(s) - 1)) = Len(s) - 1
      BY <3>1, <3>2, FrontIsShorter, Zenon
    <3> QED
      BY <2>3, <3>3
  <2>5. \A j \in 1..(Len(s) - 1) : SubSeq(s, 1, Len(s) - 1)[j] = s[j]
    <3> TAKE j \in 1..(Len(s) - 1)
    <3>1. j \in 1..(Len(s) - 1 - 1 + 1) /\ 1 + j - 1 = j
      BY <2>1
    <3> QED
      BY <2>3, <3>1
  <2> QED
    BY <2>4, <2>5 DEF Sink!Front
<1>4. Elements(Sink!Front(s)) \subseteq Elements(s)
  <2>1. DOMAIN Sink!Front(s) = 1..(Len(s) - 1) /\ DOMAIN s = 1..Len(s) /\ Len(s) \in Nat
    BY <1>3
  <2> QED
    BY <1>3, <2>1 DEF Elements
<1>5. Sink!Torn = <<>>
  BY DEF Sink!Torn
<1> QED
  BY <1>1, <1>2, <1>3, <1>4, <1>5, AppendsToLines

LEMMA FrontOfMac ==
  ASSUME NEW m \in Macs, m # <<>>
  PROVE  Sink!Front(m) \in Macs /\ Len(Sink!Front(m)) = Len(m) - 1 /\ Len(m) \in Nat /\ Len(m) > 0
<1>1. Len(m) \in Nat /\ Len(m) > 0 /\ \A j \in 1..Len(m) : m[j] \in Batches
  BY EmptySeq DEF Macs
<1>2. \A j \in 1..(Len(m) - 1) : m[j] \in Batches
  BY <1>1
<1>3. /\ SubSeq(m, 1, Len(m) - 1) \in Seq(Batches)
      /\ Len(SubSeq(m, 1, Len(m) - 1)) = (IF 1 <= Len(m) - 1 THEN Len(m) - 1 - 1 + 1 ELSE 0)
  BY <1>1, <1>2, SubSeqProperties
<1>4. Len(m) \in Nat \ {0}
  BY <1>1
<1>5. Len(SubSeq(m, 1, Len(m) - 1)) = Len(m) - 1
  BY <1>3, <1>4, FrontIsShorter, Zenon
<1> QED
  BY <1>1, <1>3, <1>5 DEF Sink!Front, Macs

LEMMA EndIsALine ==
  ASSUME NEW s \in Seq(Macs)
  PROVE  /\ s = <<>> => End(s) = <<>>
         /\ s # <<>> => End(s) \in Elements(s)
         /\ End(s) \in Macs
         /\ Elements(s) \subseteq Macs
         /\ s = <<>> <=> Elements(s) = {}
<1>1. Len(s) \in Nat /\ DOMAIN s = 1..Len(s) /\ (s # <<>> => Len(s) > 0) /\ Len(<<>>) = 0
      /\ \A i \in 1..Len(s) : s[i] \in Macs
  BY EmptySeq
<1>2. <<>> \in Macs
  BY DEF Macs
<1>3. s = <<>> => End(s) = <<>> /\ Elements(s) = {}
  BY <1>1 DEF End, Sink!Before, Elements
<1>4. ASSUME s # <<>> PROVE End(s) \in Elements(s)
  <2>1. Len(s) \in DOMAIN s /\ Len(s) + 1 # 1 /\ Len(s) + 1 - 1 = Len(s)
    BY <1>1, <1>4
  <2>2. End(s) = s[Len(s)]
    BY <2>1 DEF End, Sink!Before
  <2> QED
    BY <2>1, <2>2 DEF Elements
<1>5. Elements(s) \subseteq Macs
  BY <1>1 DEF Elements
<1> QED
  BY <1>2, <1>3, <1>4, <1>5

LEMMA LinesAreMacs ==
  ASSUME SinkTypes, NEW p \in HookFiles
  PROVE  Lines(p) \subseteq Macs /\ Base(p) \in Macs /\ Len(Base(p)) \in Nat /\ file[p] \in Seq(Macs)
         /\ \A l \in Lines(p) : Len(l) \in Nat
<1>1. file[p] \in Seq(Macs) /\ check.data \in Seq(Macs) /\ saved.mac \in Macs
  BY DEF SinkTypes, Rounds, HookStates
<1>2. Lines(p) \subseteq Macs
  BY <1>1, EndIsALine DEF Lines
<1>3. Base(p) \in Macs
  BY <1>1, EndIsALine DEF Base, Macs
<1> QED
  BY <1>1, <1>2, <1>3 DEF Macs

(* What is in a check's hands is still so.                                 *)
LEMMA CheckStays ==
  ASSUME CheckInv, check' = check, broken \subseteq broken', damaged \subseteq damaged',
         \A p \in HookFiles : p \notin damaged' /\ file[p] # <<>> => file'[p] # <<>>, SinkTypes
  PROVE  CheckInv'
<1>1. check.pc # "idle" => check.path \in HookFiles
  BY DEF SinkTypes, Rounds
<1> QED
  BY <1>1 DEF CheckInv

(* Where neither the round nor what is saved changes, and nobody writes a  *)
(* line that is not torn.                                                  *)
LEMMA NothingWritten ==
  ASSUME SinkInv, SinkTypes', CheckInv', round' = round, saved' = saved, broken' = broken,
         damaged \subseteq damaged',
         \A p \in HookFiles : /\ Lines(p)' \subseteq Lines(p) \cup {<<>>}
                              /\ Lines(p) = {} => Lines(p)' = {}
                              /\ p \notin damaged' => file'[p] = file[p]
  PROVE  SinkInv'
<1>1. RoundInv'
  BY DEF SinkInv, RoundInv, Unstarted
<1>2. ASSUME NEW p \in HookFiles \ broken PROVE LinesInv(p)'
  <2>1. LinesInv(p)
    BY <1>2 DEF SinkInv
  <2>2. Base(p)' = Base(p) /\ GoesOn(p)' = GoesOn(p) /\ Writing(p)' = Writing(p) /\ Len(Base(p)) \in Nat
    BY LinesAreMacs DEF SinkInv, Base, GoesOn, Writing
  <2>3. Len(round.st.mac) \in Nat
    <3>1. round.st.mac \in Macs
      BY DEF SinkInv, SinkTypes, Rounds, HookStates
    <3> QED
      BY <3>1 DEF Macs
  <2>4. \A l \in Lines(p)' : l \in Lines(p) \/ l = <<>>
    OBVIOUS
  <2>5. Len(<<>>) = 0
    OBVIOUS
  <2>6. \A l \in Lines(p)' : Len(l) > Len(Base(p)) => Extends(l, Base(p))
    BY <2>1, <2>2, <2>4, <2>5 DEF LinesInv
  <2>7. ~Writing(p) /\ GoesOn(p) => \A l \in Lines(p)' : Len(l) <= Len(Base(p)) + 1
    BY <2>1, <2>2, <2>4, <2>5 DEF LinesInv
  <2>8. Writing(p) => \A l \in Lines(p)' : Len(l) <= Len(round.st.mac)
    BY <2>1, <2>3, <2>4, <2>5 DEF LinesInv
  <2> QED
    BY <1>2, <2>1, <2>2, <2>6, <2>7, <2>8 DEF LinesInv
<1>3. ASSUME NEW p \in HookFiles \ (broken \cup damaged') PROVE ChainInv(p)'
  <2>1. ChainInv(p) /\ file'[p] = file[p]
    BY <1>3 DEF SinkInv
  <2>2. Base(p)' = Base(p) /\ GoesOn(p)' = GoesOn(p) /\ Writing(p)' = Writing(p)
    BY DEF Base, GoesOn, Writing
  <2> QED
    BY <2>1, <2>2 DEF ChainInv
<1> QED
  BY <1>1, <1>2, <1>3 DEF SinkInv

LEMMA SinkInitially == Sink!Init => SinkInv
<1> SUFFICES ASSUME Sink!Init PROVE SinkInv
  OBVIOUS
<1>1. <<>> \in Macs /\ <<>> \in Seq(Macs) /\ "" = Sink!NoPath
  BY DEF Macs, Sink!NoPath
<1>2. Sink!HookState \in HookStates
  BY <1>1 DEF HookStates, Sink!HookState
<1>3. SinkTypes
  BY <1>1, <1>2 DEF Sink!Init, SinkTypes, Rounds, Sink!NoRound, Sink!NoCheck
<1>4. RoundInv /\ CheckInv
  BY <1>1 DEF RoundInv, Unstarted, CheckInv, Sink!Init, Sink!HookState, Sink!NoRound, Sink!NoCheck
<1>5. ASSUME NEW p \in HookFiles PROVE LinesInv(p) /\ ChainInv(p)
  <2>1. /\ file[p] = <<>> /\ check.pc = "idle" /\ round.sent = 0 /\ round.pc = "idle" /\ saved.file = ""
        /\ saved.mac = <<>>
    BY <1>1 DEF Sink!Init, Sink!HookState, Sink!NoRound, Sink!NoCheck
  <2>2. Lines(p) = {} /\ End(file[p]) = <<>>
    BY <1>1, <2>1, EndIsALine DEF Lines
  <2>3. Sink!Chain(file[p])
    <3>1. DOMAIN <<>> = {}
      OBVIOUS
    <3> QED
      BY <2>1, <3>1 DEF Sink!Chain
  <2>4. ~Writing(p) /\ Base(p) = <<>>
    <3>1. ~(0 > 0)
      OBVIOUS
    <3> QED
      BY <2>1, <3>1, Zenon DEF Writing, Base
  <2>5. LinesInv(p)
    BY <2>1, <2>2, <2>4 DEF LinesInv
  <2> QED
    BY <2>2, <2>3, <2>4, <2>5 DEF ChainInv
<1> QED
  BY <1>3, <1>4, <1>5 DEF SinkInv

(* Nothing is written, and no check begins or ends.                        *)
LEMMA OthersKeep ==
  ASSUME SinkInv, Sink!Arrives \/ Sink!HookRemove \/ \E p \in HookFiles : Sink!HookAdd(p)
  PROVE  SinkInv'
<1>1. /\ file' = file /\ saved' = saved /\ round' = round /\ check' = check /\ damaged' = damaged
      /\ broken' = broken /\ arrived' \in Nat /\ hook' \in HookFiles \cup {""}
  <2>1. arrived \in Nat /\ hook \in HookFiles \cup {""}
    BY DEF SinkInv, SinkTypes, Rounds
  <2>2. CASE Sink!Arrives
    <3>1. arrived \in Nat
      BY <2>1
    <3>2. arrived' \in Nat
      BY <2>2, <3>1 DEF Sink!Arrives
    <3> QED
      BY <2>1, <2>2, <3>2 DEF Sink!Arrives
  <2>3. CASE Sink!HookRemove
    BY <2>1, <2>3 DEF Sink!HookRemove, Sink!NoPath
  <2>4. CASE \E p \in HookFiles : Sink!HookAdd(p)
    BY <2>1, <2>4 DEF Sink!HookAdd
  <2> QED
    BY <2>2, <2>3, <2>4
<1>2. SinkTypes'
  BY <1>1 DEF SinkInv, SinkTypes, Rounds
<1>3. CheckInv'
  BY <1>1, CheckStays DEF SinkInv
<1>4. \A p \in HookFiles : Lines(p)' = Lines(p)
  BY <1>1 DEF Lines
<1> QED
  BY <1>1, <1>2, <1>3, <1>4, NothingWritten

LEMMA DamageKeeps == ASSUME SinkInv, NEW p \in HookFiles, Sink!Damage(p) PROVE SinkInv'
<1>1. /\ file[p] # <<>> /\ damaged' = damaged \cup {p} /\ broken' = broken /\ check' = check
      /\ saved' = saved /\ round' = round /\ hook' = hook /\ arrived' = arrived
  BY DEF Sink!Damage
<1>2. file \in [HookFiles -> Seq(Macs)] /\ file[p] \in Seq(Macs)
  BY DEF SinkInv, SinkTypes, Rounds
<1>3. PICK s \in Seq(Macs) : file' = [file EXCEPT ![p] = s] /\ Elements(s) \subseteq Elements(file[p]) \cup {<<>>}
  <2>1. ASSUME NEW i \in DOMAIN file[p], file' = [file EXCEPT ![p] = Sink!RemoveAt(@, i)]
        PROVE  \E s \in Seq(Macs) : file' = [file EXCEPT ![p] = s] /\ Elements(s) \subseteq Elements(file[p]) \cup {<<>>}
    <3>1. Sink!RemoveAt(file[p], i) \in Seq(Macs) /\ Elements(Sink!RemoveAt(file[p], i)) \subseteq Elements(file[p])
      BY <1>1, <1>2, CutOrTorn
    <3>2. file' = [file EXCEPT ![p] = Sink!RemoveAt(file[p], i)]
      BY <2>1
    <3> QED
      BY <3>1, <3>2
  <2>2. ASSUME file' = [file EXCEPT ![p] = Append(Sink!Front(@), Sink!Torn)]
        PROVE  \E s \in Seq(Macs) : file' = [file EXCEPT ![p] = s] /\ Elements(s) \subseteq Elements(file[p]) \cup {<<>>}
    <3>1. Len(file[p]) \in DOMAIN file[p]
      BY <1>1, <1>2, EmptySeq
    <3>2. /\ Append(Sink!Front(file[p]), Sink!Torn) \in Seq(Macs)
          /\ Elements(Append(Sink!Front(file[p]), Sink!Torn)) \subseteq Elements(file[p]) \cup {<<>>}
      BY <1>1, <1>2, <3>1, CutOrTorn
    <3>3. file' = [file EXCEPT ![p] = Append(Sink!Front(file[p]), Sink!Torn)]
      BY <2>2
    <3> QED
      BY <3>2, <3>3
  <2> QED
    BY <2>1, <2>2 DEF Sink!Damage
<1>4. \A q \in HookFiles : file'[q] = IF q = p THEN s ELSE file[q]
  BY <1>2, <1>3
<1>5. SinkTypes'
  <2>1. file' \in [HookFiles -> Seq(Macs)]
    BY <1>2, <1>3
  <2> QED
    BY <1>1, <2>1 DEF SinkInv, SinkTypes, Rounds
<1>6. CheckInv'
  <2>1. SinkTypes /\ CheckInv
    BY DEF SinkInv
  <2>2. \A q \in HookFiles : q \notin damaged' /\ file[q] # <<>> => file'[q] # <<>>
    BY <1>1, <1>4
  <2> QED
    BY <1>1, <2>1, <2>2, CheckStays
<1>7. Elements(file[p]) # {}
  BY <1>1, <1>2, EndIsALine
<1>8. ASSUME NEW q \in HookFiles
      PROVE  Lines(q)' \subseteq Lines(q) \cup {<<>>} /\ (Lines(q) = {} => Lines(q)' = {})
             /\ (q \notin damaged' => file'[q] = file[q])
  <2>1. CASE q = p
    <3>1. Elements(file'[p]) = Elements(s)
      BY <1>4
    <3>2. Lines(q)' \subseteq Lines(q) \cup {<<>>} /\ Lines(q) # {}
      BY <1>1, <1>3, <1>7, <2>1, <3>1 DEF Lines
    <3> QED
      BY <1>1, <2>1, <3>2
  <2>2. CASE q # p
    <3>1. file'[q] = file[q]
      BY <1>4, <2>2
    <3>2. Lines(q)' = Lines(q)
      BY <1>1, <3>1 DEF Lines
    <3> QED
      BY <3>1, <3>2
  <2> QED
    BY <2>1, <2>2
<1> QED
  BY <1>1, <1>5, <1>6, <1>8, NothingWritten

(* What a passing check has seen.                                          *)
LEMMA EndCovers ==
  ASSUME NEW s \in Seq(Macs), NEW m \in Macs, End(s) = m \/ Extends(End(s), m)
  PROVE  Seen(m, s)
<1>1. CASE m = <<>>
  <2>1. DOMAIN m = {}
    BY <1>1
  <2>2. Sink!Covered(m) = {}
    BY <2>1 DEF Sink!Covered
  <2> QED
    BY <2>2 DEF Seen
<1>2. CASE m # <<>>
  <2>1. Len(m) \in Nat /\ Len(m) > 0 /\ DOMAIN m = 1..Len(m)
    BY <1>2, FrontOfMac DEF Macs
  <2>2. Len(<<>>) = 0
    OBVIOUS
  <2>3. End(s) # <<>>
    BY <1>2, <2>1, <2>2 DEF Extends
  <2>4. End(s) \in Elements(s) /\ End(s) \in Macs
    BY <2>3, EndIsALine
  <2>5. Len(End(s)) \in Nat /\ DOMAIN End(s) = 1..Len(End(s))
    BY <2>4 DEF Macs
  <2>6. \A i \in DOMAIN m : i \in DOMAIN End(s) /\ End(s)[i] = m[i]
    BY <2>1, <2>5 DEF Extends
  <2>7. Sink!Covered(m) \subseteq Sink!Covered(End(s))
    BY <2>6 DEF Sink!Covered
  <2>8. PICK i \in DOMAIN s : End(s) = s[i]
    BY <2>4 DEF Elements
  <2> QED
    BY <2>7, <2>8 DEF Seen
<1> QED
  BY <1>1, <1>2

LEMMA CheckReadKeeps == ASSUME SinkInv, NEW p \in HookFiles, Sink!CheckRead(p) PROVE SinkInv'
<1>1. /\ check.pc = "idle" /\ file[p] # <<>> /\ file' = file /\ damaged' = damaged /\ broken' = broken
      /\ saved' = saved /\ round' = round /\ hook' = hook /\ arrived' = arrived
      /\ check' = [Sink!NoCheck EXCEPT !.pc = "state", !.path = p, !.data = file[p], !.then = saved]
  BY DEF Sink!CheckRead
<1>2. file[p] \in Seq(Macs) /\ saved \in HookStates /\ SinkTypes
  BY DEF SinkInv, SinkTypes, Rounds
<1>3. Sink!HookState \in HookStates
  BY DEF HookStates, Sink!HookState, Sink!NoPath, Macs
<1>4. /\ check'.pc = "state" /\ check'.path = p /\ check'.data = file[p] /\ check'.then = saved
      /\ check' \in [pc : {"idle", "state", "said"}, path : HookFiles \cup {""}, data : Seq(Macs),
                     then : HookStates, st : HookStates, ok : BOOLEAN]
  BY <1>1, <1>2, <1>3 DEF Sink!NoCheck
<1>5. SinkTypes'
  BY <1>1, <1>4 DEF SinkInv, SinkTypes, Rounds
<1>6. ASSUME p \notin damaged \cup broken, saved.file = p PROVE Sink!Verifies(p, file[p], saved)
  <2>1. ChainInv(p) /\ LinesInv(p)
    BY <1>6 DEF SinkInv
  <2>2. GoesOn(p) /\ Base(p) = saved.mac /\ saved.mac \in Macs /\ Len(saved.mac) \in Nat
    BY <1>2, <1>6, StateOfAFile DEF GoesOn, Base
  <2>3. CASE Writing(p)
    <3>1. Len(End(file[p])) = Len(saved.mac) + round.sent /\ round.sent > 0 /\ round.sent \in Nat
      BY <1>2, <2>1, <2>2, <2>3 DEF ChainInv, LinesInv, Writing, SinkTypes, Rounds
    <3> QED
      BY <1>6, <2>1, <2>2, <3>1 DEF Sink!Verifies, Sink!Ends, ChainInv, End
  <2>4. CASE ~Writing(p)
    <3>1. End(file[p]) = saved.mac \/ (End(file[p]) # <<>> /\ Sink!Front(End(file[p])) = saved.mac)
      BY <2>1, <2>2, <2>4 DEF ChainInv
    <3>2. End(file[p]) \in Macs
      BY <1>2, EndIsALine
    <3>3. End(file[p]) = saved.mac \/ Len(End(file[p])) > Len(saved.mac)
      BY <2>2, <3>1, <3>2, FrontOfMac
    <3> QED
      BY <1>6, <2>1, <3>3 DEF Sink!Verifies, Sink!Ends, ChainInv, End
  <2> QED
    BY <2>3, <2>4
<1>7. CheckInv'
  BY <1>1, <1>4, <1>6 DEF CheckInv
<1>8. ASSUME NEW q \in HookFiles PROVE Lines(q)' = Lines(q)
  BY <1>1, <1>4 DEF Lines
<1> QED
  BY <1>1, <1>5, <1>7, <1>8, NothingWritten

LEMMA CheckStateKeeps == ASSUME SinkInv, Sink!CheckState PROVE SinkInv'
<1>1. /\ check.pc = "state" /\ file' = file /\ damaged' = damaged /\ broken' = broken
      /\ saved' = saved /\ round' = round /\ hook' = hook /\ arrived' = arrived
      /\ check' = [check EXCEPT !.pc = "said", !.st = saved,
                               !.ok = Sink!Verifies(check.path, check.data, saved)]
  BY DEF Sink!CheckState
<1>2. check.data \in Seq(Macs) /\ saved \in HookStates /\ SinkTypes /\ check.path \in HookFiles
  BY <1>1 DEF SinkInv, SinkTypes, Rounds
<1>3. Sink!Verifies(check.path, check.data, saved) \in BOOLEAN
  BY DEF Sink!Verifies, Sink!Chain, Sink!Ends
<1>4. /\ check'.pc = "said" /\ check'.path = check.path /\ check'.data = check.data /\ check'.then = check.then
      /\ check'.st = saved /\ check'.ok = Sink!Verifies(check.path, check.data, saved)
      /\ check' \in [pc : {"idle", "state", "said"}, path : HookFiles \cup {""}, data : Seq(Macs),
                     then : HookStates, st : HookStates, ok : BOOLEAN]
  BY <1>1, <1>2, <1>3 DEF SinkTypes, Rounds
<1>5. SinkTypes'
  BY <1>1, <1>2, <1>4 DEF SinkTypes, Rounds
<1>6. ASSUME check.path \notin broken, Sink!Verifies(check.path, check.data, saved)
      PROVE  Seen(saved.mac, check.data)
  <2> DEFINE p == check.path
             e == End(check.data)
  <2>1. saved.file = p /\ (Len(e) > Len(saved.mac) \/ e = saved.mac) /\ saved.mac \in Macs /\ Len(saved.mac) \in Nat
    <3>1. saved.mac \in Macs /\ Len(saved.mac) \in Nat
      BY <1>2, StateOfAFile
    <3>2. saved.file = p /\ Sink!Ends(e, saved.mac)
      BY <1>6 DEF Sink!Verifies, End
    <3> QED
      BY <3>1, <3>2 DEF Sink!Ends
  <2>2. ASSUME Len(e) > Len(saved.mac) PROVE Extends(e, saved.mac)
    <3>1. Len(<<>>) = 0
      OBVIOUS
    <3>2. check.data # <<>>
      BY <1>2, <2>1, <2>2, <3>1, EndIsALine
    <3>3. e \in Lines(p)
      BY <1>1, <1>2, <3>2, EndIsALine DEF Lines
    <3>4. LinesInv(p)
      BY <1>2, <1>6 DEF SinkInv
    <3> QED
      BY <2>1, <2>2, <3>3, <3>4 DEF LinesInv, Base
  <2> QED
    BY <1>2, <2>1, <2>2, EndCovers
<1>7. CheckInv'
  <2>1. /\ check.path \notin damaged => file[check.path] # <<>>
        /\ check.path \notin damaged \cup broken /\ check.then.file = check.path =>
             Sink!Verifies(check.path, check.data, check.then)
    BY <1>1 DEF SinkInv, CheckInv
  <2>2. check'.pc = "said" /\ check'.path \notin broken' /\ check'.ok => Seen(check'.st.mac, check'.data)
    BY <1>1, <1>4, <1>6
  <2>3. check'.ok = Sink!Verifies(check'.path, check'.data, check'.st)
    BY <1>4
  <2> QED
    BY <1>1, <1>4, <2>1, <2>2, <2>3 DEF CheckInv
<1>8. ASSUME NEW q \in HookFiles PROVE Lines(q)' = Lines(q)
  BY <1>1, <1>4 DEF Lines
<1> QED
  BY <1>1, <1>5, <1>7, <1>8, NothingWritten

LEMMA CheckEndsKeeps == ASSUME SinkInv, Sink!CheckEnds PROVE SinkInv'
<1>1. /\ file' = file /\ damaged' = damaged /\ broken' = broken /\ check' = Sink!NoCheck
      /\ saved' = saved /\ round' = round /\ hook' = hook /\ arrived' = arrived
  BY DEF Sink!CheckEnds
<1>2. /\ check'.pc = "idle"
      /\ check' \in [pc : {"idle", "state", "said"}, path : HookFiles \cup {""}, data : Seq(Macs),
                     then : HookStates, st : HookStates, ok : BOOLEAN]
  <2>1. Sink!HookState \in HookStates
    BY DEF HookStates, Sink!HookState, Sink!NoPath, Macs
  <2>2. <<>> \in Seq(Macs)
    OBVIOUS
  <2>3. check' = [pc |-> "idle", path |-> "", data |-> <<>>, then |-> Sink!HookState,
                  st |-> Sink!HookState, ok |-> TRUE]
    BY <1>1 DEF Sink!NoCheck, Sink!NoPath
  <2> QED
    BY <2>1, <2>2, <2>3
<1>3. SinkTypes'
  BY <1>1, <1>2 DEF SinkInv, SinkTypes, Rounds
<1>4. CheckInv'
  BY <1>2 DEF CheckInv
<1>5. ASSUME NEW q \in HookFiles PROVE Lines(q)' \subseteq Lines(q)
  BY <1>1, <1>2 DEF Lines
<1> QED
  BY <1>1, <1>3, <1>4, <1>5, NothingWritten

LEMMA BeginKeeps == ASSUME SinkInv, Sink!Begin PROVE SinkInv'
<1>1. /\ round.pc = "idle" /\ hook # "" /\ file' = file /\ damaged' = damaged /\ broken' = broken
      /\ saved' = saved /\ check' = check /\ hook' = hook /\ arrived' = arrived
      /\ round' = [pc |-> "deliver", st |-> saved, file |-> hook, sent |-> 0]
  BY DEF Sink!Begin, Sink!NoPath
<1>2. SinkTypes /\ RoundInv /\ CheckInv
  BY DEF SinkInv
<1>3. /\ round'.pc = "deliver" /\ round'.st = saved /\ round'.file = hook /\ round'.sent = 0
      /\ hook \in HookFiles /\ round.sent = 0
  BY <1>1, <1>2 DEF SinkTypes, Rounds, RoundInv
<1>4. SinkTypes'
  BY <1>1, <1>2, <1>3 DEF SinkTypes, Rounds
<1>5. CheckInv'
  BY <1>1, <1>2, CheckStays
<1>6. ~(0 > 0)
  OBVIOUS
<1>7. RoundInv'
  BY <1>1, <1>2, <1>3, <1>6 DEF RoundInv, Unstarted
<1>8. ASSUME NEW p \in HookFiles
      PROVE  /\ Lines(p)' = Lines(p) /\ Base(p)' = Base(p) /\ GoesOn(p)' = GoesOn(p)
             /\ ~Writing(p) /\ ~Writing(p)'
  BY <1>1, <1>3, <1>6 DEF Lines, Base, GoesOn, Writing
<1>9. ASSUME NEW p \in HookFiles \ broken PROVE LinesInv(p)'
  <2>1. LinesInv(p)
    BY <1>9 DEF SinkInv
  <2> QED
    BY <1>3, <1>8, <1>9, <2>1 DEF LinesInv
<1>10. ASSUME NEW p \in HookFiles \ (broken \cup damaged) PROVE ChainInv(p)'
  <2>1. ChainInv(p)
    BY <1>10 DEF SinkInv
  <2> QED
    BY <1>1, <1>8, <1>10, <2>1 DEF ChainInv
<1> QED
  BY <1>1, <1>4, <1>5, <1>7, <1>9, <1>10 DEF SinkInv

(* The next round can go on from what is saved.                            *)
Resumes(p) ==
  GoesOn(p) =>
    /\ \A l \in Lines(p) : Len(l) > Len(Base(p)) => Extends(l, Base(p)) /\ Len(l) <= Len(Base(p)) + 1
    /\ p \notin damaged =>
         \/ End(file[p]) = Base(p)
         \/ End(file[p]) # <<>> /\ Sink!Front(End(file[p])) = Base(p)

(* The round is over, and what it held is recorded or lost.                *)
LEMMA RoundEnds ==
  ASSUME SinkInv, round' = Sink!NoRound, file' = file, damaged' = damaged, check' = check, hook' = hook,
         arrived' = arrived, saved' \in HookStates, Unstarted', broken \subseteq broken',
         \A p \in HookFiles \ broken' : Resumes(p)'
  PROVE  SinkInv'
<1>1. SinkTypes /\ CheckInv
  BY DEF SinkInv
<1>2. round'.pc = "idle" /\ round'.sent = 0 /\ round'.file = "" /\ round'.st = Sink!HookState
  BY DEF Sink!NoRound, Sink!NoPath
<1>3. Sink!HookState \in HookStates
  BY NoState
<1>4. SinkTypes'
  <2>1. round' \in [pc : {"idle", "deliver", "save"}, st : HookStates, file : HookFiles \cup {""}, sent : Nat]
    BY <1>3 DEF Sink!NoRound, Sink!NoPath
  <2> QED
    BY <1>1, <1>2, <2>1 DEF SinkTypes, Rounds
<1>5. CheckInv'
  BY <1>1, CheckStays
<1>6. ~(0 > 0)
  OBVIOUS
<1>7. RoundInv'
  BY <1>2, <1>6 DEF RoundInv
<1>8. ASSUME NEW p \in HookFiles \ broken' PROVE LinesInv(p)'
  <2>1. Lines(p)' = Lines(p) /\ ~Writing(p)'
    BY <1>2, <1>6 DEF Lines, Writing
  <2>2. \A l \in Lines(p) : Len(l) \in Nat
    BY <1>1, <1>8, LinesAreMacs
  <2>3. Base(p)' \in Macs /\ Len(Base(p)') \in Nat
    <3>1. saved'.mac \in Macs /\ <<>> \in Macs
      BY StateOfAFile DEF Macs
    <3>2. Base(p)' \in Macs
      BY <3>1 DEF Base
    <3> QED
      BY <3>2 DEF Macs
  <2>r. Resumes(p)'
    BY <1>8
  <2>4. CASE GoesOn(p)'
    <3>1. \A l \in Lines(p) : Len(l) <= Len(Base(p)') + 1
      BY <2>r, <2>1, <2>2, <2>3, <2>4 DEF Resumes
    <3> QED
      BY <1>2, <2>r, <2>1, <2>4, <3>1 DEF LinesInv, Resumes
  <2>5. CASE ~GoesOn(p)'
    <3>1. Base(p)' = <<>>
      BY <2>5 DEF GoesOn, Base
    <3>2. \A l \in Lines(p) : Extends(l, <<>>)
      <4>1. Len(<<>>) = 0
        OBVIOUS
      <4> QED
        BY <2>2, <4>1 DEF Extends
    <3> QED
      BY <1>2, <2>1, <2>5, <3>1, <3>2 DEF LinesInv
  <2> QED
    BY <2>4, <2>5
<1>9. ASSUME NEW p \in HookFiles \ (broken' \cup damaged) PROVE ChainInv(p)'
  <2>1. ChainInv(p)
    BY <1>9 DEF SinkInv
  <2>2. ~Writing(p)'
    BY <1>2, <1>6 DEF Writing
  <2>3. Resumes(p)'
    BY <1>9
  <2> QED
    BY <1>9, <2>1, <2>2, <2>3 DEF ChainInv, Resumes
<1> QED
  BY <1>4, <1>5, <1>7, <1>8, <1>9 DEF SinkInv

LEMMA SaveKeeps == ASSUME SinkInv, Sink!SaveState PROVE SinkInv'
<1>1. /\ file' = file /\ damaged' = damaged /\ broken' = broken /\ check' = check /\ hook' = hook
      /\ arrived' = arrived /\ saved' = round.st /\ round' = Sink!NoRound
      /\ round.pc = "save" \/ (round.pc = "deliver" /\ round.sent > 0)
  BY DEF Sink!SaveState
<1>2. SinkTypes /\ RoundInv
  BY DEF SinkInv
<1>3. /\ round.st \in HookStates /\ round.st.mac \in Macs /\ Len(round.st.mac) \in Nat /\ round.sent \in Nat
      /\ round.file \in HookFiles
  <2>1. round.st \in HookStates /\ round.sent \in Nat /\ round.file \in HookFiles
    BY <1>1, <1>2 DEF SinkTypes, Rounds
  <2> QED
    BY <2>1, StateOfAFile
<1>4. "" \notin HookFiles
  BY HookAssumption DEF Sink!NoPath
<1>5. round.sent = 0 => round.st = Sink!Chained(saved, round.file)
  <2>1. ~(0 > 0)
    OBVIOUS
  <2> QED
    BY <1>1, <1>2, <2>1 DEF RoundInv
<1>6. /\ round.st.file = round.file
      /\ round.sent = 0 => round.st.mac = IF saved.file = round.file THEN saved.mac ELSE <<>>
  <2>1. CASE round.sent > 0
    <3>1. round.sent # 0 /\ round.st.file = round.file
      BY <1>2, <1>3, <2>1 DEF RoundInv
    <3> QED
      BY <3>1
  <2>2. CASE round.sent = 0
    <3>1. saved \in HookStates
      BY <1>2 DEF SinkTypes, Rounds
    <3> QED
      BY <1>5, <2>2, <3>1 DEF Sink!Chained, HookStates
  <2> QED
    BY <1>3, <2>1, <2>2
<1>7. ASSUME NEW p \in HookFiles \ broken' PROVE Resumes(p)'
  <2> SUFFICES ASSUME GoesOn(p)'
               PROVE  /\ \A l \in Lines(p) : Len(l) > Len(Base(p)') =>
                                             Extends(l, Base(p)') /\ Len(l) <= Len(Base(p)') + 1
                      /\ p \notin damaged =>
                           \/ End(file[p]) = Base(p)'
                           \/ End(file[p]) # <<>> /\ Sink!Front(End(file[p])) = Base(p)'
    <3>1. Lines(p)' = Lines(p)
      BY <1>1 DEF Lines
    <3> QED
      BY <1>1, <3>1 DEF Resumes
  <2>1. p = round.file /\ Base(p)' = round.st.mac
    BY <1>1, <1>3, <1>4, <1>6, <1>7 DEF GoesOn, Base
  <2>2. LinesInv(p) /\ (p \notin damaged => ChainInv(p)) /\ \A l \in Lines(p) : Len(l) \in Nat
    BY <1>1, <1>2, <1>7, LinesAreMacs DEF SinkInv
  <2>3. CASE round.sent > 0
    <3>1. Writing(p)
      BY <2>1, <2>3 DEF Writing
    <3>2. \A l \in Lines(p) : ~(Len(l) > Len(round.st.mac))
      BY <1>3, <2>2, <3>1 DEF LinesInv
    <3> QED
      BY <2>1, <2>2, <3>1, <3>2 DEF ChainInv
  <2>4. CASE round.sent = 0
    <3>1. ~Writing(p) /\ Base(p) = round.st.mac
      BY <1>6, <2>1, <2>4 DEF Writing, Base
    <3>2. CASE GoesOn(p)
      BY <2>1, <2>2, <3>1, <3>2 DEF LinesInv, ChainInv
    <3>3. CASE ~GoesOn(p)
      <4>0. round.pc = "save"
        <5>1. ~(0 > 0)
          OBVIOUS
        <5> QED
          BY <1>1, <2>4, <5>1
      <4>1. Lines(p) = {} /\ Base(p) = <<>>
        BY <4>0, <2>1, <2>2, <2>4, <3>3 DEF LinesInv, GoesOn, Base
      <4>2. End(file[p]) = <<>>
        <5>1. Elements(file[p]) = {}
          BY <4>1 DEF Lines
        <5> QED
          BY <1>2, <1>7, <5>1, LinesAreMacs, EndIsALine
      <4> QED
        BY <2>1, <3>1, <4>1, <4>2
    <3> QED
      BY <3>2, <3>3
  <2> QED
    BY <1>3, <2>3, <2>4
<1>8. saved' \in HookStates /\ Unstarted' /\ broken \subseteq broken'
  BY <1>1, <1>3, <1>4, <1>6 DEF Unstarted
<1> QED
  BY <1>1, <1>7, <1>8, RoundEnds

LEMMA KillKeeps == ASSUME SinkInv, Sink!Kill PROVE SinkInv'
<1>1. /\ file' = file /\ damaged' = damaged /\ check' = check /\ hook' = hook
      /\ arrived' = arrived /\ saved' = saved /\ round' = Sink!NoRound
      /\ broken' = IF round.sent > 1 THEN broken \cup {round.file} ELSE broken
  BY DEF Sink!Kill
<1>2. SinkTypes /\ RoundInv /\ saved \in HookStates /\ round.sent \in Nat
  BY DEF SinkInv, SinkTypes, Rounds
<1>3. ASSUME NEW p \in HookFiles \ broken' PROVE Resumes(p)'
  <2> SUFFICES ASSUME GoesOn(p)'
               PROVE  /\ \A l \in Lines(p) : Len(l) > Len(Base(p)') =>
                                             Extends(l, Base(p)') /\ Len(l) <= Len(Base(p)') + 1
                      /\ p \notin damaged =>
                           \/ End(file[p]) = Base(p)'
                           \/ End(file[p]) # <<>> /\ Sink!Front(End(file[p])) = Base(p)'
    <3>1. Lines(p)' = Lines(p)
      BY <1>1 DEF Lines
    <3> QED
      BY <1>1, <3>1 DEF Resumes
  <2>1. p \notin broken /\ (round.file = p => round.sent <= 1)
    BY <1>1, <1>2, <1>3
  <2>2. Base(p)' = Base(p) /\ GoesOn(p)
    BY <1>1, <1>3 DEF Base, GoesOn
  <2>3. /\ LinesInv(p) /\ (p \notin damaged => ChainInv(p)) /\ Len(Base(p)) \in Nat
        /\ \A l \in Lines(p) : Len(l) \in Nat
    BY <1>2, <1>3, <2>1, LinesAreMacs DEF SinkInv
  <2>4. CASE Writing(p)
    <3>1. round.sent = 1
      BY <1>2, <2>1, <2>4 DEF Writing
    <3>2. Len(round.st.mac) = Len(Base(p)) + 1 /\ Sink!Front(round.st.mac) = Base(p)
      BY <2>3, <2>4, <3>1 DEF LinesInv
    <3>3. round.st.mac # <<>>
      <4>1. Len(<<>>) = 0
        OBVIOUS
      <4> QED
        BY <2>3, <3>2, <4>1
    <3> QED
      BY <2>2, <2>3, <2>4, <3>2, <3>3 DEF LinesInv, ChainInv
  <2>5. CASE ~Writing(p)
    BY <2>2, <2>3, <2>5 DEF LinesInv, ChainInv
  <2> QED
    BY <2>4, <2>5
<1>4. saved' \in HookStates /\ Unstarted' /\ broken \subseteq broken'
  BY <1>1, <1>2 DEF RoundInv, Unstarted
<1> QED
  BY <1>1, <1>3, <1>4, RoundEnds

(* A round that begins the chain of a file again says so, and so it goes   *)
(* on where it is not said: with what is saved, or with an empty file.     *)
LEMMA Delivers ==
  ASSUME SinkInv, Sink!Deliver
  PROVE  LET p == round.file
             st == Sink!Chained(round.st, p)
         IN  /\ p \in HookFiles /\ st \in HookStates /\ st.file = p
             /\ round.sent = 0 => st = Sink!Chained(saved, p) /\ st.mac = Base(p) /\ ~Writing(p)
             /\ round.sent > 0 => st = round.st /\ Writing(p)
             /\ p \notin broken' => p \notin broken /\ (GoesOn(p) \/ Writing(p) \/ (Lines(p) = {} /\ file[p] = <<>>))
             /\ broken \subseteq broken' /\ broken' \subseteq broken \cup {p}
<1> DEFINE p == round.file
           st == Sink!Chained(round.st, p)
<1>1. /\ round.pc = "deliver"
      /\ broken' = IF /\ round.st.file \notin {"", p}
                      /\ file[p] # <<>> \/ p \in damaged
                   THEN broken \cup {p} ELSE broken
  BY DEF Sink!Deliver, Sink!NoPath
<1>2. SinkTypes /\ RoundInv /\ CheckInv
  BY DEF SinkInv
<1>3. /\ p \in HookFiles /\ round.st \in HookStates /\ saved \in HookStates /\ round.sent \in Nat
      /\ file[p] \in Seq(Macs)
  BY <1>1, <1>2 DEF SinkTypes, Rounds
<1>4. st \in HookStates /\ st.file = p /\ st.mac = IF round.st.file = p THEN round.st.mac ELSE <<>>
  <2>1. <<>> \in Macs
    BY DEF Macs
  <2> QED
    BY <1>3, <2>1 DEF Sink!Chained, HookStates
<1>5. ASSUME round.sent = 0 PROVE st = Sink!Chained(saved, p) /\ st.mac = Base(p) /\ ~Writing(p) /\ round.st = saved
  <2>1. round.st = saved
    BY <1>1, <1>2, <1>5 DEF RoundInv
  <2>2. ~Writing(p)
    BY <1>5 DEF Writing
  <2> QED
    BY <1>4, <2>1, <2>2 DEF Base
<1>6. ASSUME round.sent > 0 PROVE st = round.st /\ Writing(p)
  BY <1>2, <1>6 DEF RoundInv, Sink!Chained, Writing
<1>7. ASSUME p \notin broken' PROVE p \notin broken /\ (GoesOn(p) \/ Writing(p) \/ (Lines(p) = {} /\ file[p] = <<>>))
  <2>1. p \notin broken /\ (round.st.file \in {"", p} \/ (file[p] = <<>> /\ p \notin damaged))
    BY <1>1, <1>7
  <2>2. CASE round.sent > 0
    BY <1>6, <2>1, <2>2
  <2>3. CASE round.sent = 0 /\ round.st.file \in {"", p}
    BY <1>5, <2>1, <2>3 DEF GoesOn
  <2>4. CASE file[p] = <<>> /\ p \notin damaged
    <3>1. ~(check.pc # "idle" /\ check.path = p)
      BY <1>2, <2>4 DEF CheckInv
    <3>2. Elements(file[p]) = {}
      BY <1>3, <2>4, EndIsALine
    <3> QED
      BY <2>1, <2>4, <3>1, <3>2 DEF Lines
  <2> QED
    BY <1>3, <2>1, <2>2, <2>3, <2>4, OneMore
<1> QED
  BY <1>1, <1>3, <1>4, <1>5, <1>6, <1>7

(* The line is on the file.                                                *)
LEMMA WriteKeeps ==
  ASSUME SinkInv, Sink!Deliver, NEW b \in Batches, NEW st,
         st = Sink!Chained(round.st, round.file),
         file' = [file EXCEPT ![round.file] = Append(@, Append(st.mac, b))],
         round' \in Rounds,
         round'.pc = "deliver", round'.file = round.file, round'.sent = round.sent + 1,
         round'.st.file = round.file, round'.st.mac = Append(st.mac, b)
  PROVE  SinkInv'
<1> DEFINE p == round.file
           line == Append(st.mac, b)
<1>1. /\ p \in HookFiles /\ st \in HookStates
      /\ round.sent = 0 => st.mac = Base(p) /\ ~Writing(p)
      /\ round.sent > 0 => st = round.st /\ Writing(p)
      /\ p \notin broken' => p \notin broken /\ (GoesOn(p) \/ Writing(p) \/ (Lines(p) = {} /\ file[p] = <<>>))
      /\ broken \subseteq broken' /\ broken' \subseteq broken \cup {p}
  BY Delivers
<1>2. SinkTypes /\ RoundInv /\ CheckInv /\ round.sent \in Nat /\ file \in [HookFiles -> Seq(Macs)]
      /\ file[p] \in Seq(Macs)
  BY <1>1 DEF SinkInv, SinkTypes, Rounds
<1>3. damaged' = damaged /\ check' = check /\ hook' = hook /\ arrived' = arrived /\ saved' = saved
  BY DEF Sink!Deliver
<1>4. /\ st.mac \in Macs /\ Len(st.mac) \in Nat /\ line \in Macs /\ Len(line) = Len(st.mac) + 1 /\ line # <<>>
      /\ Sink!Front(line) = st.mac /\ Extends(line, st.mac)
      /\ \A n \in Macs : Extends(st.mac, n) => Extends(line, n)
  BY <1>1, StateOfAFile, AppendsToMac
<1> HIDE DEF line
<1>5. file'[p] = Append(file[p], line) /\ \A q \in HookFiles : q # p => file'[q] = file[q]
  BY <1>1, <1>2 DEF line
<1>6. /\ file'[p] \in Seq(Macs) /\ file'[p] # <<>> /\ Elements(file'[p]) = Elements(file[p]) \cup {line}
      /\ End(file'[p]) = line
      /\ Sink!Chain(file[p]) /\ Sink!Follows(line, End(file[p])) => Sink!Chain(file'[p])
  <2>1. file[p] \in Seq(Macs) /\ line \in Macs /\ file'[p] = Append(file[p], line)
    BY <1>2, <1>4, <1>5
  <2> DEFINE s == file[p]
  <2>2. s \in Seq(Macs)
    BY <2>1
  <2> HIDE DEF s
  <2>3. /\ Append(s, line) \in Seq(Macs) /\ Append(s, line) # <<>>
        /\ Elements(Append(s, line)) = Elements(s) \cup {line}
        /\ End(Append(s, line)) = line
        /\ Sink!Chain(s) /\ Sink!Follows(line, End(s)) => Sink!Chain(Append(s, line))
    BY <2>1, <2>2, AppendsToLines, Zenon
  <2> QED
    BY <2>1, <2>3, Zenon DEF s
<1>7. SinkTypes'
  <2>1. file' \in [HookFiles -> Seq(Macs)]
    <3>1. Append(file[p], line) \in Seq(Macs)
      BY <1>5, <1>6
    <3>2. file' = [file EXCEPT ![p] = Append(file[p], line)]
      BY DEF line
    <3> QED
      BY <1>2, <3>1, <3>2
  <2> QED
    BY <1>1, <1>2, <1>3, <2>1 DEF SinkTypes
<1>8. CheckInv'
  <2>1. \A q \in HookFiles : q \notin damaged' /\ file[q] # <<>> => file'[q] # <<>>
    BY <1>5, <1>6
  <2> QED
    BY <1>1, <1>2, <1>3, <2>1, CheckStays
<1>9. /\ round'.sent > 0 /\ round'.sent # 0 /\ round'.sent \in Nat /\ (round.sent = 0 \/ round.sent > 0)
      /\ round.sent = 0 => round'.sent = 1
      /\ round.sent > 0 => round'.sent # 1
  BY <1>2, OneMore, Zenon
<1>10. RoundInv'
  <2>1. round'.pc = "deliver" /\ round'.st.file = round'.file
    OBVIOUS
  <2>2. Unstarted'
    BY <1>2, <1>3 DEF RoundInv, Unstarted
  <2>3. round'.sent # 0 /\ round'.pc # "idle"
    <3>1. round'.sent # 0
      BY <1>9, Zenon
    <3>2. round'.pc # "idle"
      BY <2>1
    <3> QED
      BY <3>1, <3>2
  <2> QED
    BY <2>1, <2>2, <2>3 DEF RoundInv
<1>11. Lines(p)' = Lines(p) \cup {line} /\ \A q \in HookFiles : q # p => Lines(q)' = Lines(q)
  BY <1>3, <1>5, <1>6 DEF Lines
<1>12. Writing(p)' /\ \A q : q # p => ~Writing(q)' /\ ~Writing(q)
  <2>1. round'.file = p
    OBVIOUS
  <2>2. Writing(p)'
    <3>1. round'.sent > 0
      BY <1>9, Zenon
    <3> QED
      BY <2>1, <3>1, Zenon DEF Writing
  <2>3. ASSUME NEW q, q # p PROVE ~Writing(q)' /\ ~Writing(q)
    BY <2>1, <2>3 DEF Writing
  <2> QED
    BY <2>2, <2>3
<1>13. \A q : Base(q)' = Base(q) /\ GoesOn(q)' = GoesOn(q)
  BY <1>3 DEF Base, GoesOn
<1>14. round'.st.mac = line
  BY DEF line
<1>15. Base(p) \in Macs /\ Len(Base(p)) \in Nat /\ \A l \in Lines(p) : Len(l) \in Nat
  BY <1>1, <1>2, LinesAreMacs
<1>16. ASSUME p \notin broken' PROVE LinesInv(p)'
  <2>1. LinesInv(p)
    BY <1>1, <1>16 DEF SinkInv
  <2>2. CASE round.sent = 0
    <3>1. st.mac = Base(p) /\ round'.sent = 1
      BY <1>1, <1>9, <2>2
    <3>2. \A l \in Lines(p) : Len(l) <= Len(line)
      BY <1>1, <1>4, <1>15, <1>16, <2>1, <2>2, <3>1 DEF LinesInv
    <3>3. \A l \in Lines(p) \cup {line} : Len(l) > Len(Base(p)) => Extends(l, Base(p))
      BY <1>4, <2>1, <3>1 DEF LinesInv
    <3>4. \A l \in Lines(p) \cup {line} : Len(l) <= Len(line)
      BY <1>4, <3>2
    <3>5. Len(line) = Len(Base(p)) + round'.sent /\ Extends(line, Base(p)) /\ Sink!Front(line) = Base(p)
      BY <1>4, <3>1
    <3> QED
      BY <1>9, <1>11, <1>12, <1>13, <1>14, <3>3, <3>4, <3>5 DEF LinesInv
  <2>3. CASE round.sent > 0
    <3>1. st = round.st /\ Writing(p) /\ round'.sent # 1
      BY <1>1, <1>9, <2>3
    <3>2. Len(st.mac) = Len(Base(p)) + round.sent /\ Extends(st.mac, Base(p))
          /\ \A l \in Lines(p) : Len(l) <= Len(st.mac)
      BY <2>1, <3>1 DEF LinesInv
    <3>3. \A l \in Lines(p) \cup {line} : Len(l) > Len(Base(p)) => Extends(l, Base(p))
      BY <1>4, <1>15, <2>1, <3>2 DEF LinesInv
    <3>4. \A l \in Lines(p) \cup {line} : Len(l) <= Len(line)
      BY <1>4, <1>15, <3>2
    <3>5. Len(line) = Len(Base(p)) + round'.sent /\ Extends(line, Base(p))
      BY <1>2, <1>4, <1>15, <3>2
    <3> QED
      BY <1>9, <1>11, <1>12, <1>13, <1>14, <3>1, <3>3, <3>4, <3>5 DEF LinesInv
  <2> QED
    BY <1>9, <2>2, <2>3
<1>17. ASSUME p \notin broken' \cup damaged' PROVE ChainInv(p)'
  <2>1. ChainInv(p)
    BY <1>1, <1>3, <1>17 DEF SinkInv
  <2>2. Sink!Follows(line, End(file[p]))
    <3>1. CASE round.sent > 0
      BY <1>1, <1>4, <2>1, <3>1 DEF ChainInv, Sink!Follows, Sink!Torn
    <3>2. CASE round.sent = 0 /\ GoesOn(p)
      BY <1>1, <1>4, <2>1, <3>2 DEF ChainInv, Sink!Follows, Sink!Torn
    <3>3. CASE round.sent = 0 /\ ~GoesOn(p)
      <4>1. file[p] = <<>> /\ Base(p) = <<>>
        BY <1>1, <1>17, <3>3 DEF GoesOn, Base
      <4>2. End(file[p]) = <<>>
        BY <1>2, <4>1, EndIsALine
      <4> QED
        BY <1>1, <1>4, <3>3, <4>1, <4>2 DEF Sink!Follows, Sink!Torn
    <3> QED
      BY <1>9, <3>1, <3>2, <3>3
  <2>3. Sink!Chain(file'[p])
    BY <1>6, <2>1, <2>2 DEF ChainInv
  <2> QED
    BY <1>6, <1>12, <1>14, <2>3 DEF ChainInv
<1>18. ASSUME NEW q \in HookFiles, q # p
       PROVE  (q \notin broken' => LinesInv(q)') /\ (q \notin broken' \cup damaged' => ChainInv(q)')
  <2>1. q \notin broken' => LinesInv(q)
    BY <1>1, <1>18 DEF SinkInv
  <2>2. q \notin broken' \cup damaged' => ChainInv(q)
    BY <1>1, <1>3, <1>18 DEF SinkInv
  <2>3. LinesInv(q) => LinesInv(q)'
    BY <1>11, <1>12, <1>13, <1>18 DEF LinesInv
  <2>4. ChainInv(q) => ChainInv(q)'
    BY <1>5, <1>12, <1>13, <1>18 DEF ChainInv
  <2> QED
    BY <2>1, <2>2, <2>3, <2>4
<1> QED
  BY <1>7, <1>8, <1>10, <1>16, <1>17, <1>18 DEF SinkInv

(* The write is refused, and the round over but for its state.             *)
LEMMA RefusalKeeps ==
  ASSUME SinkInv, Sink!Deliver, file' = file,
         round' = [round EXCEPT !.st = Sink!Chained(round.st, round.file), !.pc = "save"]
  PROVE  SinkInv'
<1> DEFINE p == round.file
           st == Sink!Chained(round.st, p)
<1>1. /\ p \in HookFiles /\ st \in HookStates /\ st.file = p
      /\ round.sent = 0 => st = Sink!Chained(saved, p) /\ st.mac = Base(p) /\ ~Writing(p)
      /\ round.sent > 0 => st = round.st /\ Writing(p)
      /\ p \notin broken' => p \notin broken /\ (GoesOn(p) \/ Writing(p) \/ (Lines(p) = {} /\ file[p] = <<>>))
      /\ broken \subseteq broken' /\ broken' \subseteq broken \cup {p}
  BY Delivers
<1> HIDE DEF st
<1>2. SinkTypes /\ RoundInv /\ CheckInv /\ round.sent \in Nat
  BY DEF SinkInv, SinkTypes, Rounds
<1>3. damaged' = damaged /\ check' = check /\ hook' = hook /\ arrived' = arrived /\ saved' = saved
  BY DEF Sink!Deliver
<1>4. /\ round'.pc = "save" /\ round'.st = st /\ round'.file = p /\ round'.sent = round.sent
      /\ round' \in Rounds
  <2>1. round \in Rounds
    BY <1>2 DEF SinkTypes
  <2>2. round' = [round EXCEPT !.st = st, !.pc = "save"]
    BY DEF st
  <2> QED
    BY <1>1, <2>1, <2>2 DEF Rounds
<1>5. SinkTypes'
  BY <1>1, <1>2, <1>3, <1>4 DEF SinkTypes
<1>6. CheckInv'
  BY <1>1, <1>2, <1>3, CheckStays
<1>7. RoundInv'
  BY <1>1, <1>2, <1>3, <1>4 DEF RoundInv, Unstarted
<1>8. ASSUME NEW q \in HookFiles
      PROVE  Lines(q)' = Lines(q) /\ Base(q)' = Base(q) /\ GoesOn(q)' = GoesOn(q) /\ Writing(q)' = Writing(q)
  BY <1>3, <1>4 DEF Lines, Base, GoesOn, Writing
<1>9. ASSUME NEW q \in HookFiles, q \notin broken' PROVE LinesInv(q)'
  <2>1. LinesInv(q)
    BY <1>1, <1>9 DEF SinkInv
  <2>2. Writing(q) => round'.st.mac = round.st.mac
    <3>1. Writing(q) => round.sent > 0
      BY DEF Writing
    <3> QED
      BY <1>1, <1>4, <3>1
  <2>3. round'.sent = 0 /\ round'.file = q /\ ~GoesOn(q) => Lines(q) = {}
    BY <1>1, <1>4, <1>9
  <2> QED
    BY <1>4, <1>8, <2>1, <2>2, <2>3 DEF LinesInv
<1>10. ASSUME NEW q \in HookFiles, q \notin broken' \cup damaged' PROVE ChainInv(q)'
  <2>1. ChainInv(q)
    BY <1>1, <1>3, <1>10 DEF SinkInv
  <2>2. Writing(q) => round'.st.mac = round.st.mac
    <3>1. Writing(q) => round.sent > 0
      BY DEF Writing
    <3> QED
      BY <1>1, <1>4, <3>1
  <2> QED
    BY <1>8, <2>1, <2>2 DEF ChainInv
<1> QED
  BY <1>5, <1>6, <1>7, <1>9, <1>10 DEF SinkInv

LEMMA DeliverKeeps == ASSUME SinkInv, Sink!Deliver PROVE SinkInv'
<1> DEFINE st == Sink!Chained(round.st, round.file)
           b == Sink!BatchOf(st)
<1>1. st \in HookStates /\ st.file = round.file /\ round.file \in HookFiles
  BY Delivers
<1>2. round \in Rounds
      /\ arrived \in Nat
  BY DEF SinkInv, SinkTypes, Rounds
<1>3. b \in Batches /\ b.to \in Nat
  <2>1. st.last \in Nat /\ BATCH_MAX \in Nat
    BY <1>1, StateOfAFile, HookAssumption
  <2>2. b = [from |-> st.last + 1, to |-> IF st.last + BATCH_MAX < arrived THEN st.last + BATCH_MAX ELSE arrived]
    BY DEF Sink!BatchOf
  <2> QED
    BY <1>2, <2>1, <2>2 DEF Batches
<1>4. \/ /\ file' = [file EXCEPT ![round.file] = Append(@, Append(st.mac, b))]
         /\ round' = [round EXCEPT !.st = [st EXCEPT !.last = b.to, !.mac = Append(st.mac, b)], !.sent = @ + 1]
         /\ round.pc = "deliver"
      \/ file' = file /\ round' = [round EXCEPT !.st = st, !.pc = "save"]
  BY DEF Sink!Deliver
<1> HIDE DEF st, b
<1>5. CASE file' = file /\ round' = [round EXCEPT !.st = st, !.pc = "save"]
  BY <1>5, RefusalKeeps DEF st
<1>6. ASSUME file' = [file EXCEPT ![round.file] = Append(@, Append(st.mac, b))],
             round' = [round EXCEPT !.st = [st EXCEPT !.last = b.to, !.mac = Append(st.mac, b)], !.sent = @ + 1],
             round.pc = "deliver"
      PROVE  SinkInv'
  <2>1. Append(st.mac, b) \in Macs
    BY <1>1, <1>3, StateOfAFile, AppendsToMac
  <2> DEFINE n == [st EXCEPT !.last = b.to, !.mac = Append(st.mac, b)]
  <2>2. n \in HookStates /\ n.file = round.file /\ n.mac = Append(st.mac, b)
    <3> DEFINE line == Append(st.mac, b)
    <3> HIDE DEF line
    <3>1. line \in Macs /\ n = [st EXCEPT !.last = b.to, !.mac = line]
      BY <2>1 DEF line
    <3>2. n \in HookStates /\ n.file = round.file /\ n.mac = line
      BY <1>1, <1>3, <3>1 DEF HookStates
    <3> QED
      BY <3>2 DEF line
  <2> HIDE DEF n
  <2>3. round' = [round EXCEPT !.st = n, !.sent = @ + 1]
    BY <1>6 DEF n
  <2>4. /\ round'.pc = "deliver" /\ round'.file = round.file /\ round'.sent = round.sent + 1 /\ round'.st = n
        /\ round' \in Rounds
    <3>1. round' = [round EXCEPT !.st = n, !.sent = round.sent + 1] /\ round.sent + 1 \in Nat
      <4>1. round.sent \in Nat
        BY <1>2 DEF Rounds
      <4> QED
        BY <2>3, <4>1, OneMore
    <3> QED
      BY <1>2, <1>6, <2>2, <3>1 DEF Rounds
  <2>5. st = Sink!Chained(round.st, round.file)
    BY DEF st
  <2> QED
    BY <1>3, <1>6, <2>2, <2>4, <2>5, WriteKeeps
<1> QED
  BY <1>4, <1>5, <1>6

LEMMA SinkStep == ASSUME SinkInv, [AnyNext]_allVars PROVE SinkInv'
<1>1. CASE UNCHANGED sinkVars
  <2>1. /\ hook' = hook /\ file' = file /\ saved' = saved /\ round' = round /\ arrived' = arrived
        /\ check' = check /\ damaged' = damaged /\ broken' = broken
    BY <1>1 DEF sinkVars
  <2>2. SinkTypes' /\ CheckInv'
    BY <2>1 DEF SinkInv, SinkTypes, CheckInv
  <2>3. \A p \in HookFiles : Lines(p)' = Lines(p)
    BY <2>1 DEF Lines
  <2> QED
    BY <2>1, <2>2, <2>3, NothingWritten
<1>2. CASE Sink!Next
  <2>1. CASE Sink!Round
    BY <2>1, BeginKeeps, DeliverKeeps, SaveKeeps, KillKeeps DEF Sink!Round
  <2>2. CASE Sink!Arrives \/ Sink!HookRemove \/ Sink!CheckState \/ Sink!CheckEnds
    BY <2>2, OthersKeep, CheckStateKeeps, CheckEndsKeeps
  <2>3. ASSUME NEW p \in HookFiles, Sink!HookAdd(p) \/ Sink!CheckRead(p) \/ Sink!Damage(p) PROVE SinkInv'
    BY <2>3, OthersKeep, CheckReadKeeps, DamageKeeps
  <2> QED
    BY <1>2, <2>1, <2>2, <2>3 DEF Sink!Next
<1> QED
  BY <1>1, <1>2 DEF AnyNext, NextPin, NextAgent, NextSink, allVars

LEMMA CheckIsRightInside == SinkInv => CheckIsRight
<1> SUFFICES ASSUME SinkInv, check.pc = "said", check.path \notin broken
             PROVE  IF check.ok THEN Seen(check.st.mac, check.data)
                    ELSE check.path \in damaged \/ check.st.file # check.path \/ check.st # check.then
  BY DEF CheckIsRight, Sink!CheckIsRight, Seen
<1>1. CheckInv
  BY DEF SinkInv
<1> QED
  BY <1>1 DEF CheckInv

(* `fy monitor check' is right of every file whose chain the sink did not  *)
(* itself begin again: what it passes holds all that the hook's state says *)
(* was sent, and it fails no file that only the sink wrote but for a state *)
(* that changed under it.  For any files, batches and rounds, whatever is  *)
(* killed or refused, and whatever others do to the files.                 *)
THEOREM ChecksAreRight == PinsSpec => []CheckIsRight
<1>1. AnyInit => SinkInv
  <2>1. AnyInit => Sink!Init
    BY DEF AnyInit, SinkAtRest
  <2> QED
    BY <2>1, SinkInitially
<1>2. SinkInv /\ [AnyNext]_allVars => SinkInv'
  BY SinkStep
<1> QED
  BY <1>1, <1>2, CheckIsRightInside, PTL DEF PinsSpec
====
