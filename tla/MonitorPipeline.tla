-------------------------- MODULE MonitorPipeline --------------------------
(***************************************************************************)
(* The guest monitor's events on their way to a hook.  The relay in the VM *)
(* numbers them into a bounded spool; the pull appends what it fetches to  *)
(* the store, in segments that are sealed, compressed and, over a budget,  *)
(* removed; a catalogue beside the store indexes it; a hook reads the      *)
(* store from a position of its own and is sent what has settled, once a   *)
(* snapshot after it is stored, with a gap for whatever it cannot have.    *)
(*                                                                         *)
(* Pull and hooks are threads of one process, which may be killed: what is *)
(* not in a file is gone.  A catalogue that is locked fails; so does a     *)
(* full disk, and whatever the hook delivers to.                           *)
(*                                                                         *)
(* Records are known by their place in Stream, so (boot, seq) is a number; *)
(* offsets and sizes are counted in records.                               *)
(***************************************************************************)
EXTENDS Integers, Sequences, FiniteSets

CONSTANTS
  Stream,        \* [k, boot, who, crosses]: what the relay is going to write
  Older,         \* how many records an older foldyard may have stored; its live file has no id
  SpoolMax, FetchMax, SegmentMax, StoreMax, ReadMax, BatchMax, MaxAttempts,
  MaxFaults      \* bound: kills and failures

VARIABLES
  spool,         \* the records still in the guest's spool: lo..hi
  sealed, live,  \* the segments' files
  cat,           \* the catalogue
  cursor,        \* the pull's saved cursor: the last record stored
  pull,          \* the pull in progress
  saved, hook,   \* the hook's state, in its file and in the round's memory
  round,         \* the round in progress
  heard,         \* history: what the hook was sent, told of or excused from
  unseen,        \* history: let go by the spool unpulled, or by the store unindexed
  dropped,       \* history: lost while stored or read, or removed behind a segment kept
  faults

vars == <<spool, sealed, live, cat, cursor, pull, saved, hook, round, heard, unseen, dropped, faults>>

Records == DOMAIN Stream
Event(n) == Stream[n].k = "ev"
Boot(n) == Stream[n].boot
SetMax(S, least) == IF S = {} THEN least ELSE CHOOSE x \in S : \A y \in S : y <= x
SetMin(S, most) == IF S = {} THEN most ELSE CHOOSE x \in S : \A y \in S : x <= y

(* An entry of the store: a record, or the gap record the pull writes for  *)
(* numbers that never arrived.                                             *)
Rec(n) == [gap |-> FALSE, from |-> n, to |-> n]
Missing(a, b) == [gap |-> TRUE, from |-> a, to |-> b]
RecordsIn(s) == {s[i].from : i \in {j \in DOMAIN s : ~s[j].gap}}
Numbers(s) == UNION {s[i].from..s[i].to : i \in DOMAIN s}

Legacy == -1     \* the id of a live file without a first line that names it
NoLive == [id |-> 0, recs |-> <<>>, torn |-> FALSE]
NoPos == <<0, 0>>
IdlePull == [pc |-> "idle", last |-> 0, recs |-> <<>>, cat |-> FALSE]
NewHook == [last |-> 0, pos |-> NoPos, gaps |-> {}, over |-> {}, attempts |-> 0]
IdleRound == [pc |-> "idle", cat |-> FALSE, list |-> <<>>, window |-> <<>>]
EmptyCat == [indexed |-> [i \in {} |-> 0], sealed |-> {}, rows |-> {}, snaps |-> {},
             verdict |-> [n \in {} |-> ""]]

Init ==
  /\ cursor \in Older
  /\ spool = [lo |-> 1, hi |-> cursor]
  /\ sealed = <<>>
  /\ live = IF cursor = 0 THEN NoLive
            ELSE [id |-> Legacy, recs |-> [n \in 1..cursor |-> Rec(n)], torn |-> FALSE]
  /\ cat = EmptyCat
  /\ pull = IdlePull
  /\ saved \in {NewHook} \cup (IF cursor = 0 THEN {}
                               ELSE {[NewHook EXCEPT !.last = 1, !.pos = <<Legacy, 1>>]})
  /\ hook = NewHook /\ round = IdleRound
  /\ heard = 1..saved.last /\ unseen = {} /\ dropped = {} /\ faults = 0

Fault == faults < MaxFaults /\ faults' = faults + 1
Fine == faults' = faults

-----------------------------------------------------------------------------
(* The store's files.                                                      *)

(* segments(): what is sealed, compressed if it is that too, then what is  *)
(* live.                                                                   *)
Listed(seg) == [id |-> seg.id, live |-> FALSE, gz |-> seg.gz]
Segments ==
  [i \in DOMAIN sealed |-> Listed(sealed[i])]
    \o IF live.id = 0 THEN <<>> ELSE <<[id |-> live.id, live |-> TRUE, gz |-> FALSE]>>

(* A listed segment wherever it is now (_open), and the size of the file   *)
(* it was listed as, which may be another one's by now (raw_size).         *)
Files(id) == {i \in DOMAIN sealed : sealed[i].id = id}
Contents(seg) ==
  IF seg.live /\ live.id = seg.id THEN live.recs
  ELSE IF Files(seg.id) # {} THEN sealed[CHOOSE i \in Files(seg.id) : TRUE].recs
  ELSE <<>>
RawSize(seg) ==
  IF seg.live THEN Len(live.recs)
  ELSE LET here == {i \in Files(seg.id) : IF seg.gz THEN sealed[i].gz ELSE sealed[i].raw} IN
       IF here = {} THEN 0 ELSE Len(sealed[CHOOSE i \in here : TRUE].recs)

Locate(pos, list) == {i \in DOMAIN list : list[i].id = pos[1]}

(* scan: the entries from a position on, each with the one after it.       *)
From(seg, off) ==
  LET recs == Contents(seg) IN
  [i \in 1..(IF Len(recs) > off THEN Len(recs) - off ELSE 0) |->
     [entry |-> recs[off + i], at |-> <<seg.id, off + i>>]]
Scan(pos, list) ==
  LET i == CHOOSE j \in Locate(pos, list) : TRUE
      upto[j \in i - 1..Len(list)] ==
        IF j < i THEN <<>>
        ELSE upto[j - 1] \o From(list[j], IF j = i THEN pos[2] ELSE 0) IN
  upto[Len(list)]

(* read: enough of them, an event among them.                              *)
IsEvent(item) == ~item.entry.gap /\ Event(item.entry.from)
Found(pos, list) ==
  \E i \in Locate(pos, list) : pos[2] <= RawSize(list[i])
Read(pos, list) ==
  LET all == Scan(pos, list)
      enough == {i \in DOMAIN all : i >= ReadMax /\ \E j \in 1..i : IsEvent(all[j])} IN
  SubSeq(all, 1, SetMin(enough, Len(all)))

(* What a read steps over without a word: a listed segment that has been   *)
(* removed since holds nothing, and the next one follows.                  *)
Vanished(seg) == ~(seg.live /\ live.id = seg.id) /\ Files(seg.id) = {}
SteppedOver(last, pos, list) ==
  IF Read(pos, list) # <<>> /\ \E i \in Locate(pos, list), j \in DOMAIN list : j >= i /\ Vanished(list[j])
  THEN last + 1..Read(pos, list)[1].entry.from - 1
  ELSE {}

(* tail: ReadMax before the end.                                           *)
TailPos(list) ==
  LET size[j \in 1..Len(list) + 1] == IF j > Len(list) THEN 0 ELSE RawSize(list[j]) + size[j + 1]
      i == SetMax({j \in DOMAIN list : size[j] >= ReadMax}, 1) IN
  <<list[i].id, IF size[i] >= ReadMax THEN size[i] - ReadMax ELSE 0>>

-----------------------------------------------------------------------------
(* The catalogue.                                                          *)
IndexedOf(c, id) == IF id \in DOMAIN c.indexed THEN c.indexed[id] ELSE 0

Candidates(S) == {n \in S : Event(n) /\ Stream[n].crosses}

Settles(snap, n) == Boot(snap) = Boot(n) /\ snap > n

(* judge: what a snapshot after it has settled.                            *)
Judged(c) ==
  [c EXCEPT !.verdict = [n \in DOMAIN @ |->
     IF \E s \in c.snaps : Settles(s, n) THEN "crossed" ELSE @[n]]]

(* add: the records of a segment, which is then indexed as far as upto.    *)
Add(c, id, ns, upto) ==
  [c EXCEPT
     !.indexed = [i \in DOMAIN @ \cup {id} |-> IF i = id THEN upto ELSE @[i]],
     !.rows = @ \cup {<<id, n>> : n \in ns},
     !.snaps = @ \cup {n \in ns : ~Event(n)},
     !.verdict = [n \in DOMAIN @ \cup Candidates(ns) |->
                    IF n \in DOMAIN @ THEN @[n] ELSE ""]]

(* rename: a segment of an older foldyard gets an id.                      *)
Rename(c, to) ==
  IF Legacy \notin DOMAIN c.indexed THEN c
  ELSE [c EXCEPT
          !.indexed = [i \in (DOMAIN @ \cup {to}) \ {Legacy} |->
                         IF i = to THEN @[Legacy] ELSE @[i]],
          !.rows = {<<IF r[1] = Legacy THEN to ELSE r[1], r[2]>> : r \in @}]

(* drop: of removed segments the newest snapshot of a boot stays, and of a *)
(* boot still stored (or the newest) the first crossing and those not yet  *)
(* judged.                                                                 *)
Drop(c, gone) ==
  LET rows == {r \in c.rows : r[1] \notin gone}
      kept == {r[2] : r \in rows}
      newest == SetMax({r[2] : r \in c.rows}, 0)
      stays(b) == (\E n \in kept : Boot(n) = b) \/ (newest # 0 /\ Boot(newest) = b)
      first(n) == \A m \in DOMAIN c.verdict :
                    Boot(m) = Boot(n) /\ c.verdict[m] = "crossed" => n <= m
      orphans == c.snaps \ kept IN
  [c EXCEPT
     !.indexed = [i \in DOMAIN @ \ gone |-> @[i]],
     !.sealed = @ \ gone,
     !.rows = rows,
     !.snaps = (@ \cap kept) \cup {s \in orphans : \A t \in orphans : Boot(t) = Boot(s) => t <= s},
     !.verdict = [n \in {m \in DOMAIN @ : m \in kept \/ (stays(Boot(m)) /\ (@[m] = "" \/ first(m)))}
                    |-> @[n]]]

(* catch_up: what of the listed segments is not indexed yet, unless its    *)
(* file was sealed since; a full listing also shows what has left.         *)
CaughtUp(c, list, whole) ==
  LET ids == {list[i].id : i \in DOMAIN list}
      oldest == SetMin({list[i].id : i \in {j \in DOMAIN list : ~list[j].live}}, 0)
      gone == {i \in DOMAIN c.indexed : i \notin ids /\ (i = Legacy \/ i < oldest)}
      start == IF whole /\ list # <<>> /\ gone # {} THEN Drop(c, gone) ELSE c
      one(d, seg) ==
        IF seg.id \in c.sealed \/ (seg.live /\ live.id # seg.id) THEN d
        ELSE LET from == IndexedOf(c, seg.id)
                 recs == Contents(seg)
                 read == IF from < RawSize(seg)
                         THEN Add(d, seg.id, RecordsIn(SubSeq(recs, from + 1, Len(recs))),
                                  SetMax({from, Len(recs)}, 0))
                         ELSE d
             IN  IF seg.live THEN read ELSE [read EXCEPT !.sealed = @ \cup {seg.id}]
      upto[j \in 0..Len(list)] == IF j = 0 THEN start ELSE one(upto[j - 1], list[j])
  IN  Judged(upto[Len(list)])

Holding(n) == {r[1] : r \in {s \in cat.rows :
                 /\ \E t \in cat.rows : t[1] = s[1] /\ Boot(t[2]) = Boot(n) /\ t[2] <= n
                 /\ \E t \in cat.rows : t[1] = s[1] /\ Boot(t[2]) = Boot(n) /\ t[2] >= n}}
Unindexed(list) ==
  {list[i].id : i \in {j \in DOMAIN list :
     \/ list[j].id \notin DOMAIN cat.indexed
     \/ list[j].id \notin cat.sealed /\ cat.indexed[list[j].id] < RawSize(list[j])}}

-----------------------------------------------------------------------------
(* The relay (Spool.write, _prune).  Only a fetch reads the spool, so what *)
(* was written since the last one is written when the next one comes.      *)
Spooled(hi) == [lo |-> SetMax({spool.lo, hi - SpoolMax + 1}, 0), hi |-> hi]

(* pull_once: fetch what the spool has past the cursor, and ingest it.     *)
Fetch ==
  /\ pull.pc = "idle"
  /\ \E hi \in SetMax({spool.hi, cursor + 1}, 0)..Len(Stream) :
       LET there == Spooled(hi)
           next == SetMax({cursor + 1, there.lo}, 0)
           last == SetMin({hi, next + FetchMax - 1}, 0)
           lost == IF next > cursor + 1 THEN <<Missing(cursor + 1, next - 1)>> ELSE <<>>
           recs == lost \o [i \in 1..(last - next + 1) |-> Rec(next + i - 1)] IN
       /\ spool' = there
       /\ unseen' = unseen \cup Numbers(lost)
       /\ \/ pull' = [pc |-> "seal", last |-> last, recs |-> recs, cat |-> TRUE] /\ Fine
          \/ pull' = [pc |-> "seal", last |-> last, recs |-> recs, cat |-> FALSE] /\ Fault
  /\ UNCHANGED <<sealed, live, cat, cursor, saved, hook, round, heard, dropped>>

(* append: seal the live segment when it is full or has no id, ...         *)
Full == live.id = Legacy \/ (live.id # 0 /\ Len(live.recs) > SegmentMax)
NewId == SetMax({sealed[i].id : i \in DOMAIN sealed} \cup {live.id, 0}, 0) + 1
Seal ==
  /\ pull.pc = "seal"
  /\ LET id == IF live.id = Legacy THEN NewId ELSE live.id
         indexed == CaughtUp(cat, <<[id |-> live.id, live |-> TRUE, gz |-> FALSE]>>, FALSE) IN
     IF Full
     THEN /\ sealed' = Append(sealed, [id |-> id, recs |-> live.recs, raw |-> TRUE, gz |-> FALSE])
          /\ live' = NoLive
          /\ cat' = IF ~pull.cat THEN cat
                    ELSE IF live.id = Legacy THEN Rename(indexed, id) ELSE indexed
     ELSE UNCHANGED <<sealed, live, cat>>
  /\ pull' = [pull EXCEPT !.pc = "index"]
  /\ UNCHANGED <<spool, cursor, saved, hook, round, heard, unseen, dropped, faults>>

(* Mutant: the cursor is saved before what it has passed is stored.        *)
Index_Saves ==
  /\ pull.pc = "index"
  /\ pull' = [pull EXCEPT !.pc = "write"]
  /\ cursor' = pull.last
  /\ UNCHANGED <<spool, sealed, live, cat, saved, hook, round, heard, unseen, dropped, faults>>

(* ... index, ...                                                          *)
Target == IF live.id = 0 THEN NewId ELSE live.id
Index ==
  /\ pull.pc = "index"
  /\ IF pull.cat
     THEN \/ /\ LET base == IF live.id = 0 THEN cat
                            ELSE CaughtUp(cat, <<[id |-> live.id, live |-> TRUE, gz |-> FALSE]>>, FALSE)
                IN  cat' = Add(base, Target, RecordsIn(pull.recs), Len(live.recs) + Len(pull.recs))
             /\ Fine
          \/ UNCHANGED cat /\ Fault
     ELSE UNCHANGED cat /\ Fine
  /\ pull' = [pull EXCEPT !.pc = "write"]
  /\ UNCHANGED <<spool, sealed, live, cursor, saved, hook, round, heard, unseen, dropped>>

(* ... write the lines.  k of them get to the file, and perhaps part of    *)
(* one more, which the next line written then runs into.                   *)
Written(k, part) ==
  LET torn == live.torn /\ k > 0
      kept == SubSeq(pull.recs, IF torn THEN 2 ELSE 1, k) IN
  /\ live' = IF live.id = 0 /\ k = 0 /\ part THEN [id |-> Legacy, recs |-> <<>>, torn |-> TRUE]
             ELSE IF live.id = 0 /\ k = 0 THEN live
             ELSE [id |-> Target, recs |-> live.recs \o kept, torn |-> part \/ (live.torn /\ k = 0)]
  /\ dropped' = dropped \cup IF torn THEN Numbers(SubSeq(pull.recs, 1, 1)) \ RecordsIn(live.recs)
                             ELSE {}

Write ==
  /\ pull.pc = "write"
  /\ Written(Len(pull.recs), FALSE)
  /\ pull' = [pull EXCEPT !.pc = "compress"]
  /\ UNCHANGED <<spool, sealed, cat, cursor, saved, hook, round, heard, unseen, faults>>

(* A full disk.  pull_once records the failure on the cursor, which ingest *)
(* has moved, and saves it.                                                *)
WriteFails ==
  /\ pull.pc = "write" /\ Fault
  /\ \E k \in 0..Len(pull.recs) - 1, part \in BOOLEAN :
       /\ live' = IF live.id = 0 /\ k = 0 THEN [id |-> IF part THEN Legacy ELSE 0,
                                                recs |-> <<>>, torn |-> part]
                  ELSE [id |-> Target, recs |-> live.recs \o SubSeq(pull.recs, 1, k), torn |-> part]
       /\ dropped' = dropped \cup Numbers(SubSeq(pull.recs, k + 1, Len(pull.recs)))
  /\ ~live.torn
  /\ cursor' = pull.last
  /\ pull' = IdlePull
  /\ UNCHANGED <<spool, sealed, cat, saved, hook, round, heard, unseen>>

(* judge, and compress what is sealed.                                     *)
Compress ==
  /\ pull.pc = "compress"
  /\ cat' = IF pull.cat THEN Judged(cat) ELSE cat
  /\ sealed' = [i \in DOMAIN sealed |->
                  IF sealed[i].gz THEN sealed[i] ELSE [sealed[i] EXCEPT !.gz = TRUE, !.raw = FALSE]]
  /\ pull' = [pull EXCEPT !.pc = "prune"]
  /\ UNCHANGED <<spool, live, cursor, saved, hook, round, heard, unseen, dropped, faults>>

(* _prune: the oldest sealed segments over the budget.  Of one that is     *)
(* there both raw and compressed only the compressed file goes: a segment  *)
(* removed behind it is missing from the middle of what a hook reads.      *)
Prune ==
  /\ pull.pc = "prune"
  /\ LET over == SetMax({0, Len(Segments) - StoreMax}, 0)
         left(s) == IF s.raw /\ s.gz THEN <<[s EXCEPT !.gz = FALSE]>> ELSE <<>>
         back[i \in 0..over] == IF i = 0 THEN <<>> ELSE back[i - 1] \o left(sealed[i]) IN
     IF over > 0 /\ sealed # <<>>
     THEN /\ sealed' = back[over] \o SubSeq(sealed, over + 1, Len(sealed))
          /\ cat' = IF pull.cat THEN Drop(cat, {sealed[i].id : i \in 1..over}) ELSE cat
          /\ unseen' = unseen \cup (UNION {RecordsIn(sealed[i].recs) : i \in 1..over}
                                       \ {r[2] : r \in cat.rows})
          /\ dropped' = dropped \cup UNION {Numbers(sealed[i].recs) :
                          i \in {j \in 1..over : \E h \in 1..j - 1 : left(sealed[h]) # <<>>}}
     ELSE UNCHANGED <<sealed, cat, unseen, dropped>>
  /\ pull' = [pull EXCEPT !.pc = "save"]
  /\ UNCHANGED <<spool, live, cursor, saved, hook, round, heard, faults>>

SaveCursor ==
  /\ pull.pc = "save"
  /\ cursor' = pull.last
  /\ pull' = IdlePull
  /\ UNCHANGED <<spool, sealed, live, cat, saved, hook, round, heard, unseen, dropped, faults>>

-----------------------------------------------------------------------------
(* A hook's round.                                                         *)
Step(pc) == round' = [round EXCEPT !.pc = pc]
Done(pc) == round' = [round EXCEPT !.pc = pc, !.list = <<>>, !.window = <<>>]

Begin ==
  /\ round.pc = "idle"
  /\ hook' = saved
  /\ \/ /\ round' = [IdleRound EXCEPT !.pc = "list", !.cat = (Segments # <<>>)] /\ Fine
        /\ cat' = CaughtUp(cat, Segments, TRUE)
     \/ round' = [IdleRound EXCEPT !.pc = "list"] /\ Fault /\ UNCHANGED cat
  /\ UNCHANGED <<spool, sealed, live, cursor, pull, saved, heard, unseen, dropped>>

(* _window: list the store, and catch the catalogue up with this listing.  *)
List ==
  /\ round.pc = "list"
  /\ \/ cat' = (IF round.cat THEN CaughtUp(cat, Segments, TRUE) ELSE cat) /\ Fine
     \/ round.cat /\ UNCHANGED cat /\ Fault
  /\ round' = [round EXCEPT !.pc = "read", !.list = Segments, !.window = <<>>]
  /\ UNCHANGED <<spool, sealed, live, cursor, pull, saved, hook, heard, unseen, dropped>>

(* Every event read is the cursor's or one before it in its boot.          *)
Behind(items) ==
  LET ns == {items[i].entry.from : i \in {j \in DOMAIN items : IsEvent(items[j])}} IN
  hook.last # 0 /\ ns # {} /\ \A n \in ns : Boot(n) = Boot(hook.last) /\ n <= hook.last

(* A hook without a position is anchored near the end of the store; what   *)
(* is before that it was never promised.                                   *)
Anchored == hook.pos = NoPos /\ hook.last = 0
ReadOn ==
  /\ round.pc = "read"
  /\ IF Anchored /\ round.list = <<>> THEN Step("deliver") /\ UNCHANGED <<hook, heard, unseen, dropped>>
     ELSE LET pos == IF Anchored THEN TailPos(round.list) ELSE hook.pos
              items == IF Found(pos, round.list) THEN Read(pos, round.list) ELSE <<>>
              before == IF items = <<>> THEN cursor ELSE items[1].entry.from - 1 IN
          /\ hook' = [hook EXCEPT !.pos = pos]
          /\ heard' = IF Anchored THEN heard \cup 1..before ELSE heard
          /\ dropped' = dropped \cup IF items = <<>> THEN {}
                                    ELSE SteppedOver(hook.last, pos, round.list)
          /\ IF Found(pos, round.list) /\ ~Behind(items)
             THEN round' = [round EXCEPT !.pc = "deliver", !.window = items]
             ELSE round' = [round EXCEPT !.pc = "find", !.window = items]
  /\ UNCHANGED <<spool, sealed, live, cat, cursor, pull, saved, unseen, faults>>

(* find: just past the cursor's event, in the segments that may hold it.   *)
Search(n) ==
  LET list == round.list
      held == {i \in DOMAIN list : ~round.cat \/ list[i].id \in Holding(n) \cup Unindexed(list)} IN
  {<<list[i].id, k>> : i \in held, k \in 1..10} \cap
    {<<list[p[1]].id, p[2]>> : p \in
       {q \in held \X (1..10) : q[2] \in DOMAIN Contents(list[q[1]])
                                /\ Contents(list[q[1]])[q[2]] = Rec(n)}}

GapsOf(items) ==
  UNION {items[i].entry.from..items[i].entry.to : i \in {j \in DOMAIN items : items[j].entry.gap}}

Resume(pos, items, over) ==
  /\ hook' = [hook EXCEPT !.pos = pos]
  /\ round' = [round EXCEPT !.pc = "deliver", !.window = items]
  /\ dropped' = dropped \cup over

Find ==
  /\ round.pc = "find"
  /\ LET places == IF hook.last = 0 THEN {} ELSE Search(hook.last)
         at == CHOOSE p \in places : \A q \in places : q[1] <= p[1]
         items == Read(at, round.list) IN
     IF round.window # <<>>
     THEN (* behind its cursor: on to the cursor, or past what was read,
             the gaps there that no event follows yet included *)
          IF places = {} \/ ~Found(at, round.list) \/ Behind(items)
          THEN Resume(round.window[Len(round.window)].at, <<>>, GapsOf(round.window))
          ELSE Resume(at, items, SteppedOver(hook.last, at, round.list))
     ELSE IF places # {} THEN Resume(at, items, SteppedOver(hook.last, at, round.list))
     ELSE IF round.list = <<>> THEN Step("deliver") /\ UNCHANGED <<hook, unseen, dropped>>
     ELSE Step("gone") /\ UNCHANGED <<hook, unseen, dropped>>
  /\ UNCHANGED <<spool, sealed, live, cat, cursor, pull, saved, heard, unseen, faults>>

(* Is it gone for certain (_gone, _removed)?                               *)
Moved == Segments # round.list
Proven ==
  IF hook.last # 0
  THEN /\ ~Moved
       /\ round.cat =>
            LET ids == {round.list[i].id : i \in DOMAIN round.list}
                span == {r[2] : r \in {s \in cat.rows : s[1] \in ids /\ Boot(s[2]) = Boot(hook.last)}}
            IN  ~(\E n \in span : n <= hook.last) \/ ~(\E n \in span : n >= hook.last)
  ELSE \/ hook.pos[1] = Legacy
       \/ ~Moved /\ (Locate(hook.pos, round.list) # {} \/ hook.pos[1] < round.list[1].id)

Gone ==
  /\ round.pc = "gone"
  /\ IF Proven
     THEN LET at == <<round.list[1].id, 0>>
              items == Read(at, round.list)
              ns == RecordsIn([i \in DOMAIN items |-> items[i].entry]) IN
          /\ hook' = [hook EXCEPT !.pos = at,
                        !.gaps = @ \cup {[from |-> hook.last + 1,
                                          to |-> IF items = <<>> THEN Len(Stream)
                                                 ELSE items[1].entry.from - 1]}]
          /\ round' = [round EXCEPT !.pc = "deliver", !.window = items]
     ELSE Step("deliver") /\ UNCHANGED hook
  /\ UNCHANGED <<spool, sealed, live, cat, cursor, pull, saved, heard, unseen, dropped, faults>>

-----------------------------------------------------------------------------
(* What is ready (settled): events a snapshot after them has settled, or   *)
(* old ones, up to the first that is neither.                              *)
Items == {i \in DOMAIN round.window : IsEvent(round.window[i])}
EventAt(i) == round.window[i].entry.from
Snapshots ==
  {n \in RecordsIn([i \in DOMAIN round.window |-> round.window[i].entry]) : ~Event(n)}
    \cup IF round.cat THEN cat.snaps ELSE {}
SnapAfter(n) == \E s \in Snapshots : Settles(s, n)
Ready(old) == {i \in Items : \A j \in Items : j <= i => old \/ SnapAfter(EventAt(j))}

(* after: those past the cursor.                                           *)
Pending(old) ==
  LET ready == Ready(old) IN
  IF hook.last = 0 \/ ~\E i \in ready : Boot(EventAt(i)) = Boot(hook.last) THEN ready
  ELSE {i \in ready : EventAt(i) > hook.last}

(* Mutant: only a crossing that is among the events read opens.            *)
Opened_InView(n, old) ==
  \E c \in Candidates({EventAt(i) : i \in Ready(old)}) : Boot(c) = Boot(n) /\ c <= n

(* crossings: a boot's events from the first crossing on are not filtered; *)
(* a candidate not judged counts, and so does everything when there is no  *)
(* catalogue to ask.                                                       *)
Known(old) ==
  {n \in DOMAIN cat.verdict : cat.verdict[n] = "crossed" \/ \E s \in cat.snaps : Settles(s, n)}
    \cup Candidates({EventAt(i) : i \in {j \in Ready(old) : SnapAfter(EventAt(j))}})
Opened(n, old) == ~round.cat \/ \E c \in Known(old) : Boot(c) = Boot(n) /\ c <= n

Matches(n, old) == Stream[n].who = "container" \/ Opened(n, old)

(* deliver: up to BatchMax events the hook wants, with every gap owed and  *)
(* a count of those it does not want.                                      *)
Batch(old) ==
  LET pending == Pending(old)
      wanted == {i \in pending : Matches(EventAt(i), old)}
      picked == {i \in wanted : Cardinality({j \in wanted : j <= i}) <= BatchMax}
      end == IF Cardinality(picked) = BatchMax THEN SetMax(picked, 0) ELSE SetMax(pending, 0)
      passed == {i \in pending : i <= end}
      between(i) == {j \in DOMAIN round.window :
                       j < i /\ round.window[j].entry.gap /\ ~\E k \in Items : k > j /\ k < i} IN
  [last |-> end,
   wanted |-> {EventAt(i) : i \in picked},
   over |-> hook.over \cup {EventAt(i) : i \in passed \ picked},
   gaps |-> hook.gaps
              \cup {[from |-> round.window[j].entry.from, to |-> round.window[j].entry.to] :
                      j \in UNION {between(i) : i \in passed}}
              \cup {[from |-> EventAt(i), to |-> EventAt(i)] :
                      i \in {j \in passed : ~SnapAfter(EventAt(j))}}]

MovedTo(b, h) ==
  IF b.last = 0 THEN h ELSE [h EXCEPT !.last = EventAt(b.last), !.pos = round.window[b.last].at]
Covered(gaps) == {n \in Records : \E g \in gaps : n \in g.from..g.to}

Deliver ==
  /\ round.pc = "deliver"
  /\ \E old \in BOOLEAN : \E b \in {Batch(old)} :
       \/ /\ b.wanted = {} /\ b.gaps = {}
          /\ hook' = MovedTo(b, [hook EXCEPT !.over = b.over])
          /\ \E pc \in (IF b.last = 0 THEN {} ELSE {"list"}) \cup {"save"} : Done(pc)
          /\ Fine /\ UNCHANGED heard
       \/ /\ b.wanted # {} \/ b.gaps # {}
          /\ hook' = MovedTo(b, [hook EXCEPT !.gaps = {}, !.over = {}, !.attempts = 0])
          /\ heard' = heard \cup b.wanted \cup b.over \cup Covered(b.gaps)
          /\ \E pc \in {"list", "save"} : Done(pc)
          /\ Fine
       \/ /\ b.wanted # {} \/ b.gaps # {}
          /\ Fault /\ Done("save") /\ UNCHANGED heard
          /\ hook' =
               IF hook.attempts + 1 < MaxAttempts THEN [hook EXCEPT !.attempts = @ + 1]
               ELSE MovedTo(b, [hook EXCEPT !.attempts = 0, !.over = b.over,
                      !.gaps = b.gaps \cup
                        {[from |-> hook.last + 1, to |-> n] : n \in {SetMax(b.wanted, 0)} \ {0}}])
  /\ UNCHANGED <<spool, sealed, live, cat, cursor, pull, saved, unseen, dropped>>

SaveState ==
  /\ round.pc = "save"
  /\ saved' = hook
  /\ round' = IdleRound
  /\ UNCHANGED <<spool, sealed, live, cat, cursor, pull, hook, heard, unseen, dropped, faults>>

-----------------------------------------------------------------------------
(* The process is killed, in the middle of a write or a compression too.   *)
Kill ==
  /\ Fault
  /\ pull.pc # "idle" \/ round.pc # "idle"
  /\ pull' = IdlePull /\ round' = IdleRound /\ hook' = saved
  /\ IF pull.pc = "write"
     THEN \E k \in 0..Len(pull.recs), part \in BOOLEAN :
            (k < Len(pull.recs) \/ ~part) /\ Written(k, part)
     ELSE UNCHANGED <<live, unseen, dropped>>
  /\ \/ UNCHANGED sealed
     \/ /\ pull.pc = "compress"
        /\ \E i \in DOMAIN sealed :
             ~sealed[i].gz /\ sealed' = [sealed EXCEPT ![i].gz = TRUE]
  /\ UNCHANGED <<spool, cat, cursor, saved, heard, unseen>>

Pull == Fetch \/ Seal \/ Index \/ Write \/ WriteFails \/ Compress \/ Prune \/ SaveCursor
Round == Begin \/ List \/ ReadOn \/ Find \/ Gone \/ Deliver \/ SaveState
Next == Pull \/ Round \/ Kill

Spec == Init /\ [][Next]_vars

-----------------------------------------------------------------------------
(* Whatever a hook's cursor has passed it was sent, or has been or is to   *)
(* be told of, through any number of sealings, removals, lost positions    *)
(* and restarts -- save records lost while they were stored, or removed    *)
(* behind a segment that is kept.                                          *)
Told(h) == heard \cup h.over \cup Covered(h.gaps)
NothingPassedInSilence ==
  \A h \in {saved, hook} : \A n \in 1..h.last : Event(n) => n \in Told(h) \cup dropped

(* What the pull fetched is stored (monitorstore: a crash re-stores it).   *)
NothingDropped == dropped = {}

(* From a crossing that was indexed on, nothing of its boot that a         *)
(* snapshot has settled is filtered away, however long ago the crossing    *)
(* was, for as long as the store holds anything of that boot.              *)
Stored(b) == \E r \in cat.rows : Boot(r[2]) = b
CrossingsOpen ==
  [][\A n \in hook'.over \ (hook.over \cup saved.over) :
       SnapAfter(n) /\ Stored(Boot(n)) =>
         ~\E c \in Candidates(1..n) : Boot(c) = Boot(n) /\ c \notin unseen \cup dropped]_vars
=============================================================================
