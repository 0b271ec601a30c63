------------------------------ MODULE Posture -------------------------------
(***************************************************************************)
(* One checkout's mode: the authoritative file under the operator's home,  *)
(* its mirror in the checkout, the commands that write it (`fy mode', the  *)
(* TUI, the keyless seeding) and the supervisor tick that expires it.      *)
(*                                                                         *)
(* Nothing locks the file.  Every writer is devmode.set_mode: it reads the *)
(* whole file, changes a copy, truncates the file and writes the copy back *)
(* (Path.write_text), then refreshes the mirror.  Those are separate steps *)
(* here, so two writers, or a writer and a reader, interleave as processes *)
(* on one file do, and a process may be killed between any two of them.    *)
(***************************************************************************)
EXTENDS Switches

CONSTANTS
  Operators,     \* processes that call set_mode for an operator
  Supervisor,    \* the one supervisor
  NoEntry,       \* "this switch has no expires entry"
  Empty,         \* the file's content: none, or truncated and not yet rewritten
  Garbage,       \* the file's content: bytes of two writers, not JSON
  NoMirror,      \* the checkout has no mirror file
  TTLs,          \* the lifetimes an operator may ask for
  MaxTTL,        \* devmode.MAX_TTL: parse_ttl clamps to it
  MaxReal,       \* bound: real time stops here
  MaxSkew,       \* bound: `fy clock ff' stops here
  MaxCalls,      \* bound: calls to set_mode by operators
  MaxMishaps,    \* bound: kills, fast-forwards and boxes that come or go
  MaxEvents,     \* bound: calls and mishaps together
  MaxAtOnce      \* bound: switches named in one `fy mode' command

ASSUME OperatorsAssumption == Supervisor \notin Operators
ASSUME NoEntryAssumption == NoEntry \notin Int
ASSUME TTLAssumption == TTLs \subseteq 1..MaxTTL /\ MaxTTL \in Nat
ASSUME BoundsAssumption ==
  /\ MaxReal \in Nat /\ MaxSkew \in Nat /\ MaxCalls \in Nat
  /\ MaxMishaps \in Nat /\ MaxEvents \in Nat /\ MaxAtOnce \in Nat

Processes == Operators \cup {Supervisor}

Entries == [Axes -> Nat \cup {NoEntry}]
PostureFiles == [mode : Modes, expires : Entries]

(* Empty and Garbage are not postures.                                     *)
ASSUME ContentAssumption ==
  Empty \notin PostureFiles /\ Garbage \notin PostureFiles /\ NoMirror \notin PostureFiles

AtRest == [mode |-> Default, expires |-> [a \in Axes |-> NoEntry]]

VARIABLES
  real,      \* wall-clock time
  skew,      \* the `fy clock ff' offset
  file,      \* the authoritative mode file
  mirror,    \* the mirror in the checkout
  boxUp,     \* this checkout's box is running
  call,      \* process -> the set_mode call it is in
  tick,      \* the supervisor's place in its tick and what it has read
  served,    \* the mode the last complete tick reconciled its daemons to
  granted,   \* switch -> the latest expiry any operator asked for (history)
  calls,     \* set_mode calls operators have made
  mishaps    \* kills, fast-forwards and boxes that came or went

clockVars == <<real, skew>>
vars == <<real, skew, file, mirror, boxUp, call, tick, served, granted, calls, mishaps>>

-----------------------------------------------------------------------------
(* Reading.  A file that is missing, truncated or not JSON loads as {}.    *)
Load == IF file \in {Empty, Garbage} THEN AtRest ELSE file

Now == real + skew

Lapsed(posture, a) == posture.expires[a] # NoEntry /\ posture.expires[a] <= Now

(* read(apply_expiry=True): a lapsed switch reads as its default.          *)
Live(posture) ==
  [mode |-> [a \in Axes |-> IF Lapsed(posture, a) THEN Default[a] ELSE posture.mode[a]],
   expires |-> [a \in Axes |-> IF Lapsed(posture, a) THEN NoEntry ELSE posture.expires[a]]]

(* Mutant: any command renews every emergency level that is on.            *)
Apply_RenewsAll(posture, updates, expiry) ==
  LET mode == [a \in Axes |-> IF a \in DOMAIN updates THEN updates[a] ELSE posture.mode[a]]
  IN [mode |-> mode,
      expires |-> [a \in Axes |-> IF mode[a] \in Emergency[a] THEN expiry ELSE NoEntry]]

(* set_mode's update loop: `expiry' is the entry an emergency level gets.  *)
Apply(posture, updates, expiry) ==
  [mode |-> [a \in Axes |-> IF a \in DOMAIN updates THEN updates[a] ELSE posture.mode[a]],
   expires |-> [a \in Axes |->
                  IF a \in DOMAIN updates
                  THEN IF updates[a] \in Emergency[a] THEN expiry ELSE NoEntry
                  ELSE posture.expires[a]]]

(* The updates one command may carry: validate_updates lets no other in.   *)
Updates ==
  UNION {{u \in [S -> Rungs] : \A a \in S : u[a] \in Levels[a]} :
            S \in {T \in SUBSET Axes : T # {} /\ Cardinality(T) <= MaxAtOnce}}

NoCall == [pc |-> "idle", base |-> Default, next |-> AtRest]
NoTick == [pc |-> "idle", stored |-> Default, live |-> Default, settle |-> {}, mode |-> Default]

Init ==
  /\ real = 0 /\ skew = 0
  /\ file = Empty
  /\ mirror = NoMirror
  /\ boxUp \in BOOLEAN
  /\ call = [p \in Processes |-> NoCall]
  /\ tick = NoTick
  /\ served = Default
  /\ granted = [a \in Axes |-> 0]
  /\ calls = 0 /\ mishaps = 0

-----------------------------------------------------------------------------
(* The bounds on what happens from outside.                                *)
EventsLeft == calls + mishaps < MaxEvents

Mishap ==
  /\ mishaps < MaxMishaps /\ EventsLeft
  /\ mishaps' = mishaps + 1

-----------------------------------------------------------------------------
(* set_mode, from its read to its return, for any caller.                  *)

(* Read, apply and gate.  A refused call changes nothing and is no step.   *)
Begin(p, updates, ttl, force) ==
  LET state == Live(Load)
      next  == Apply(state, updates, Now + ttl)
  IN /\ call[p].pc = "idle"
     /\ force \/ ModeErrors(next.mode) = {}
     /\ call' = [call EXCEPT ![p] = [pc |-> "truncate", base |-> state.mode, next |-> next]]

Advance(p, from, to) ==
  /\ call[p].pc = from
  /\ call' = [call EXCEPT ![p].pc = to]

(* write_text opens with truncation ...                                    *)
Truncate(p) ==
  /\ Advance(p, "truncate", "write")
  /\ file' = Empty
  /\ UNCHANGED <<real, skew, mirror, boxUp, tick, served, granted, calls, mishaps>>

(* ... and writes from the start of the file.  If another writer's bytes   *)
(* are there by now and are longer, the tail of them stays.                *)
Write(p) ==
  /\ Advance(p, "write", "mirror")
  /\ \/ file' = call[p].next
     \/ file # Empty /\ file' = Garbage
  /\ UNCHANGED <<real, skew, mirror, boxUp, tick, served, granted, calls, mishaps>>

(* The mirror gets this call's posture, only where one is wanted.          *)
Refresh(p) ==
  /\ Advance(p, "mirror", "reconcile")
  /\ mirror' = IF mirror # NoMirror \/ boxUp THEN call[p].next ELSE mirror
  /\ UNCHANGED <<real, skew, file, boxUp, tick, served, granted, calls, mishaps>>

(* reconcile_stack, then return.  Module PostureStack says what it does.   *)
Finish(p) ==
  /\ call[p].pc = "reconcile"
  /\ call' = [call EXCEPT ![p] = NoCall]
  /\ UNCHANGED <<real, skew, file, mirror, boxUp, tick, served, granted, calls, mishaps>>

(* `fy mode switch=level ... [ttl=...]': one operator's call.              *)
SetMode(p, updates, ttl) ==
  /\ calls < MaxCalls /\ EventsLeft
  /\ calls' = calls + 1
  /\ Begin(p, updates, ttl, FALSE)
  /\ granted' = [a \in Axes |->
                   IF a \in DOMAIN updates /\ updates[a] \in Emergency[a] /\ Now + ttl > granted[a]
                   THEN Now + ttl ELSE granted[a]]
  /\ UNCHANGED <<real, skew, file, mirror, boxUp, tick, served, mishaps>>

-----------------------------------------------------------------------------
(* The supervisor's tick over this checkout: expire_user_modes, then the   *)
(* mirror, then the daemons.                                               *)

(* expire_user_modes' first read, without expiry.                          *)
ReadStored ==
  /\ tick.pc = "idle"
  /\ tick' = [tick EXCEPT !.pc = "stored", !.stored = Load.mode]
  /\ UNCHANGED <<real, skew, file, mirror, boxUp, call, served, granted, calls, mishaps>>

(* Mutant: the cascade is worked out on the mode before the expiry.        *)
ReadLive_SettlesStored ==
  LET live   == Live(Load).mode
      flips  == {a \in Axes : tick.stored[a] # live[a]}
      settle == IF flips = {} THEN {} ELSE SettleFlips(Requires, tick.stored)
  IN /\ tick.pc = "stored"
     /\ tick' = [pc     |-> IF flips = {} THEN "mirror" ELSE "expire",
                 stored |-> tick.stored,
                 live   |-> live,
                 settle |-> flips \cup settle,
                 mode   |-> [a \in Axes |-> IF a \in settle THEN Default[a] ELSE live[a]]]
     /\ UNCHANGED <<real, skew, file, mirror, boxUp, call, served, granted, calls, mishaps>>

(* Its second read, with expiry, and the choice of what to lower.          *)
ReadLive ==
  LET live   == Live(Load).mode
      flips  == {a \in Axes : tick.stored[a] # live[a]}
      settle == IF flips = {} THEN {} ELSE SettleFlips(Requires, live)
  IN /\ tick.pc = "stored"
     /\ tick' = [pc     |-> IF flips = {} THEN "mirror" ELSE "expire",
                 stored |-> tick.stored,
                 live   |-> live,
                 settle |-> flips \cup settle,
                 mode   |-> [a \in Axes |-> IF a \in settle THEN Default[a] ELSE live[a]]]
     /\ UNCHANGED <<real, skew, file, mirror, boxUp, call, served, granted, calls, mishaps>>

(* set_mode(flips, force=True), which reads the file for a third time.     *)
Expire ==
  /\ tick.pc = "expire"
  /\ Begin(Supervisor, [a \in tick.settle |-> Default[a]], 0, TRUE)
  /\ tick' = [tick EXCEPT !.pc = "expiring"]
  /\ UNCHANGED <<real, skew, file, mirror, boxUp, served, granted, calls, mishaps>>

Expired ==
  /\ tick.pc = "expiring"
  /\ call[Supervisor].pc = "idle"
  /\ tick' = [tick EXCEPT !.pc = "mirror"]
  /\ UNCHANGED <<real, skew, file, mirror, boxUp, call, served, granted, calls, mishaps>>

(* The mirror: this tick's mode beside a fresh read of the entries.        *)
MirrorTick ==
  /\ tick.pc = "mirror"
  /\ tick' = [tick EXCEPT !.pc = "serve"]
  /\ mirror' = IF boxUp THEN [mode |-> tick.mode, expires |-> Live(Load).expires] ELSE mirror
  /\ UNCHANGED <<real, skew, file, boxUp, call, served, granted, calls, mishaps>>

(* reconcile_once diffs its children against what this tick's mode asks    *)
(* for.  (What a killed supervisor left running is not among them.)        *)
Serve ==
  /\ tick.pc = "serve"
  /\ served' = tick.mode
  /\ tick' = NoTick
  /\ UNCHANGED <<real, skew, file, mirror, boxUp, call, granted, calls, mishaps>>

-----------------------------------------------------------------------------
(* The rest of the world.                                                  *)

Pass ==
  /\ real < MaxReal
  /\ real' = real + 1
  /\ UNCHANGED <<skew, file, mirror, boxUp, call, tick, served, granted, calls, mishaps>>

(* `fy clock ff' and `fy clock reset'.                                     *)
FastForward ==
  /\ skew < MaxSkew
  /\ skew' \in (skew + 1)..MaxSkew
  /\ Mishap
  /\ UNCHANGED <<real, file, mirror, boxUp, call, tick, served, granted, calls>>

ClockReset ==
  /\ skew # 0
  /\ skew' = 0
  /\ UNCHANGED <<real, file, mirror, boxUp, call, tick, served, granted, calls, mishaps>>

(* `fy box up' and a box going away; the mirror file stays behind.         *)
BoxToggle ==
  /\ boxUp' = ~boxUp
  /\ Mishap
  /\ UNCHANGED <<real, skew, file, mirror, call, tick, served, granted, calls>>

(* A process dies inside a call.  Only what it wrote remains.              *)
KillOperator(p) ==
  /\ Mishap
  /\ call[p].pc # "idle"
  /\ call' = [call EXCEPT ![p] = NoCall]
  /\ UNCHANGED <<real, skew, file, mirror, boxUp, tick, served, granted, calls>>

(* The supervisor dies in mid-tick and a new one starts its first tick.    *)
KillSupervisor ==
  /\ Mishap
  /\ tick.pc # "idle"
  /\ call' = [call EXCEPT ![Supervisor] = NoCall]
  /\ tick' = NoTick
  /\ UNCHANGED <<real, skew, file, mirror, boxUp, served, granted, calls>>

CallStep(p) == Truncate(p) \/ Write(p) \/ Refresh(p) \/ Finish(p)

TickStep ==
  ReadStored \/ ReadLive \/ Expire \/ Expired \/ MirrorTick \/ Serve

World == Pass \/ FastForward \/ ClockReset \/ BoxToggle

Next ==
  \/ \E p \in Operators, u \in Updates, ttl \in TTLs : SetMode(p, u, ttl)
  \/ \E p \in Processes : CallStep(p)
  \/ TickStep
  \/ World
  \/ \E p \in Operators : KillOperator(p)
  \/ KillSupervisor

(* The supervisor ticks for as long as it runs, a call that has begun goes *)
(* on, and real time passes.  Nobody has to type a command.                *)
Fairness ==
  /\ \A p \in Processes : WF_vars(CallStep(p))
  /\ WF_vars(TickStep)
  /\ WF_vars(Pass)

Spec == Init /\ [][Next]_vars /\ Fairness

-----------------------------------------------------------------------------
CallStates == {"idle", "truncate", "write", "mirror", "reconcile"}
TickStates == {"idle", "stored", "expire", "expiring", "mirror", "serve"}

(* Every part of the state has its type.                                   *)
TypeOK ==
  /\ real \in 0..MaxReal /\ skew \in 0..MaxSkew
  /\ file \in PostureFiles \cup {Empty, Garbage}
  /\ mirror \in PostureFiles \cup {NoMirror}
  /\ boxUp \in BOOLEAN
  /\ call \in [Processes -> [pc : CallStates, base : Modes, next : PostureFiles]]
  /\ tick \in [pc : TickStates, stored : Modes, live : Modes,
               settle : SUBSET Axes, mode : Modes]
  /\ served \in Modes
  /\ granted \in [Axes -> Nat]
  /\ calls \in 0..MaxCalls /\ mishaps \in 0..MaxMishaps

(* A posture holds an expires entry for exactly the switches it has at an  *)
(* emergency level.                                                        *)
Leased(posture) ==
  \A a \in Axes :
    posture.mode[a] \in Emergency[a] <=> posture.expires[a] # NoEntry

(* Whatever interleaving of writers produced the file, an emergency level  *)
(* in it has a TTL, and an entry never outlives its level: no command, no  *)
(* expiry and no stale write-back can leave your own identity switched on  *)
(* for good (devmode.set_mode, docs/security.md:154 "Levels that act as    *)
(* *you* have a mandatory TTL").                                           *)
EmergencyLeased == Leased(Load)

(* However far the test clock was moved and moved back, no entry lies more *)
(* than a full TTL and the largest skew ahead of real time.                *)
LeaseWithinReach ==
  \A a \in Axes :
    Load.expires[a] # NoEntry => Load.expires[a] <= real + MaxSkew + MaxTTL

(* Two writers can lose each other's updates, and a stale copy can bring a *)
(* lowered emergency level back, but never with a later expiry than some   *)
(* operator asked for on that switch: only an update naming the switch     *)
(* computes an entry for it.                                               *)
NoLeaseBeyondAGrant ==
  \A a \in Axes :
    Load.expires[a] # NoEntry => Load.expires[a] <= granted[a]

(* The supervisor is about to write an expiry.                             *)
Expiring == tick.pc = "expiring" /\ call[Supervisor].pc = "truncate"

(* If every switch the expiry took for lapsed does read as its default,    *)
(* and nothing moved between its second and third read of the file, then   *)
(* what it writes works (expire_user_modes, supervisor.py:954).            *)
UnracedExpiryWorks ==
  /\ Expiring
  /\ \A a \in Axes : tick.stored[a] # tick.live[a] => tick.live[a] = Default[a]
  /\ call[Supervisor].base = tick.live
  /\ Works(Requires, Default)
  => Works(Requires, call[Supervisor].next.mode)

(* supervisor.py:954 "Apply TTLs to the AUTHORITATIVE file: lapsed axes    *)
(* flip to their default rung": an expiry begins only when some lease has  *)
(* run out.                                                                *)
OnlyLapsesExpire ==
  [][tick.pc = "stored" /\ tick'.pc = "expire" => \E a \in Axes : Lapsed(Load, a)]_vars

(* docs/modes.md:104 "So an expiry always lands on a mode that works offline":  *)
(* the same without the proviso.                                           *)
ExpiryLandsWorking ==
  Expiring /\ Works(Requires, Default)
    => Works(Requires, call[Supervisor].next.mode)

(* devmode.py:407 "An expiry only turns switches off": the posture it puts *)
(* in place of a readable file raises no switch of that file.              *)
ExpiryOnlyLowers ==
  [][Truncate(Supervisor) /\ file \in PostureFiles
       => \A a \in Axes :
            call[Supervisor].next.mode[a] \in {Default[a], file.mode[a]}]_vars

(* Once the operators stop, the supervisor's ticks end on what the file    *)
(* says and stay there, whatever was lost, torn or killed on the way.      *)
DaemonsFollowFile == <>[](served = Load.mode)

(* And so does the mirror, in a checkout whose box stays up.               *)
MirrorFollowsFile ==
  <>[]boxUp => <>[](mirror # NoMirror /\ mirror.mode = Load.mode)
=============================================================================
