---------------------------- MODULE MintedToken ----------------------------
(***************************************************************************)
(* The credential of one injection rule of the egress proxy: a token that  *)
(* a host command, the minter, prints with its lifetime.  Requests run on  *)
(* the proxy's one event loop and never wait for a minter there: a worker  *)
(* thread mints, one call shared by the requests that come meanwhile.  The *)
(* warm-up mints on a thread of its own, and the rule's lock, held across  *)
(* a mint, is all the threads have in common.  A failure is remembered for *)
(* a while and answered instead of running the minter again.               *)
(*                                                                         *)
(* A request that the upstream refuses (401) is re-issued once with a      *)
(* token minted for it (`force'), unless its body was streamed.            *)
(***************************************************************************)
EXTENDS Integers, FiniteSets

CONSTANTS
  Requests,    \* the requests to the rule's host
  Lifetime,    \* how long a token is used: its ttl, less 30 s
  Memory,      \* _MINT_FAILURE_MEMORY
  MaxTime,     \* bound: the clock
  MaxMints     \* bound: minter runs

VARIABLES
  clock,
  cache,       \* the rule's value and when it stops being used
  failedAt,    \* when the remembered failure happened, or -1
  holder,      \* the thread that holds the lock: a call's number, or 0
  calls,       \* the calls of token() that run on a thread
  flight,      \* the call the event loop shares, or 0
  request,     \* the requests
  revoked,     \* tokens the upstream refuses
  mints

vars == <<clock, cache, failedAt, holder, calls, flight, request, revoked, mints>>

Tokens == 1..MaxMints
NoToken == 0     \* nothing cached, nothing carried
Failed == -1     \* what a mint that failed gives
Idle == [pc |-> "idle", force |-> FALSE, token |-> NoToken, refused |-> NoToken, on |-> 0]

Init ==
  /\ clock = 0
  /\ cache = [value |-> NoToken, until |-> 0]
  /\ failedAt = -1
  /\ calls = {[id |-> 1, force |-> FALSE, pc |-> "lock"]}    \* running: the warm-up
  /\ holder = 0 /\ flight = 0
  /\ request = [r \in Requests |-> Idle]
  /\ revoked = {}
  /\ mints = 0

(* _settled: what token() answers without running the minter, or NoToken.  *)
Remembered == failedAt >= 0 /\ clock - failedAt < Memory
Settled(force) ==
  IF ~force /\ cache.value # NoToken /\ clock < cache.until THEN cache.value
  ELSE IF Remembered THEN Failed
  ELSE NoToken

(* _cached: a lock somebody holds says nothing either.                     *)
Cached(force) == IF holder # 0 THEN NoToken ELSE Settled(force)

-----------------------------------------------------------------------------
(* token(), on a thread: wait for the lock, look again, ...                *)
Running(id) == \E c \in calls : c.id = id
Forced(id) == \E c \in calls : c.id = id /\ c.force

(* A call that ends: the loop forgets it as the shared one (_landed) and   *)
(* every request that awaits it goes on with what it gave.                 *)
Land(c, answer) ==
  /\ calls' = calls \ {c}
  /\ flight' = IF flight = c.id THEN 0 ELSE flight
  /\ request' = [r \in Requests |->
       IF request[r].pc = "await" /\ request[r].on = c.id
       THEN [request[r] EXCEPT !.pc = "have", !.token = answer, !.on = 0]
       ELSE IF request[r].pc = "letLand" /\ request[r].on = c.id
       THEN [request[r] EXCEPT !.pc = "share", !.on = 0]
       ELSE request[r]]

TakeLock(c) ==
  /\ c.pc = "lock" /\ holder = 0
  /\ IF Settled(c.force) # NoToken
     THEN Land(c, Settled(c.force)) /\ UNCHANGED <<holder, mints>>
     ELSE /\ mints < MaxMints
          /\ mints' = mints + 1
          /\ holder' = c.id
          /\ calls' = (calls \ {c}) \cup {[c EXCEPT !.pc = "mint"]}
          /\ UNCHANGED <<flight, request>>
  /\ UNCHANGED <<clock, cache, failedAt, revoked>>

(* ... and run the minter, which has 30 s.                                 *)
Minted(c) ==
  /\ c.pc = "mint"
  /\ holder' = 0
  /\ \/ /\ cache' = [value |-> mints, until |-> clock + Lifetime]
        /\ failedAt' = -1
        /\ Land(c, mints)
     \/ /\ failedAt' = clock
        /\ Land(c, Failed)
        /\ UNCHANGED cache
  /\ UNCHANGED <<clock, revoked, mints>>

-----------------------------------------------------------------------------
(* atoken(), on the event loop.                                            *)
Ask(r) ==
  /\ request[r].pc = "idle"
  /\ LET settled == Cached(FALSE) IN
     request' = [request EXCEPT
                   ![r].pc = IF settled # NoToken THEN "have" ELSE "share",
                   ![r].token = settled]
  /\ UNCHANGED <<clock, cache, failedAt, holder, calls, flight, revoked, mints>>

(* Mutant: whoever comes joins the call that runs.                         *)
Joins_Any(r) == TRUE

(* A plain call may give the very token that was refused.                  *)
Joins(r) == Forced(flight) \/ ~request[r].force

Share(r) ==
  /\ request[r].pc = "share"
  /\ IF ~Running(flight)
     THEN LET id == CHOOSE i \in 1..(Cardinality(calls) + 1) : ~Running(i) IN
          /\ calls' = calls \cup {[id |-> id, force |-> request[r].force, pc |-> "lock"]}
          /\ flight' = id
          /\ request' = [request EXCEPT ![r].pc = "await", ![r].on = id]
     ELSE /\ request' = [request EXCEPT ![r].pc = IF Joins(r) THEN "await" ELSE "letLand",
                                        ![r].on = flight]
          /\ UNCHANGED <<calls, flight>>
  /\ UNCHANGED <<clock, cache, failedAt, holder, revoked, mints>>

Refused(r) == request[r].refused # NoToken
End(r) == request' = [request EXCEPT ![r] = [Idle EXCEPT !.pc = "answered"]]

(* The request is sent, or re-issued, with its token.                      *)
Send(r) ==
  /\ request[r].pc = "have" /\ request[r].token \in Tokens
  /\ request' = [request EXCEPT ![r].pc = "sent"]
  /\ UNCHANGED <<clock, cache, failedAt, holder, calls, flight, revoked, mints>>

(* invalidate: the next request mints afresh.                              *)
Invalidate == holder = 0 /\ cache' = [value |-> NoToken, until |-> 0]

(* A mint that failed is answered with a 502; when it was to replace a     *)
(* refused token, that one is dropped.                                     *)
AnswerFailure(r) ==
  /\ request[r].pc = "have" /\ request[r].token = Failed
  /\ End(r)
  /\ IF Refused(r) THEN Invalidate ELSE UNCHANGED cache
  /\ UNCHANGED <<clock, failedAt, holder, calls, flight, revoked, mints>>

(* The upstream's answer.                                                  *)
Accepted(r) ==
  /\ request[r].pc = "sent"
  /\ request[r].token \in revoked => Refused(r)
  /\ End(r)
  /\ UNCHANGED <<clock, cache, failedAt, holder, calls, flight, revoked, mints>>

StreamedRefused(r) ==
  /\ request[r].pc = "sent" /\ request[r].token \in revoked /\ ~Refused(r)
  /\ End(r)
  /\ Invalidate
  /\ UNCHANGED <<clock, failedAt, holder, calls, flight, revoked, mints>>

Reissue(r) ==
  /\ request[r].pc = "sent" /\ request[r].token \in revoked /\ ~Refused(r)
  /\ LET settled == Cached(TRUE) IN
     request' = [request EXCEPT
                   ![r].pc = IF settled # NoToken THEN "have" ELSE "share",
                   ![r].force = TRUE, ![r].token = settled, ![r].refused = request[r].token]
  /\ UNCHANGED <<clock, cache, failedAt, holder, calls, flight, revoked, mints>>

(* Mutant: a client that hangs up takes the call it awaits with it.        *)
HangUp_Cancels(r) ==
  /\ request[r].pc = "await"
  /\ End(r)
  /\ calls' = {c \in calls : c.id # request[r].on}
  /\ flight' = 0
  /\ holder' = IF holder = request[r].on THEN 0 ELSE holder
  /\ UNCHANGED <<clock, cache, failedAt, revoked, mints>>

(* The client hangs up: the shared call goes on for the others.            *)
HangUp(r) ==
  /\ request[r].pc \in {"share", "await", "letLand", "have"}
  /\ End(r)
  /\ UNCHANGED <<clock, cache, failedAt, holder, calls, flight, revoked, mints>>

-----------------------------------------------------------------------------
Tick ==
  /\ clock < MaxTime
  /\ clock' = clock + 1
  /\ UNCHANGED <<cache, failedAt, holder, calls, flight, request, revoked, mints>>

Revoke ==
  /\ cache.value \in Tokens \ revoked
  /\ revoked' = revoked \cup {cache.value}
  /\ UNCHANGED <<clock, cache, failedAt, holder, calls, flight, request, mints>>

Thread == \E c \in calls : TakeLock(c) \/ Minted(c)

Handle(r) ==
  \/ Share(r) \/ Send(r) \/ AnswerFailure(r) \/ Accepted(r) \/ StreamedRefused(r) \/ Reissue(r)

Next ==
  \/ Thread
  \/ \E r \in Requests : Ask(r) \/ Handle(r) \/ HangUp(r)
  \/ Tick \/ Revoke

Spec == Init /\ [][Next]_vars /\ WF_vars(Thread) /\ \A r \in Requests : WF_vars(Handle(r))

-----------------------------------------------------------------------------
(* A request is not re-issued with the very token the upstream has just    *)
(* refused, whichever call it joined and whatever was minted meanwhile     *)
(* (atoken's `force').                                                     *)
ReissuedWithAnother ==
  \A r \in Requests :
    Refused(r) /\ request[r].pc \in {"have", "sent"} => request[r].token # request[r].refused

(* A request that needs the credential is answered, whatever call it waits *)
(* for and whoever hangs up meanwhile.                                     *)
Waiting(r) == request[r].pc \notin {"idle", "answered"}
EveryRequestAnswered ==
  \A r \in Requests : Waiting(r) ~> (~Waiting(r) \/ mints = MaxMints)
=============================================================================
