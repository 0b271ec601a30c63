----------------------------- MODULE EgressWall -----------------------------
(***************************************************************************)
(* The egress proxy between a box and the network: the connections of its  *)
(* clients, the requests on them, and the two files its policy comes from, *)
(* the live settings and the effective allowlist, which the host rewrites  *)
(* at any time.  Every hook of the proxy first reads what has changed and  *)
(* closes the open connections that the new policy would not allow.        *)
(*                                                                         *)
(* A connection is to a target, a host with a port; the targets on :443    *)
(* may be decrypted.  A refused one on :443 is not refused at its CONNECT: *)
(* the proxy answers the CONNECT itself and refuses each request inside.   *)
(***************************************************************************)
EXTENDS Integers, FiniteSets

CONSTANTS
  Targets, Https,   \* the targets, and those on :443
  Local,            \* those that lead to the operator's own network
  Credentials,      \* the injectable credentials
  HostOf,           \* credential -> the target it is for
  ScopeOf,          \* credential -> the paths it is for
  PlaceOf,          \* credential -> the header or parameter it travels in
  PushPath,
  Lives,            \* what the live settings may hold
  Allows,           \* what the effective allowlist may hold
  Requests,         \* the requests clients make: [path, names, forged]
  Clients,
  MaxChanges,       \* bound: rewrites of the files
  MaxRequests       \* bound: requests

(* Finitely many credentials, the only ones the live settings name.        *)
ASSUME CredentialsAssumption ==
  /\ IsFiniteSet(Credentials)
  /\ \A l \in Lives : l.on \subseteq Credentials

VARIABLES
  live, allow,           \* the files
  seenLive, seenAllow,   \* what the proxy has read of them
  conn,                  \* client -> its connection
  changes, requests

vars == <<live, allow, seenLive, seenAllow, conn, changes, requests>>

NoRequest == [path |-> "", names |-> {}, forged |-> FALSE]
NoConn ==
  [pc |-> "none", to |-> CHOOSE t \in Targets : TRUE, build |-> FALSE, tracked |-> FALSE,
   answered |-> FALSE, dialed |-> FALSE, req |-> NoRequest, cred |-> {}, again |-> FALSE]

(* A malformed or missing file: no rules, the wall enforcing, nothing      *)
(* tunnelled, nothing granted.                                             *)
ClosedLive ==
  [deny |-> TRUE, on |-> {}, held |-> {}, overlaps |-> {}, pass |-> {}, push |-> {}]
ClosedAllow == [allow |-> {}, exact |-> {}, build |-> {}]

Init ==
  /\ live \in Lives /\ allow \in Allows
  /\ seenLive = live /\ seenAllow = allow
  /\ conn = [c \in Clients |-> NoConn]
  /\ changes = 0 /\ requests = 0

-----------------------------------------------------------------------------
(* The policy, as the proxy has read it: l the settings, a the allowlist.  *)
Injected(l) == {HostOf[k] : k \in l.on}
Held(l) == {HostOf[k] : k \in l.held}

Allowed(l, a, t) == (t \in Https /\ t \in Injected(l)) \/ t \in a.allow
ConnectOk(l, a, t) == (t \in Https /\ t \in Held(l) \cup l.overlaps) \/ Allowed(l, a, t)
BuildGranted(a, t) == t \in a.build
DialOk(l, a, t, build) == ~l.deny \/ Allowed(l, a, t) \/ (build /\ BuildGranted(a, t))

(* A local address only on a grant that names it.                          *)
IsLocal(t) == t \in Local
LocalOk(a, t, build) ==
  IsLocal(t) => t \in a.exact \/ (build /\ BuildGranted(a, t))

Tunnel(l, t, build) ==
  t \notin Injected(l) \cup Held(l) \cup l.overlaps /\ (build \/ t \in l.pass)

(* What a request is: it names another host than the one it is sent to, or *)
(* is half of a git push, or carries the placeholder of a credential.      *)
ClaimMismatch(r) == r.forged
IsGitPush(r) == r.path = PushPath
PushLifted(l, t) == t \in l.push
SendsMask(r, k) == k \in r.names

(* Which credential it gets (_matching, _stray, _rule_for).                *)
Covers(k, t, r) == HostOf[k] = t /\ r.path \in ScopeOf[k]
Matching(l, t, r) == {k \in l.on : t \in Https /\ Covers(k, t, r)}
Strays(l, t, r, k) ==
  {o \in (l.on \cup l.held) \ {k} :
     SendsMask(r, o) /\ HostOf[o] = t /\ PlaceOf[o] # PlaceOf[k]}

RuleFor(l, t, r) ==
  LET matching == Matching(l, t, r)
      named == {k \in matching : SendsMask(r, k)} IN
  IF Cardinality(matching) > 1 THEN IF Cardinality(named) = 1 THEN named ELSE {}
  ELSE {k \in matching : SendsMask(r, k) \/ Strays(l, t, r, k) = {}}

(* A switch at rest, or two that overlap: the proxy answers itself.        *)
AnsweredHeld(l, t, r) == \E k \in l.held : SendsMask(r, k) /\ t \in Https /\ Covers(k, t, r)
AnsweredOverlap(l, t) == t \in Https \cap l.overlaps

(* _on_request, in its order: what the proxy answers, or "send".           *)
Verdict(l, a, t, build, r) ==
  LET rule == RuleFor(l, t, r) IN
  IF ClaimMismatch(r) THEN "mismatch"
  ELSE IF IsGitPush(r) /\ ~PushLifted(l, t) THEN "push"
  ELSE IF rule = {} /\ AnsweredOverlap(l, t) THEN "overlap"
  ELSE IF rule = {} /\ AnsweredHeld(l, t, r) THEN "held"
  ELSE IF rule = {} /\ Matching(l, t, r) # {} THEN "misnamed"
  ELSE IF l.deny /\ ~Allowed(l, a, t) /\ ~(build /\ BuildGranted(a, t)) THEN "refused"
  ELSE "send"

-----------------------------------------------------------------------------
(* refresh and _sweep.                                                     *)
Closed == [NoConn EXCEPT !.pc = "closed"]

(* Mutant: only connections to hosts that are refused now are closed.      *)
Survives_Tunnels(c) ==
  ~conn[c].tracked \/ ~live.deny \/ ConnectOk(live, allow, conn[c].to)
    \/ (conn[c].build /\ BuildGranted(allow, conn[c].to))

Survives(c) ==
  \/ ~conn[c].tracked
  \/ /\ \/ ~live.deny
        \/ ConnectOk(live, allow, conn[c].to)
        \/ conn[c].build /\ BuildGranted(allow, conn[c].to)
     /\ conn[c].pc = "blind" => Tunnel(live, conn[c].to, conn[c].build)

Changed == seenLive # live \/ seenAllow # allow
Swept == IF Changed THEN [c \in Clients |-> IF Survives(c) THEN conn[c] ELSE Closed] ELSE conn

(* A hook on c's connection: the files are read, the connections swept,    *)
(* and what is left of c's becomes `after'.                                *)
Hook(c, after) ==
  /\ seenLive' = live /\ seenAllow' = allow
  /\ conn' = IF Survives(c) \/ ~Changed THEN [Swept EXCEPT ![c] = after] ELSE Swept
  /\ UNCHANGED <<live, allow, changes>>

(* _watch, once a second.                                                  *)
Watch ==
  /\ Changed
  /\ seenLive' = live /\ seenAllow' = allow /\ conn' = Swept
  /\ UNCHANGED <<live, allow, changes, requests>>

(* http_connect.  A build has no CA: it is refused at once, or tunnelled.  *)
Connect(c, t, build) ==
  /\ conn[c].pc = "none"
  /\ LET through == \/ ConnectOk(live, allow, t)
                    \/ build /\ BuildGranted(allow, t)
                    \/ ~live.deny
         new == [NoConn EXCEPT !.pc = "open", !.to = t, !.build = build] IN
     Hook(c,
       IF through
       THEN [new EXCEPT !.tracked = TRUE, !.answered = ~DialOk(live, allow, t, build)]
       ELSE IF t \in Https /\ ~build THEN [new EXCEPT !.answered = TRUE]
       ELSE Closed)
  /\ UNCHANGED requests

(* server_connect and the resolver's guard.  The handshake in a tunnel     *)
(* that the proxy answered goes on without an upstream.                    *)
MayDial(c) ==
  DialOk(live, allow, conn[c].to, conn[c].build) /\ LocalOk(allow, conn[c].to, conn[c].build)

Dial(c) ==
  /\ conn[c].pc \in {"open", "raw", "blind"} /\ ~conn[c].dialed
  /\ Hook(c,
       IF MayDial(c) THEN [conn[c] EXCEPT !.dialed = TRUE]
       ELSE IF conn[c].answered
                 /\ conn[c].pc # "raw" THEN conn[c]
            ELSE Closed)
  /\ UNCHANGED requests

(* tls_clienthello: blind, or decrypted with our certificate, ...          *)
Hello(c) ==
  /\ conn[c].pc = "open" /\ conn[c].to \in Https
  /\ Hook(c, [conn[c] EXCEPT !.pc = IF ~conn[c].answered /\ Tunnel(live, conn[c].to, conn[c].build)
                                    THEN "blind" ELSE "decrypted"])
  /\ UNCHANGED requests

(* ... or a client that speaks something else through its tunnel: relayed, *)
(* once there is an upstream.                                              *)
SpeaksRaw(c) ==
  /\ conn[c].pc = "open"
  /\ conn' = [conn EXCEPT ![c].pc = "raw"]
  /\ UNCHANGED <<live, allow, seenLive, seenAllow, changes, requests>>

-----------------------------------------------------------------------------
(* A request that is judged: answered here, sent, or kept waiting for the  *)
(* mint of the credential it is to carry.                                  *)
Judged(c, r) ==
  LET verdict == Verdict(live, allow, conn[c].to, conn[c].build, r)
      rule == RuleFor(live, conn[c].to, r) IN
  IF verdict # "send" THEN [conn[c] EXCEPT !.pc = "decrypted", !.req = NoRequest, !.cred = {}]
  ELSE IF rule # {} THEN [conn[c] EXCEPT !.pc = "minting", !.req = r, !.cred = rule]
  ELSE [conn[c] EXCEPT !.pc = "sending", !.req = r, !.cred = {}]

Request(c) ==
  /\ conn[c].pc = "decrypted" /\ requests < MaxRequests
  /\ requests' = requests + 1
  /\ \E r \in Requests : Hook(c, Judged(c, r))

(* Mutant: a credential that was minted is used.                           *)
Mint_Unchecked(c, minted) ==
  /\ conn[c].pc = "minting"
  /\ Hook(c, IF minted THEN [conn[c] EXCEPT !.pc = "sending"]
             ELSE [conn[c] EXCEPT !.pc = "decrypted", !.req = NoRequest, !.cred = {}])
  /\ UNCHANGED requests

(* The mint is over (atoken).  If the rule has gone meanwhile the request  *)
(* is judged again; if the mint failed it is answered.                     *)
Mint(c, minted) ==
  /\ conn[c].pc = "minting"
  /\ Hook(c, IF RuleFor(live, conn[c].to, conn[c].req) # conn[c].cred
             THEN Judged(c, conn[c].req)
             ELSE IF minted THEN [conn[c] EXCEPT !.pc = "sending"]
             ELSE [conn[c] EXCEPT !.pc = "decrypted", !.req = NoRequest, !.cred = {}])
  /\ UNCHANGED requests

(* What is sent goes out on the upstream connection, dialled now if need   *)
(* be.                                                                     *)
Forward(c) ==
  /\ conn[c].pc = "sending"
  /\ IF conn[c].dialed
     THEN /\ conn' = [conn EXCEPT ![c].pc = "sent"]
          /\ UNCHANGED <<live, allow, seenLive, seenAllow, changes>>
     ELSE Hook(c, IF MayDial(c) THEN [conn[c] EXCEPT !.pc = "sent", !.dialed = TRUE]
                  ELSE Closed)
  /\ UNCHANGED requests

Over(c) ==
  [conn[c] EXCEPT !.pc = "decrypted", !.req = NoRequest, !.cred = {}, !.again = FALSE]

Answer(c) ==
  /\ conn[c].pc = "sent"
  /\ Hook(c, Over(c))
  /\ UNCHANGED requests

(* A 401 to a request with a credential is re-issued once, by a request of *)
(* the proxy's own, if the rule is there before and after the second mint. *)
StillIts(c) == RuleFor(live, conn[c].to, conn[c].req) = conn[c].cred

Refused(c) ==
  /\ conn[c].pc = "sent" /\ conn[c].cred # {} /\ ~conn[c].again
  /\ Hook(c, IF StillIts(c) THEN [conn[c] EXCEPT !.pc = "reminting"] ELSE Over(c))
  /\ UNCHANGED requests

Reissue(c, minted) ==
  /\ conn[c].pc = "reminting"
  /\ Hook(c, IF StillIts(c) /\ minted THEN [conn[c] EXCEPT !.pc = "sent", !.again = TRUE]
             ELSE Over(c))
  /\ UNCHANGED requests

Disconnect(c) ==
  /\ conn[c].pc \notin {"none", "closed"}
  /\ conn' = [conn EXCEPT ![c] = Closed]
  /\ UNCHANGED <<live, allow, seenLive, seenAllow, changes, requests>>

-----------------------------------------------------------------------------
(* The host rewrites one of the files.                                     *)
Rewrite ==
  /\ changes < MaxChanges
  /\ changes' = changes + 1
  /\ \/ live' \in (Lives \cup {ClosedLive}) \ {live} /\ UNCHANGED allow
     \/ allow' \in (Allows \cup {ClosedAllow}) \ {allow} /\ UNCHANGED live
  /\ UNCHANGED <<seenLive, seenAllow, conn, requests>>

Next ==
  \/ Rewrite \/ Watch
  \/ \E c \in Clients :
       \/ \E t \in Targets, build \in BOOLEAN : Connect(c, t, build)
       \/ Dial(c) \/ Hello(c) \/ SpeaksRaw(c)
       \/ Request(c) \/ Forward(c) \/ Answer(c) \/ Refused(c)
       \/ \E minted \in BOOLEAN : Mint(c, minted) \/ Reissue(c, minted)
       \/ Disconnect(c)

Spec == Init /\ [][Next]_vars

-----------------------------------------------------------------------------
(* A connection let through stays open only while the policy the proxy has *)
(* read would let it through, and stays blind only while it would tunnel   *)
(* it: a narrowing reaches idle tunnels too (refresh).                     *)
TunnelsFollowPolicy ==
  \A c \in Clients : conn[c].tracked =>
    /\ \/ ~seenLive.deny \/ ConnectOk(seenLive, seenAllow, conn[c].to)
       \/ conn[c].build /\ BuildGranted(seenAllow, conn[c].to)
    /\ conn[c].pc = "blind" => Tunnel(seenLive, conn[c].to, conn[c].build)

(* The same of every connection that relays bytes the proxy cannot read.   *)
NarrowingReachesRaw ==
  \A c \in Clients :
    conn[c].pc \in {"raw", "blind"} /\ conn[c].dialed =>
      DialOk(seenLive, seenAllow, conn[c].to, conn[c].build)

(* A request leaves with a credential only when its switch is on at that   *)
(* moment, as the proxy knows, and only the one the request named or, if   *)
(* it named none of that host, the only one there -- though the policy may *)
(* have changed any number of times while it was minted.                   *)
OnlyItsCredential ==
  [][\A c \in Clients :
       conn[c].pc \in {"minting", "reminting"} /\ conn'[c].pc \in {"sending", "sent"} =>
       \A k \in conn'[c].cred :
         /\ k \in seenLive'.on /\ HostOf[k] = conn[c].to
         /\ SendsMask(conn[c].req, k) \/ Matching(seenLive', conn[c].to, conn[c].req) = {k}]_vars
=============================================================================
