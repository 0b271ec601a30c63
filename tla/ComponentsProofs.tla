-------------------------- MODULE ComponentsProofs --------------------------
(***************************************************************************)
(* Proofs about the egress proxy and the smaller components, each for any  *)
(* values of its constants.  About module EgressWall: a connection stays   *)
(* open only while the policy lets it through, and a request leaves with   *)
(* no credential but its own.  About MintedToken: whoever asks again after *)
(* a refusal gets another token than the refused one.  About ImageStore:   *)
(* `fy nuke` sweeps no layer a container or another stack needs.  About    *)
(* BoxUp: an up that says nothing is of the box its definition asks for.   *)
(* About Checkouts: boxes mask every other checkout, and removals keep     *)
(* the work.  About StackVerbs: a verb nothing else happened to does what  *)
(* it is for.  About GitIndex: no heal drops work that only an index holds.*)
(***************************************************************************)
EXTENDS MCComponents, FiniteSetTheorems, SequenceTheorems, NaturalsInduction,
        WellFoundedInduction, TLAPS

Conns ==
  [pc : {"none", "open", "raw", "blind", "decrypted", "minting", "reminting", "sending",
         "sent", "closed"},
   to : Targets \cup {NoConn.to}, build : BOOLEAN, tracked : BOOLEAN,
   answered : BOOLEAN, dialed : BOOLEAN, req : Requests \cup {NoRequest},
   cred : SUBSET Credentials, again : BOOLEAN]

TypeOK ==
  /\ live \in Lives \cup {ClosedLive} /\ seenLive \in Lives \cup {ClosedLive}
  /\ conn \in [Clients -> Conns]

(* The policy (l, a) lets connection k be as it is.                        *)
Follows(l, a, k) ==
  k.tracked =>
    /\ ~l.deny \/ ConnectOk(l, a, k.to) \/ (k.build /\ BuildGranted(a, k.to))
    /\ k.pc = "blind" => Tunnel(l, k.to, k.build)

Inv == TypeOK /\ \A c \in Clients : Follows(seenLive, seenAllow, conn[c])

-----------------------------------------------------------------------------
(* The rule for a request is one of a switch that is on, of the request's  *)
(* host, and either the one it named or the only one.                      *)
LEMMA RuleIsItsOwn ==
  ASSUME NEW l \in Lives \cup {ClosedLive}, NEW t, NEW r,
         NEW k \in RuleFor(l, t, r)
  PROVE  /\ k \in l.on /\ k \in Credentials /\ HostOf[k] = t
         /\ SendsMask(r, k) \/ Matching(l, t, r) = {k}
<1> DEFINE matching == Matching(l, t, r)
<1>1. k \in matching
  BY DEF RuleFor
<1>2. l.on \subseteq Credentials
  BY CredentialsAssumption DEF ClosedLive
<1>3. k \in l.on /\ k \in Credentials /\ HostOf[k] = t
  BY <1>1, <1>2 DEF Matching, Covers
<1>4. ASSUME ~SendsMask(r, k) PROVE matching = {k}
  <2>1. ~(Cardinality(matching) > 1)
    BY <1>4 DEF RuleFor
  <2>2. matching \subseteq Credentials
    BY <1>2 DEF Matching
  <2>3. IsFiniteSet(matching)
    BY <2>2, FS_Subset, CredentialsAssumption
  <2>4. {k} \subseteq matching /\ IsFiniteSet({k}) /\ Cardinality({k}) = 1
    BY <1>1, FS_Singleton
  <2>5. Cardinality(matching) \in Nat /\ Cardinality({k}) <= Cardinality(matching)
    BY <2>3, <2>4, FS_Subset, FS_CardinalityType
  <2>6. Cardinality(matching) = Cardinality({k})
    BY <2>1, <2>4, <2>5
  <2> HIDE DEF matching
  <2> QED
    BY <2>3, <2>4, <2>6, FS_Subset
<1> QED
  BY <1>3, <1>4

LEMMA RuleType ==
  ASSUME NEW l \in Lives \cup {ClosedLive}, NEW t, NEW r
  PROVE  RuleFor(l, t, r) \in SUBSET Credentials
BY RuleIsItsOwn

LEMMA NoConnType == NoConn \in Conns /\ Closed \in Conns /\ ~NoConn.tracked /\ ~Closed.tracked
BY DEF NoConn, Closed, Conns

LEMMA SweptType == ASSUME Inv PROVE Swept \in [Clients -> Conns]
BY NoConnType DEF Inv, TypeOK, Swept

(* What the sweep leaves of any connection is what the files now allow.    *)
LEMMA SweepFollows ==
  ASSUME Inv, NEW c \in Clients
  PROVE  /\ Survives(c) \/ ~Changed => Follows(live, allow, conn[c])
         /\ Follows(live, allow, Swept[c])
<1> USE NoConnType DEF Inv, TypeOK
<1>1. Survives(c) \/ ~Changed => Follows(live, allow, conn[c])
  BY DEF Survives, Changed, Follows
<1>2. Follows(live, allow, Swept[c])
  BY <1>1 DEF Swept, Follows
<1> QED
  BY <1>1, <1>2

(* A hook keeps the invariant if what it makes of its own connection is    *)
(* what the files allow.                                                   *)
LEMMA HookKeeps ==
  ASSUME Inv, NEW c \in Clients, NEW after, Hook(c, after),
         Survives(c) \/ ~Changed => after \in Conns /\ Follows(live, allow, after)
  PROVE  Inv'
<1>1. TypeOK'
  BY SweptType DEF Hook, Inv, TypeOK
<1>2. ASSUME NEW d \in Clients PROVE Follows(live, allow, conn'[d])
  BY SweptType, SweepFollows DEF Hook
<1>3. seenLive' = live /\ seenAllow' = allow
  BY DEF Hook
<1> QED
  BY <1>1, <1>2, <1>3 DEF Inv, Follows

-----------------------------------------------------------------------------
(* The actions.                                                            *)
LEMMA ConnectInv ==
  ASSUME Inv, NEW c \in Clients, NEW t \in Targets, NEW build \in BOOLEAN, Connect(c, t, build)
  PROVE  Inv'
<1> DEFINE through == \/ ConnectOk(live, allow, t)
                      \/ build /\ BuildGranted(allow, t)
                      \/ ~live.deny
           new == [NoConn EXCEPT !.pc = "open", !.to = t, !.build = build]
           after == IF through
                    THEN [new EXCEPT !.tracked = TRUE, !.answered = ~DialOk(live, allow, t, build)]
                    ELSE IF t \in Https /\ ~build THEN [new EXCEPT !.answered = TRUE]
                    ELSE Closed
<1>1. Hook(c, after)
  BY DEF Connect
<1>2. new \in Conns /\ new.pc = "open" /\ new.to = t /\ new.build = build /\ ~new.tracked
  BY NoConnType DEF Conns
<1>3. DialOk(live, allow, t, build) \in BOOLEAN
  BY DEF DialOk
<1>4. after \in Conns /\ Follows(live, allow, after)
  <2> HIDE DEF new
  <2>1. CASE through
    <3>1. after = [new EXCEPT !.tracked = TRUE, !.answered = ~DialOk(live, allow, t, build)]
      BY <2>1
    <3>2. after \in Conns /\ after.pc = "open" /\ after.to = t /\ after.build = build
      BY <3>1, <1>2, <1>3 DEF Conns
    <3> QED
      BY <3>2, <2>1 DEF Follows
  <2>2. CASE ~through
    BY <1>2, <2>2, NoConnType DEF Conns, Follows
  <2> QED
    BY <2>1, <2>2
<1> HIDE DEF after
<1> QED
  BY <1>1, <1>4, HookKeeps

(* Another place, dial or request for a connection that the policy lets be *)
(* is let be.                                                              *)
LEMMA DialInv ==
  ASSUME Inv, NEW c \in Clients, Dial(c) PROVE Inv'
<1> DEFINE after == IF MayDial(c) THEN [conn[c] EXCEPT !.dialed = TRUE]
                    ELSE IF conn[c].answered /\ conn[c].pc # "raw" THEN conn[c]
                    ELSE Closed
<1>1. Hook(c, after)
  BY DEF Dial
<1>2. conn[c] \in Conns
  BY DEF Inv, TypeOK
<1>3. after \in Conns /\ (Follows(live, allow, conn[c]) => Follows(live, allow, after))
  <2>1. CASE after = [conn[c] EXCEPT !.dialed = TRUE]
    <3>1. after \in Conns /\ after.tracked = conn[c].tracked /\ after.pc = conn[c].pc
          /\ after.to = conn[c].to /\ after.build = conn[c].build
      BY <1>2, <2>1 DEF Conns
    <3> QED
      BY <3>1 DEF Follows
  <2>2. CASE after = conn[c]
    BY <1>2, <2>2
  <2>3. CASE after = Closed
    BY <2>3, NoConnType DEF Follows
  <2> QED
    BY <2>1, <2>2, <2>3
<1> HIDE DEF after
<1> QED
  BY <1>1, <1>3, SweepFollows, HookKeeps

LEMMA HelloInv ==
  ASSUME Inv, NEW c \in Clients, Hello(c) PROVE Inv'
<1> DEFINE after == [conn[c] EXCEPT !.pc = IF ~conn[c].answered
                                                /\ Tunnel(live, conn[c].to, conn[c].build)
                                           THEN "blind" ELSE "decrypted"]
<1>1. Hook(c, after)
  BY DEF Hello
<1>2. conn[c] \in Conns
  BY DEF Inv, TypeOK
<1>3. after \in Conns /\ (Follows(live, allow, conn[c]) => Follows(live, allow, after))
  BY <1>2 DEF Conns, Follows
<1> HIDE DEF after
<1> QED
  BY <1>1, <1>3, SweepFollows, HookKeeps

(* A connection made of another by a step that neither tunnels it nor      *)
(* sends it elsewhere.                                                     *)
Alike(k, j) ==
  /\ j \in Conns
  /\ j.tracked => k.tracked /\ j.to = k.to /\ j.build = k.build /\ j.pc # "blind"

LEMMA AlikeFollows ==
  ASSUME NEW l, NEW a, NEW k, NEW j, Alike(k, j), Follows(l, a, k)
  PROVE  Follows(l, a, j)
BY DEF Alike, Follows

LEMMA AlikeInv ==
  ASSUME Inv, NEW c \in Clients, NEW after, Hook(c, after), Alike(conn[c], after)
  PROVE  Inv'
BY SweepFollows, AlikeFollows, HookKeeps DEF Alike

LEMMA OverAlike ==
  ASSUME Inv, NEW c \in Clients PROVE Alike(conn[c], Over(c))
<1>1. conn[c] \in Conns
  BY DEF Inv, TypeOK
<1>2. {} \in SUBSET Credentials /\ NoRequest \in Requests \cup {NoRequest}
  OBVIOUS
<1> QED
  BY <1>1, <1>2 DEF Conns, Over, Alike

LEMMA JudgedAlike ==
  ASSUME Inv, NEW c \in Clients, NEW r \in Requests \cup {NoRequest}
  PROVE  Alike(conn[c], Judged(c, r))
<1>1. RuleFor(live, conn[c].to, r) \in SUBSET Credentials
  BY RuleType DEF Inv, TypeOK
<1> DEFINE rule == RuleFor(live, conn[c].to, r)
<1>2. conn[c] \in Conns
  BY DEF Inv, TypeOK
<1>3. /\ Alike(conn[c], [conn[c] EXCEPT !.pc = "decrypted", !.req = NoRequest, !.cred = {}])
      /\ Alike(conn[c], [conn[c] EXCEPT !.pc = "minting", !.req = r, !.cred = rule])
      /\ Alike(conn[c], [conn[c] EXCEPT !.pc = "sending", !.req = r, !.cred = {}])
  <2> HIDE DEF rule
  <2> QED
    BY <1>1, <1>2 DEF Conns, Alike, rule
<1> QED
  BY <1>3 DEF Judged

LEMMA RequestInv ==
  ASSUME Inv, NEW c \in Clients, Request(c) PROVE Inv'
BY JudgedAlike, AlikeInv DEF Request

LEMMA MintInv ==
  ASSUME Inv, NEW c \in Clients, NEW minted, Mint(c, minted) PROVE Inv'
<1>1. conn[c] \in Conns /\ conn[c].req \in Requests \cup {NoRequest}
  BY DEF Inv, TypeOK, Conns
<1>2. /\ Alike(conn[c], Judged(c, conn[c].req))
      /\ Alike(conn[c], [conn[c] EXCEPT !.pc = "sending"])
      /\ Alike(conn[c], [conn[c] EXCEPT !.pc = "decrypted", !.req = NoRequest, !.cred = {}])
  BY <1>1, JudgedAlike DEF Conns, Alike
<1> QED
  BY <1>2, AlikeInv DEF Mint

LEMMA ForwardInv ==
  ASSUME Inv, NEW c \in Clients, Forward(c) PROVE Inv'
<1>1. conn[c] \in Conns
  BY DEF Inv, TypeOK
<1>2. /\ Alike(conn[c], [conn[c] EXCEPT !.pc = "sent"])
      /\ Alike(conn[c], [conn[c] EXCEPT !.pc = "sent", !.dialed = TRUE])
      /\ Alike(conn[c], Closed)
  BY <1>1, NoConnType DEF Conns, Alike
<1>3. CASE conn[c].dialed
  <2>1. conn' = [conn EXCEPT ![c] = [conn[c] EXCEPT !.pc = "sent"]]
        /\ UNCHANGED <<live, seenLive, seenAllow>>
    BY <1>3 DEF Forward
  <2> QED
    BY <2>1, <1>2, AlikeFollows DEF Inv, TypeOK, Alike
<1>4. CASE ~conn[c].dialed
  BY <1>2, <1>4, AlikeInv DEF Forward
<1> QED
  BY <1>3, <1>4

LEMMA AnswersInv ==
  ASSUME Inv, NEW c \in Clients, NEW minted,
         Answer(c) \/ Refused(c) \/ Reissue(c, minted)
  PROVE  Inv'
<1>1. conn[c] \in Conns
  BY DEF Inv, TypeOK
<1>2. /\ Alike(conn[c], [conn[c] EXCEPT !.pc = "reminting"])
      /\ Alike(conn[c], [conn[c] EXCEPT !.pc = "sent", !.again = TRUE])
      /\ Alike(conn[c], Over(c))
  BY <1>1, OverAlike DEF Conns, Alike
<1>3. CASE Answer(c)
  BY <1>2, <1>3, AlikeInv DEF Answer
<1>4. CASE Refused(c)
  BY <1>2, <1>4, AlikeInv DEF Refused
<1>5. CASE Reissue(c, minted)
  BY <1>2, <1>5, AlikeInv DEF Reissue
<1> QED
  BY <1>3, <1>4, <1>5

(* The steps that run no hook, and the watcher.                            *)
LEMMA UnhookedInv ==
  ASSUME Inv, NEW c \in Clients, SpeaksRaw(c) \/ Disconnect(c)
  PROVE  Inv'
<1>1. conn[c] \in Conns
  BY DEF Inv, TypeOK
<1>2. /\ Alike(conn[c], [conn[c] EXCEPT !.pc = "raw"])
      /\ Alike(conn[c], Closed)
  BY <1>1, NoConnType DEF Conns, Alike
<1>3. PICK after : /\ conn' = [conn EXCEPT ![c] = after] /\ Alike(conn[c], after)
                   /\ UNCHANGED <<live, seenLive, seenAllow>>
  BY <1>2 DEF SpeaksRaw, Disconnect
<1> QED
  BY <1>3, AlikeFollows DEF Inv, TypeOK, Alike

LEMMA FilesInv ==
  ASSUME Inv, Rewrite \/ Watch PROVE Inv'
<1>1. CASE Rewrite
  BY <1>1 DEF Rewrite, Inv, TypeOK, Follows
<1>2. CASE Watch
  <2>1. seenLive' = live /\ seenAllow' = allow /\ conn' = Swept /\ live' = live
    BY <1>2 DEF Watch
  <2>2. TypeOK'
    BY <2>1, SweptType DEF Inv, TypeOK
  <2>3. \A c \in Clients : Follows(live, allow, conn'[c])
    BY <2>1, SweepFollows
  <2> QED
    BY <2>1, <2>2, <2>3 DEF Inv, Follows
<1> QED
  BY <1>1, <1>2

LEMMA InitInv == Init => Inv
BY NoConnType DEF Init, Inv, TypeOK, Follows

LEMMA NextInv ==
  ASSUME Inv, [Next]_vars PROVE Inv'
<1>1. CASE UNCHANGED vars
  BY <1>1 DEF vars, Inv, TypeOK, Follows
<1>2. CASE Rewrite \/ Watch
  BY <1>2, FilesInv
<1>3. ASSUME NEW c \in Clients,
             \/ \E t \in Targets, build \in BOOLEAN : Connect(c, t, build)
             \/ Dial(c) \/ Hello(c) \/ SpeaksRaw(c)
             \/ Request(c) \/ Forward(c) \/ Answer(c) \/ Refused(c)
             \/ \E minted \in BOOLEAN : Mint(c, minted) \/ Reissue(c, minted)
             \/ Disconnect(c)
      PROVE Inv'
  BY <1>3, ConnectInv, DialInv, HelloInv, UnhookedInv, RequestInv, ForwardInv, AnswersInv, MintInv
<1> QED
  BY <1>1, <1>2, <1>3 DEF Next

-----------------------------------------------------------------------------
(* A narrowing of the policy reaches every connection it lets no longer    *)
(* be, with the first hook or the next look at the files (refresh).        *)
THEOREM NarrowingClosesTunnels == Spec => []TunnelsFollowPolicy
<1>1. Inv /\ [Next]_vars => Inv'
  BY NextInv
<1>2. Inv => TunnelsFollowPolicy
  BY DEF Inv, Follows, TunnelsFollowPolicy
<1> QED
  BY InitInv, <1>1, <1>2, PTL DEF Spec

-----------------------------------------------------------------------------
(* A hook leaves every other connection as it is, or closes it.            *)
LEMMA HookOnItsOwn ==
  ASSUME Inv, NEW c \in Clients, NEW after, Hook(c, after), NEW d \in Clients
  PROVE  conn'[d] = conn[d] \/ conn'[d] = Closed \/ (d = c /\ conn'[d] = after)
<1>1. Swept \in [Clients -> Conns] /\ (Swept[d] = conn[d] \/ Swept[d] = Closed)
  BY SweptType DEF Swept
<1>2. conn' = Swept \/ conn' = [Swept EXCEPT ![c] = after]
  BY DEF Hook
<1> QED
  BY <1>1, <1>2

Leaves(d) ==
  conn[d].pc \in {"minting", "reminting"} /\ conn'[d].pc \in {"sending", "sent"}

Its(d, k) ==
  /\ k \in seenLive'.on /\ HostOf[k] = conn[d].to
  /\ SendsMask(conn[d].req, k) \/ Matching(seenLive', conn[d].to, conn[d].req) = {k}

(* A request leaves by its own mint or its own re-issue, ...               *)
LEMMA LeavesAfterMint ==
  ASSUME Inv, Next, NEW d \in Clients, Leaves(d)
  PROVE  \E minted \in BOOLEAN : Mint(d, minted) \/ Reissue(d, minted)
<1>1. Closed.pc = "closed"
  BY DEF Closed, NoConn
<1>2. conn'[d] # conn[d] /\ conn'[d] # Closed
  BY <1>1 DEF Leaves
<1>3. ~(Rewrite \/ Watch)
  <2>1. ~Rewrite
    BY <1>2 DEF Rewrite
  <2>2. ASSUME Watch PROVE FALSE
    BY <1>2, <2>2 DEF Watch, Swept, Inv, TypeOK
  <2> QED
    BY <2>1, <2>2
<1>4. PICK c \in Clients :
             \/ \E t \in Targets, build \in BOOLEAN : Connect(c, t, build)
             \/ Dial(c) \/ Hello(c) \/ SpeaksRaw(c)
             \/ Request(c) \/ Forward(c) \/ Answer(c) \/ Refused(c)
             \/ \E minted \in BOOLEAN : Mint(c, minted) \/ Reissue(c, minted)
             \/ Disconnect(c)
  BY <1>3 DEF Next
<1>5. c = d
  <2>1. CASE \E after : Hook(c, after)
    BY <2>1, <1>2, HookOnItsOwn
  <2>2. CASE \E after : conn' = [conn EXCEPT ![c] = after]
    BY <2>2, <1>2 DEF Inv, TypeOK
  <2> QED
    BY <1>4, <2>1, <2>2
       DEF Connect, Dial, Hello, SpeaksRaw, Request, Forward, Answer, Refused, Mint, Reissue,
           Disconnect
<1>6. ~Disconnect(c)
  BY <1>2, <1>5 DEF Disconnect, Inv, TypeOK
<1> QED
  BY <1>4, <1>5, <1>6
     DEF Leaves, Connect, Dial, Hello, SpeaksRaw, Request, Forward, Answer, Refused

(* ... with the credentials that the rule for it, as the files are then,   *)
(* names.                                                                  *)
LEMMA LeavesByItsRule ==
  ASSUME Inv, NEW d \in Clients, NEW minted, Mint(d, minted) \/ Reissue(d, minted), Leaves(d)
  PROVE  /\ seenLive' = live
         /\ conn'[d].cred \subseteq RuleFor(live, conn[d].to, conn[d].req)
<1>1. conn[d] \in Conns /\ Closed.pc = "closed"
  BY DEF Inv, TypeOK, Closed, NoConn
<1>2. ASSUME NEW after, Hook(d, after) PROVE seenLive' = live /\ conn'[d] = after
  <2>1. conn'[d] # conn[d] /\ conn'[d] # Closed
    BY <1>1 DEF Leaves
  <2> QED
    BY <1>2, <2>1, HookOnItsOwn DEF Hook
<1> DEFINE rule == RuleFor(live, conn[d].to, conn[d].req)
<1>3. CASE Mint(d, minted)
  <2>1. Judged(d, conn[d].req).pc \in {"sending", "sent"} => Judged(d, conn[d].req).cred = {}
    <3>1. /\ [conn[d] EXCEPT !.pc = "decrypted", !.req = NoRequest, !.cred = {}].cred = {}
          /\ [conn[d] EXCEPT !.pc = "sending", !.req = conn[d].req, !.cred = {}].cred = {}
      BY <1>1 DEF Conns
    <3>2. [conn[d] EXCEPT !.pc = "minting", !.req = conn[d].req, !.cred = rule].pc = "minting"
      <4> HIDE DEF rule
      <4> QED
        BY <1>1 DEF Conns
    <3> QED
      BY <3>1, <3>2 DEF Judged
  <2>2. [conn[d] EXCEPT !.pc = "sending"].cred = conn[d].cred
    BY <1>1 DEF Conns
  <2>3. [conn[d] EXCEPT !.pc = "decrypted", !.req = NoRequest, !.cred = {}].cred = {}
    BY <1>1 DEF Conns
  <2>4. conn'[d] = (IF rule # conn[d].cred THEN Judged(d, conn[d].req)
                    ELSE IF minted THEN [conn[d] EXCEPT !.pc = "sending"]
                    ELSE [conn[d] EXCEPT !.pc = "decrypted", !.req = NoRequest, !.cred = {}])
        /\ seenLive' = live
    BY <1>2, <1>3 DEF Mint
  <2> HIDE DEF rule
  <2>5. conn'[d].cred \subseteq rule
    BY <2>1, <2>2, <2>3, <2>4 DEF Leaves
  <2> QED
    BY <2>4, <2>5 DEF rule
<1>4. CASE Reissue(d, minted)
  <2>1. [conn[d] EXCEPT !.pc = "sent", !.again = TRUE].cred = conn[d].cred
    BY <1>1 DEF Conns
  <2>2. Over(d).cred = {}
    BY <1>1 DEF Over, Conns
  <2>3. conn'[d] = (IF StillIts(d) /\ minted THEN [conn[d] EXCEPT !.pc = "sent", !.again = TRUE]
                    ELSE Over(d))
        /\ seenLive' = live
    BY <1>2, <1>4 DEF Reissue
  <2> QED
    BY <2>1, <2>2, <2>3 DEF StillIts
<1> QED
  BY <1>3, <1>4

(* No request ever leaves with a credential whose switch is off by then,   *)
(* that is for another host, or that it did not mean, although the policy  *)
(* may change while its token is minted (_on_request, _inject).            *)
THEOREM NoStraysLeave == Spec => OnlyItsCredential
<1>1. Inv /\ [Next]_vars => Inv'
  BY NextInv
<1>2. ASSUME Inv, [Next]_vars, NEW d \in Clients, Leaves(d), NEW k \in conn'[d].cred
      PROVE Its(d, k)
  <2>1. CASE UNCHANGED vars
    BY <1>2, <2>1 DEF vars, Leaves
  <2>2. CASE Next
    <3>1. seenLive' = live /\ k \in RuleFor(live, conn[d].to, conn[d].req)
      BY <1>2, <2>2, LeavesAfterMint, LeavesByItsRule
    <3> QED
      BY <1>2, <3>1, RuleIsItsOwn DEF Its, Inv, TypeOK
  <2> QED
    BY <1>2, <2>1, <2>2
<1>3. Inv /\ [Next]_vars =>
        [\A c \in Clients :
           conn[c].pc \in {"minting", "reminting"} /\ conn'[c].pc \in {"sending", "sent"} =>
           \A k \in conn'[c].cred :
             /\ k \in seenLive'.on /\ HostOf[k] = conn[c].to
             /\ SendsMask(conn[c].req, k) \/ Matching(seenLive', conn[c].to, conn[c].req) = {k}]_vars
  BY <1>2 DEF Leaves, Its
<1> QED
  BY InitInv, <1>1, <1>3, PTL DEF Spec, OnlyItsCredential

-----------------------------------------------------------------------------
(* The minting of a credential.                                            *)
CallRecs == [id : Nat \ {0}, force : BOOLEAN, pc : {"lock", "mint"}]
AskRecs ==
  [pc : {"idle", "share", "await", "letLand", "have", "sent", "answered"}, force : BOOLEAN,
   token : Int, refused : Nat, on : Nat]

(* A token that a minter has printed, and none that is being printed.      *)
Issued(token, n, printing) == token \in Nat /\ token <= n /\ (printing # 0 => token < n)
Printed(token) == Issued(token, mints, holder)

CallsAreApart ==
  /\ mints \in Nat /\ flight \in Nat
  /\ calls \subseteq CallRecs /\ IsFiniteSet(calls)
  /\ \A c, d \in calls : c.id = d.id => c = d
  /\ \A c \in calls : c.pc = "mint" => holder = c.id

TokensArePrinted ==
  /\ revoked \subseteq Nat
  /\ Printed(cache.value)
  /\ request \in [Askers -> AskRecs]
  /\ \A r \in Askers :
       /\ request[r].token = Token!Failed \/ Printed(request[r].token)
       /\ Printed(request[r].refused)

(* Who was refused awaits only a call that mints.                          *)
RefusedForces ==
  \A r \in Askers :
    /\ Token!Refused(r) => request[r].force /\ request[r].pc # "idle"
    /\ request[r].pc = "await" =>
         \E c \in calls : c.id = request[r].on /\ (request[r].force => c.force)

TokenInv == CallsAreApart /\ TokensArePrinted /\ RefusedForces /\ ReissuedWithAnother

LEMMA FreshCall ==
  ASSUME CallsAreApart
  PROVE  \E i \in 1..(Token!Cardinality(calls) + 1) : ~Token!Running(i)
<1>0. Token!Cardinality(calls) = Cardinality(calls)
  BY DEF Token!Cardinality, Cardinality
<1> DEFINE ids == 1..(Cardinality(calls) + 1)
<1>1. Cardinality(calls) \in Nat /\ IsFiniteSet(calls)
  BY FS_CardinalityType DEF CallsAreApart
<1>2. IsFiniteSet(ids) /\ Cardinality(ids) = Cardinality(calls) + 1
  BY <1>1, FS_Interval
<1> SUFFICES ASSUME \A i \in ids : Token!Running(i) PROVE FALSE
  BY <1>0
<1> DEFINE f == [i \in ids |-> CHOOSE c \in calls : c.id = i]
<1>3. \A i \in ids : f[i] \in calls /\ f[i].id = i
  BY DEF Token!Running
<1>4. f \in [ids -> calls]
  BY <1>3
<1> HIDE DEF f, ids
<1>5. \E i, j \in ids : i # j /\ f[i] = f[j]
  BY <1>1, <1>2, <1>4, FS_PigeonHole
<1> QED BY <1>3, <1>5

LEMMA Settles ==
  ASSUME TokenInv, NEW force \in BOOLEAN
  PROVE  /\ Token!Settled(force) = Token!Failed \/ Printed(Token!Settled(force))
         /\ Token!Settled(force) \in Int
         /\ force => Token!Settled(force) \in {Token!Failed, Token!NoToken}
         /\ Token!Cached(force) = Token!Failed \/ Printed(Token!Cached(force))
         /\ Token!Cached(force) \in Int
         /\ force => Token!Cached(force) \in {Token!Failed, Token!NoToken}
<1>1. Printed(cache.value) /\ Printed(0)
  BY DEF TokenInv, TokensArePrinted, CallsAreApart, Printed, Issued
<1>2. cache.value \in Int
  BY <1>1 DEF Printed, Issued
<1> QED
  BY <1>1, <1>2 DEF Token!Settled, Token!Cached, Token!Failed, Token!NoToken

(* A call ends, with a token that nobody was refused, or a failure.        *)
LEMMA Lands ==
  ASSUME TokenInv, NEW c \in calls, NEW answer \in Int, Token!Land(c, answer),
         mints' = mints, holder' = IF c.pc = "mint" THEN 0 ELSE holder,
         revoked' = revoked, Printed(cache.value)',
         answer = Token!Failed \/ Issued(answer, mints', holder'),
         c.force => \A r \in Askers : Token!Refused(r) => answer # request[r].refused
  PROVE  TokenInv'
<1>2. \A t : Printed(t) => Issued(t, mints', holder')
  <2>1. mints' = mints /\ (holder' = holder \/ holder' = 0)
    OBVIOUS
  <2> QED BY ONLY <2>1 DEF Printed, Issued
<1> USE DEF Token!Land
<1>0. /\ CallsAreApart /\ TokensArePrinted /\ RefusedForces /\ ReissuedWithAnother
      /\ ReissuedWithAnother = Token!ReissuedWithAnother
  BY DEF TokenInv, ReissuedWithAnother
<1>1. CallsAreApart'
  <2>1. IsFiniteSet(calls')
    BY <1>0, FS_RemoveElement DEF CallsAreApart
  <2>2. \A d \in calls' : d.pc = "mint" => holder' = d.id
    BY <1>0 DEF CallsAreApart, CallRecs
  <2> QED BY <1>0, <2>1, <2>2 DEF CallsAreApart
<1>3. \A r \in Askers :
        LET was == request[r] is == request'[r] IN
        \/ /\ was.pc = "await" /\ was.on = c.id
           /\ is = [was EXCEPT !.pc = "have", !.token = answer, !.on = 0]
        \/ /\ ~(was.pc = "await" /\ was.on = c.id)
           /\ is = [was EXCEPT !.pc = "share", !.on = 0]
        \/ /\ ~(was.pc = "await" /\ was.on = c.id)
           /\ is = was
  BY <1>0
<1>4. ASSUME NEW r \in Askers
      PROVE  /\ request'[r] \in AskRecs
             /\ request'[r].token = Token!Failed \/ Issued(request'[r].token, mints', holder')
             /\ Issued(request'[r].refused, mints', holder')
             /\ Token!Refused(r)' => request'[r].force /\ request'[r].pc # "idle"
             /\ request'[r].pc = "await" =>
                  \E d \in calls' : d.id = request'[r].on /\ (request'[r].force => d.force)
             /\ Token!Refused(r)' /\ request'[r].pc \in {"have", "sent"}
                  => request'[r].token # request'[r].refused
  <2> DEFINE was == request[r]
             is == request'[r]
  <2>0. /\ was \in AskRecs
        /\ was.token = Token!Failed \/ Printed(was.token)
        /\ Printed(was.refused)
        /\ was.refused # 0 => was.force /\ was.pc # "idle"
        /\ was.pc = "await" =>
             \E d \in calls : d.id = was.on /\ (was.force => d.force)
        /\ (was.refused # 0 /\ was.pc \in {"have", "sent"}) => was.token # was.refused
    BY <1>0 DEF TokensArePrinted, RefusedForces, ReissuedWithAnother,
                Token!ReissuedWithAnother, Token!Refused, Token!NoToken
  <2> SUFFICES /\ is \in AskRecs
               /\ is.token = Token!Failed \/ Issued(is.token, mints', holder')
               /\ Issued(is.refused, mints', holder')
               /\ is.refused # 0 => is.force /\ is.pc # "idle"
               /\ is.pc = "await" =>
                    \E d \in calls' : d.id = is.on /\ (is.force => d.force)
               /\ (is.refused # 0 /\ is.pc \in {"have", "sent"}) => is.token # is.refused
    BY DEF Token!Refused, Token!NoToken
  <2>1. CASE was.pc = "await" /\ was.on = c.id
             /\ is = [was EXCEPT !.pc = "have", !.token = answer, !.on = 0]
    <3>1. is \in AskRecs /\ is.pc = "have" /\ is.token = answer
          /\ is.refused = was.refused /\ is.force = was.force
      BY <2>0, <2>1 DEF AskRecs
    <3>2. was.force => c.force
      BY <1>0, <2>0, <2>1 DEF CallsAreApart
    <3>3. was.refused # 0 => answer # was.refused
      BY <2>0, <3>2 DEF Token!Refused, Token!NoToken
    <3> HIDE DEF was, is
    <3> QED BY <1>2, <2>0, <3>1, <3>3
  <2>2. CASE is = [was EXCEPT !.pc = "share", !.on = 0]
    <3>1. is \in AskRecs /\ is.pc = "share" /\ is.token = was.token
          /\ is.refused = was.refused /\ is.force = was.force
      BY <2>0, <2>2 DEF AskRecs
    <3> HIDE DEF was, is
    <3> QED BY <1>2, <2>0, <3>1
  <2>3. CASE ~(was.pc = "await" /\ was.on = c.id) /\ is = was
    <3>1. \A d \in calls : d.id # c.id => d \in calls'
      OBVIOUS
    <3> HIDE DEF was, is
    <3> QED BY <1>2, <2>0, <2>3, <3>1
  <2> QED BY <1>3, <2>1, <2>2, <2>3
<1>5. request' = [r \in Askers |-> request'[r]]
  OBVIOUS
<1>6. TokensArePrinted'
  BY <1>0, <1>4, <1>5 DEF TokensArePrinted, Printed
<1>7. RefusedForces' /\ ReissuedWithAnother'
  BY <1>4 DEF RefusedForces, ReissuedWithAnother, Token!ReissuedWithAnother
<1> QED BY <1>1, <1>6, <1>7 DEF TokenInv

(* One request moves, and nothing of the calls but one that begins.        *)
LEMMA Moves ==
  ASSUME TokenInv, NEW r \in Askers, NEW is \in AskRecs,
         request' = [request EXCEPT ![r] = is],
         mints' = mints, holder' = holder, revoked' = revoked, CallsAreApart',
         calls \subseteq calls', Printed(cache.value)',
         is.token = Token!Failed \/ Printed(is.token),
         Printed(is.refused),
         is.refused # 0 => is.force /\ is.pc # "idle",
         is.pc = "await" => \E c \in calls' : c.id = is.on /\ (is.force => c.force),
         is.refused # 0 /\ is.pc \in {"have", "sent"} => is.token # is.refused
  PROVE  TokenInv'
<1>1. \A t : Printed(t) => Issued(t, mints', holder')
  <2>1. mints' = mints /\ holder' = holder
    OBVIOUS
  <2> QED BY ONLY <2>1 DEF Printed, Issued
<1>2. request' \in [Askers -> AskRecs]
      /\ \A q \in Askers : request'[q] = IF q = r THEN is ELSE request[q]
  BY DEF TokenInv, TokensArePrinted
<1>3. TokensArePrinted'
  BY <1>1, <1>2 DEF TokenInv, TokensArePrinted, Printed
<1>4. RefusedForces'
  BY <1>2 DEF TokenInv, RefusedForces, Token!Refused, Token!NoToken
<1>5. ReissuedWithAnother'
  BY <1>2 DEF TokenInv, ReissuedWithAnother, Token!ReissuedWithAnother, Token!Refused,
              Token!NoToken
<1> QED BY <1>3, <1>4, <1>5 DEF TokenInv

LEMMA IdleRequest ==
  /\ Token!Idle \in AskRecs
  /\ Token!Idle.pc = "idle" /\ Token!Idle.token = 0 /\ Token!Idle.refused = 0
<1>1. Token!Idle = [pc |-> "idle", force |-> FALSE, token |-> 0, refused |-> 0, on |-> 0]
  BY DEF Token!Idle, Token!NoToken
<1> QED BY <1>1 DEF AskRecs

LEMMA TokenStep ==
  ASSUME TokenInv, [Token!Next]_(Token!vars)
  PROVE  TokenInv'
<1>0. CallsAreApart /\ TokensArePrinted /\ RefusedForces /\ ReissuedWithAnother
  BY DEF TokenInv
<1> USE DEF Token!Failed, Token!NoToken
<1>1. ASSUME NEW c \in calls, Token!TakeLock(c)
      PROVE  TokenInv'
  <2>1. /\ c.pc = "lock" /\ holder = 0 /\ c \in CallRecs
        /\ UNCHANGED <<cache, revoked>>
    BY <1>0, <1>1 DEF Token!TakeLock, CallsAreApart
  <2>2. CASE Token!Settled(c.force) # Token!NoToken
    <3>1. /\ Token!Land(c, Token!Settled(c.force))
          /\ holder' = holder /\ mints' = mints
      BY <1>1, <2>2 DEF Token!TakeLock
    <3>2. c.force \in BOOLEAN
      BY <2>1 DEF CallRecs
    <3>3. /\ Token!Settled(c.force) \in Int
          /\ Token!Settled(c.force) = -1 \/ Printed(Token!Settled(c.force))
          /\ c.force => Token!Settled(c.force) = -1
      BY <2>2, <3>2, Settles
    <3>4. \A r \in Askers : request[r].refused \in Nat
      BY <1>0 DEF TokensArePrinted, AskRecs
    <3>5. c.force => \A r \in Askers : Token!Settled(c.force) # request[r].refused
      <4>1. ASSUME NEW r \in Askers, NEW t, t = -1 PROVE t # request[r].refused
        BY <3>4, <4>1
      <4> HIDE DEF Token!Failed
      <4> QED BY <3>3, <4>1
    <3>6. Printed(cache.value)' /\ (Printed(Token!Settled(c.force)) =>
                                     Issued(Token!Settled(c.force), mints', holder'))
      BY <1>0, <2>1, <3>1 DEF TokensArePrinted, Printed
    <3> HIDE DEF Token!NoToken, Token!Failed
    <3> DEFINE answer == Token!Settled(c.force)
    <3>7. answer \in Int /\ (answer = Token!Failed \/ Issued(answer, mints', holder'))
      BY <3>3, <3>6 DEF Token!Failed
    <3>8. c.force => \A r \in Askers : Token!Refused(r) => answer # request[r].refused
      BY <3>5
    <3>9. Token!Land(c, answer)
      BY <3>1
    <3> HIDE DEF answer
    <3> QED BY <2>1, <3>1, <3>6, <3>7, <3>8, <3>9, Lands
  <2>3. CASE Token!Settled(c.force) = Token!NoToken
    <3> DEFINE d == [c EXCEPT !.pc = "mint"]
    <3>1. /\ mints' = mints + 1 /\ holder' = c.id
          /\ calls' = (calls \ {c}) \cup {d}
          /\ flight' = flight /\ request' = request
      BY <1>1, <2>3 DEF Token!TakeLock
    <3>2. d \in CallRecs /\ d.id = c.id /\ d.force = c.force /\ d.pc = "mint"
      BY <2>1 DEF CallRecs
    <3> HIDE DEF d
    <3>3. mints \in Nat /\ holder = 0
      BY <1>0, <2>1 DEF CallsAreApart
    <3>4. \A t : Printed(t) => Issued(t, mints', holder')
      BY <3>1, <3>3 DEF Printed, Issued
    <3>5. CallsAreApart'
      <4>1. IsFiniteSet(calls')
        BY <1>0, <3>1, FS_RemoveElement, FS_AddElement DEF CallsAreApart
      <4>2. \A e \in calls : e.id \in Nat \ {0}
        BY <1>0 DEF CallsAreApart, CallRecs
      <4>3. \A e \in calls' : e.pc = "mint" => e = d
        BY <1>0, <2>1, <3>1, <4>2 DEF CallsAreApart
      <4>4. \A e, f \in calls' : e.id = f.id => e = f
        BY <1>0, <3>1, <3>2 DEF CallsAreApart
      <4> QED BY <1>0, <3>1, <3>2, <3>3, <4>1, <4>3, <4>4 DEF CallsAreApart
    <3>6. TokensArePrinted'
      BY <1>0, <2>1, <3>1, <3>4 DEF TokensArePrinted, Printed
    <3>7. RefusedForces'
      BY <1>0, <3>1, <3>2 DEF RefusedForces, Token!Refused
    <3>8. ReissuedWithAnother'
      BY <1>0, <3>1 DEF ReissuedWithAnother, Token!ReissuedWithAnother, Token!Refused
    <3> QED BY <3>5, <3>6, <3>7, <3>8 DEF TokenInv
  <2> QED BY <2>2, <2>3
<1>2. ASSUME NEW c \in calls, Token!Minted(c)
      PROVE  TokenInv'
  <2>1. /\ c.pc = "mint" /\ holder' = 0 /\ mints' = mints /\ revoked' = revoked
        /\ holder = c.id /\ c.id # 0
    BY <1>0, <1>2 DEF Token!Minted, CallsAreApart, CallRecs
  <2>2. mints \in Nat
    BY <1>0 DEF CallsAreApart
  <2>3. CASE cache'.value = mints /\ Token!Land(c, mints)
    <3>1. Issued(mints, mints', holder') /\ Printed(cache.value)'
      BY <2>1, <2>2, <2>3 DEF Printed, Issued
    <3>2. \A r \in Askers : mints # request[r].refused
      BY <1>0, <2>1, <2>2 DEF TokensArePrinted, Printed, Issued
    <3> QED BY <2>1, <2>2, <2>3, <3>1, <3>2, Lands
  <2>4. CASE cache' = cache /\ Token!Land(c, Token!Failed)
    <3>1. Printed(cache.value)'
      BY <1>0, <2>1, <2>4 DEF TokensArePrinted, Printed, Issued
    <3>2. \A r \in Askers : request[r].refused \in Nat
      BY <1>0 DEF TokensArePrinted, AskRecs
    <3>3. \A r \in Askers : Token!Failed # request[r].refused
      BY <3>2
    <3> HIDE DEF Token!Failed
    <3>4. Token!Failed \in Int
      BY DEF Token!Failed
    <3> QED BY <2>1, <2>4, <3>1, <3>3, <3>4, Lands
  <2> QED BY <1>2, <2>3, <2>4 DEF Token!Minted
<1>3. ASSUME NEW r \in Askers,
             Token!Ask(r) \/ Token!Handle(r) \/ Token!HangUp(r)
      PROVE  TokenInv'
  <2> DEFINE was == request[r]
  <2>0. /\ was \in AskRecs /\ (was.token = -1 \/ Printed(was.token)) /\ Printed(was.refused)
        /\ was.refused # 0 => was.force /\ was.pc # "idle"
        /\ was.pc = "await" => \E c \in calls : c.id = was.on /\ (was.force => c.force)
        /\ (was.refused # 0 /\ was.pc \in {"have", "sent"}) => was.token # was.refused
        /\ Printed(0) /\ Printed(cache.value) /\ revoked \subseteq Nat
    BY <1>0 DEF TokensArePrinted, RefusedForces, ReissuedWithAnother, CallsAreApart,
                Token!ReissuedWithAnother, Token!Refused, Printed, Issued
  (* Nothing but the request changes, and what is cached at most.          *)
  <2>1. ASSUME NEW is \in AskRecs, request' = [request EXCEPT ![r] = is],
               UNCHANGED <<holder, calls, flight, revoked, mints>>,
               cache' = cache \/ (cache'.value = 0),
               is.token = -1 \/ Printed(is.token), Printed(is.refused),
               is.refused # 0 => is.force /\ is.pc # "idle", is.pc # "await",
               (is.refused # 0 /\ is.pc \in {"have", "sent"}) => is.token # is.refused
        PROVE  TokenInv'
    <3>1. CallsAreApart'
      BY <1>0, <2>1 DEF CallsAreApart
    <3>2. Printed(cache.value)'
      BY <2>0, <2>1 DEF Printed
    <3> QED BY <2>1, <3>1, <3>2, Moves
  <2>2. CASE Token!End(r) /\ UNCHANGED <<holder, calls, flight, revoked, mints>>
             /\ (cache' = cache \/ cache'.value = 0)
    <3> DEFINE is == [Token!Idle EXCEPT !.pc = "answered"]
    <3>1. Token!Idle \in AskRecs /\ Token!Idle.token = 0 /\ Token!Idle.refused = 0
      BY IdleRequest
    <3>2. is \in AskRecs /\ is.pc = "answered" /\ is.token = 0 /\ is.refused = 0
      <4> HIDE DEF Token!Idle
      <4> QED BY <3>1 DEF AskRecs
    <3> HIDE DEF is
    <3>3. request' = [request EXCEPT ![r] = is]
      BY <2>2 DEF Token!End, is
    <3> QED BY <2>0, <2>1, <2>2, <3>2, <3>3
  <2> HIDE DEF was
  <2>3. CASE Token!Ask(r)
    <3> DEFINE settled == Token!Cached(FALSE)
               is == [was EXCEPT !.pc = IF settled # Token!NoToken THEN "have" ELSE "share",
                                 !.token = settled]
    <3>1. (settled = -1 \/ Printed(settled)) /\ settled \in Int
      BY Settles
    <3>2. was.pc = "idle" /\ was.refused = 0
      BY <2>0, <2>3 DEF Token!Ask, was
    <3>3. request' = [request EXCEPT ![r] = is]
      <4>1. request' = [request EXCEPT ![r].pc = IF settled # Token!NoToken THEN "have" ELSE "share",
                                       ![r].token = settled]
        BY <2>3 DEF Token!Ask
      <4> QED BY <4>1 DEF was
    <3> HIDE DEF settled
    <3>4. is \in AskRecs /\ is.token = settled /\ is.refused = 0 /\ is.pc \in {"have", "share"}
      BY <2>0, <3>1, <3>2 DEF AskRecs
    <3> HIDE DEF is
    <3> QED BY <2>0, <2>1, <2>3, <3>1, <3>3, <3>4 DEF Token!Ask
  <2>4. CASE Token!Share(r)
    <3>0. was.pc = "share"
      BY <2>4 DEF Token!Share, was
    <3>1. CASE ~Token!Running(flight)
      <4> DEFINE id == flight'
                 new == [id |-> id, force |-> was.force, pc |-> "lock"]
                 is == [was EXCEPT !.pc = "await", !.on = id]
      <4>1. id \in 1..(Token!Cardinality(calls) + 1) /\ ~Token!Running(id)
        BY <1>0, <2>4, <3>1, FreshCall DEF Token!Share
      <4>2. id \in Nat \ {0}
        <5>1. Token!Cardinality(calls) = Cardinality(calls) /\ Cardinality(calls) \in Nat
          BY <1>0, FS_CardinalityType DEF CallsAreApart, Token!Cardinality, Cardinality
        <5> HIDE DEF id
        <5> QED BY <4>1, <5>1
      <4>3. calls' = calls \cup {new} /\ request' = [request EXCEPT ![r].pc = "await", ![r].on = id]
        BY <2>4, <3>1 DEF Token!Share, was
      <4>4. request' = [request EXCEPT ![r] = is]
        BY <4>3 DEF was
      <4>5. new \in CallRecs /\ new.id = id /\ new.pc = "lock" /\ new.force = was.force
        BY <2>0, <4>2 DEF CallRecs, AskRecs
      <4>6. is \in AskRecs /\ is.pc = "await" /\ is.on = id /\ is.force = was.force
            /\ is.token = was.token /\ is.refused = was.refused
        BY <2>0, <4>2 DEF AskRecs
      <4> HIDE DEF new, is
      <4>7. UNCHANGED <<cache, holder, revoked, mints>>
        BY <2>4 DEF Token!Share
      <4>8. CallsAreApart'
        <5>1. IsFiniteSet(calls')
          BY <1>0, <4>3, FS_AddElement DEF CallsAreApart
        <5>2. \A c \in calls : c.id # id
          BY <4>1 DEF Token!Running
        <5> QED BY <1>0, <4>2, <4>3, <4>5, <4>7, <5>1, <5>2 DEF CallsAreApart
      <4>9. Printed(cache.value)'
        BY <2>0, <4>7 DEF Printed
      <4>10. new \in calls' /\ calls \subseteq calls'
        BY <4>3
      <4> QED BY <2>0, <4>4, <4>5, <4>6, <4>7, <4>8, <4>9, <4>10, Moves
    <3>2. CASE Token!Running(flight)
      <4> DEFINE is == [was EXCEPT !.pc = IF Token!Joins(r) THEN "await" ELSE "letLand",
                                   !.on = flight]
      <4>1. /\ request' = [request EXCEPT ![r].pc = IF Token!Joins(r) THEN "await" ELSE "letLand",
                                          ![r].on = flight]
            /\ UNCHANGED <<cache, holder, calls, flight, revoked, mints>>
        BY <2>4, <3>2 DEF Token!Share
      <4>2. request' = [request EXCEPT ![r] = is]
        BY <4>1 DEF was
      <4>3. is \in AskRecs /\ is.pc \in {"await", "letLand"} /\ is.on = flight
            /\ is.token = was.token /\ is.refused = was.refused /\ is.force = was.force
            /\ (is.pc = "await" => Token!Joins(r))
        BY <1>0, <2>0 DEF AskRecs, CallsAreApart
      <4> HIDE DEF is
      <4>4. is.pc = "await" => \E c \in calls : c.id = is.on /\ (is.force => c.force)
        BY <3>2, <4>3 DEF Token!Joins, Token!Forced, Token!Running, was
      <4>5. CallsAreApart'
        BY <1>0, <4>1 DEF CallsAreApart
      <4>6. Printed(cache.value)'
        BY <2>0, <4>1 DEF Printed
      <4>7. /\ mints' = mints /\ holder' = holder /\ revoked' = revoked /\ calls' = calls
            /\ calls \subseteq calls'
        BY <4>1
      <4>8. /\ is.token = -1 \/ Printed(is.token)
            /\ Printed(is.refused)
            /\ is.refused # 0 => is.force /\ is.pc # "idle"
            /\ is.pc = "await" => \E c \in calls' : c.id = is.on /\ (is.force => c.force)
            /\ (is.refused # 0 /\ is.pc \in {"have", "sent"}) => is.token # is.refused
        BY <2>0, <4>3, <4>4, <4>7
      <4> QED BY <4>2, <4>3, <4>5, <4>6, <4>7, <4>8, Moves
    <3> QED BY <3>1, <3>2
  <2>5. CASE Token!Send(r)
    <3> DEFINE is == [was EXCEPT !.pc = "sent"]
    <3>1. was.pc = "have" /\ request' = [request EXCEPT ![r] = is]
      BY <2>5 DEF Token!Send, was
    <3>2. is \in AskRecs /\ is.pc = "sent" /\ is.force = was.force
          /\ is.token = was.token /\ is.refused = was.refused
      BY <2>0 DEF AskRecs
    <3> HIDE DEF is
    <3> QED BY <2>0, <2>1, <2>5, <3>1, <3>2 DEF Token!Send
  <2>6. CASE Token!AnswerFailure(r)
    <3>1. cache' = cache \/ cache'.value = 0
      BY <2>6 DEF Token!AnswerFailure, Token!Invalidate
    <3> QED BY <2>2, <2>6, <3>1 DEF Token!AnswerFailure
  <2>7. CASE Token!Accepted(r)
    BY <2>2, <2>7 DEF Token!Accepted
  <2>8. CASE Token!StreamedRefused(r)
    <3>1. cache'.value = 0
      BY <2>8 DEF Token!StreamedRefused, Token!Invalidate
    <3> QED BY <2>2, <2>8, <3>1 DEF Token!StreamedRefused
  <2>9. CASE Token!HangUp(r)
    BY <2>2, <2>9 DEF Token!HangUp
  <2>10. CASE Token!Reissue(r)
    <3> DEFINE settled == Token!Cached(TRUE)
               place == IF settled # Token!NoToken THEN "have" ELSE "share"
               half == [was EXCEPT !.force = TRUE]
               is == [half EXCEPT !.pc = place, !.token = settled, !.refused = was.token]
    <3>1. settled \in {-1, 0}
      BY Settles
    <3>2. was.pc = "sent" /\ was.token \in revoked
      BY <2>10 DEF Token!Reissue, was
    <3>3. was.token \in Nat /\ Printed(was.token)
      <4>1. was.token \in Nat
        BY <2>0, <3>2
      <4>2. was.token # -1
        BY <4>1
      <4> QED BY <2>0, <4>1, <4>2
    <3>4. request' = [request EXCEPT ![r] = is]
      <4>1. request' = [request EXCEPT ![r].pc = IF settled # Token!NoToken THEN "have" ELSE "share",
                                       ![r].force = TRUE, ![r].token = settled,
                                       ![r].refused = request[r].token]
        BY <2>10 DEF Token!Reissue
      <4> QED BY <4>1 DEF was
    <3> HIDE DEF settled
    <3>5. place \in {"have", "share"} /\ (place = "have" => settled = -1)
      BY <3>1
    <3> HIDE DEF place, Token!NoToken
    <3>6. is \in AskRecs /\ is.token = settled /\ is.refused = was.token /\ is.force
          /\ is.pc = place
      <4>1. was \in AskRecs /\ settled \in Int
        BY <2>0, <3>1
      <4>2. half \in AskRecs /\ half.force
        BY <4>1 DEF AskRecs
      <4> HIDE DEF half
      <4> QED BY <3>3, <3>5, <4>1, <4>2 DEF AskRecs
    <3> HIDE DEF is
    <3>7. is.pc = "have" => is.token = -1
      BY <3>5, <3>6
    <3>8. is.pc \in {"have", "share"} /\ (is.token = -1 \/ Printed(is.token))
          /\ ((is.refused # 0 /\ is.pc \in {"have", "sent"}) => is.token # is.refused)
      BY <2>0, <3>1, <3>3, <3>5, <3>6, <3>7
    <3> QED BY <2>0, <2>1, <2>10, <3>3, <3>4, <3>6, <3>8 DEF Token!Reissue
  <2> QED
    BY <1>3, <2>3, <2>4, <2>5, <2>6, <2>7, <2>8, <2>9, <2>10 DEF Token!Handle
<1>4. CASE Token!Tick \/ Token!Revoke \/ UNCHANGED Token!vars
  <2>1. /\ UNCHANGED <<cache, holder, calls, flight, request, mints>>
        /\ revoked' = revoked \/ revoked' = revoked \cup {cache.value}
    BY <1>4 DEF Token!Tick, Token!Revoke, Token!vars
  <2>2. CallsAreApart'
    BY <1>0, <2>1 DEF CallsAreApart
  <2>3. TokensArePrinted'
    BY <1>0, <2>1 DEF TokensArePrinted, Printed, Issued
  <2>4. RefusedForces' /\ ReissuedWithAnother'
    BY <1>0, <2>1 DEF RefusedForces, ReissuedWithAnother, Token!ReissuedWithAnother,
                      Token!Refused
  <2> QED BY <2>2, <2>3, <2>4 DEF TokenInv
<1> QED BY <1>1, <1>2, <1>3, <1>4 DEF Token!Next, Token!Thread

LEMMA TokenInit == Token!Init => TokenInv
<1> SUFFICES ASSUME Token!Init PROVE TokenInv
  OBVIOUS
<1> USE DEF Token!Init, Token!NoToken
<1> DEFINE warm == [id |-> 1, force |-> FALSE, pc |-> "lock"]
<1>1. warm \in CallRecs /\ warm.pc = "lock" /\ calls = {warm}
  BY DEF CallRecs
<1> HIDE DEF warm
<1>2. CallsAreApart
  BY <1>1, FS_Singleton DEF CallsAreApart
<1>4. Token!Idle \in AskRecs /\ Token!Idle.pc = "idle" /\ Token!Idle.token = 0
      /\ Token!Idle.refused = 0
  BY IdleRequest
<1>5. TokensArePrinted
  BY <1>4 DEF TokensArePrinted, Printed, Issued
<1>6. RefusedForces /\ ReissuedWithAnother
  BY <1>4 DEF RefusedForces, ReissuedWithAnother, Token!ReissuedWithAnother, Token!Refused
<1> QED BY <1>2, <1>5, <1>6 DEF TokenInv

(* Whatever calls the loop shares, whichever of them are forced and        *)
(* whatever minter fails, a request the upstream refused is not sent again *)
(* with the token it was refused with (egress_proxy.atoken).               *)
THEOREM RefusedTokensAreReplaced == Token!Spec => []ReissuedWithAnother
<1>1. TokenInv => ReissuedWithAnother
  BY DEF TokenInv
<1> QED BY <1>1, TokenInit, TokenStep, PTL DEF Token!Spec

-----------------------------------------------------------------------------
(* The image store.                                                        *)

(* A name that is put together of three can be taken apart again.          *)
Joined(p, j, w) == p \o <<j>> \o w

LEMMA ApartAgain ==
  ASSUME NEW p \in Seq(Words), NEW w \in Seq(Words), NEW j \in Words, Len(p) > 0
  PROVE  LET r == Joined(p, j, w) IN
         /\ Len(r) > Len(w) + 1
         /\ SubSeq(r, Len(r) - Len(w) + 1, Len(r)) = w
         /\ r[Len(r) - Len(w)] = j
         /\ SubSeq(r, 1, Len(r) - Len(w) - 1) = p
<1> DEFINE h == p \o <<j>>
           r == Joined(p, j, w)
<1>1. /\ h \in Seq(Words) /\ Len(h) = Len(p) + 1 /\ h[Len(p) + 1] = j
      /\ \A i \in 1..Len(p) : h[i] = p[i]
      /\ Len(p) \in Nat /\ Len(w) \in Nat
  OBVIOUS
<1> HIDE DEF h
<1>2. r = h \o w
  BY DEF h, Joined
<1> HIDE DEF r
<1>3. /\ r \in Seq(Words) /\ Len(r) = Len(h) + Len(w)
      /\ \A i \in 1..Len(h) : r[i] = h[i]
      /\ \A i \in 1..Len(w) : r[Len(h) + i] = w[i]
  <2>1. /\ h \o w \in Seq(Words) /\ Len(h \o w) = Len(h) + Len(w)
        /\ \A i \in 1..Len(h) : (h \o w)[i] = h[i]
        /\ \A i \in 1..Len(w) : (h \o w)[Len(h) + i] = w[i]
    BY <1>1
  <2> QED BY <1>2, <2>1
<1>4. SubSeq(r, 1, Len(p)) = p
  BY <1>1, <1>3
<1>5. SubSeq(r, Len(h) + 1, Len(h) + Len(w)) = w
  BY <1>1, <1>3
<1>6. /\ Len(r) > Len(w) + 1
      /\ SubSeq(r, Len(r) - Len(w) + 1, Len(r)) = w
      /\ r[Len(r) - Len(w)] = j
      /\ SubSeq(r, 1, Len(r) - Len(w) - 1) = p
  BY <1>1, <1>3, <1>4, <1>5
<1> QED BY <1>6 DEF r

(* What names are made of.                                                 *)
LEMMA PathIsWords ==
  ASSUME NEW q \in Store!Places
  PROVE  Store!Project(q) \in Seq(Words) /\ Len(Store!Project(q)) > 0
<1>1. q \in Seq(Words)
  BY WordsAssumption, EmptySeq DEF Store!Places
<1>2. Store!Flattened(q) \in Seq(Words)
  <2> DEFINE n == Len(q)
             e(i) == IF i % 2 = 1 THEN "-" ELSE q[i \div 2]
  <2>1. n \in Nat /\ \A i \in 1..n : q[i] \in Words
    BY <1>1
  <2> HIDE DEF n
  <2>2. 2 * n \in Nat
    BY <2>1
  <2>3. \A i \in 1..2 * n : i % 2 # 1 => (i \div 2) \in 1..n
    BY <2>1
  <2>4. \A i \in 1..2 * n : e(i) \in Words
    BY <2>1, <2>3, WordsAssumption
  <2>5. Store!Flattened(q) = [i \in 1..2 * n |-> e(i)]
    BY DEF Store!Flattened, n
  <2> HIDE DEF e
  <2>6. [i \in 1..2 * n |-> e(i)] \in Seq(Words)
    BY <2>2, <2>4
  <2> QED BY <2>5, <2>6
<1>3. StackPrefix \in Seq(Words) /\ Len(StackPrefix) > 0
  <2>1. StackPrefix \in Seq(Words) /\ StackPrefix # <<>>
    BY WordsAssumption
  <2> QED BY <2>1, EmptySeq
<1> QED BY <1>2, <1>3 DEF Store!Project

Joints == {"_", "-"}

(* A reference is read as its builder's, whatever else it may be read as.  *)
LEMMA NameIsItsProjects ==
  ASSUME NEW q \in Store!Places, NEW joint \in Joints, NEW s \in Store!ServiceNames
  PROVE  Store!Project(q) \in Store!Readings(Store!Ref(q, joint, s))
<1> DEFINE p == Store!Project(q)
           w == ServiceWords[s]
           r == Joined(p, joint, w)
<1>1. joint \in Words /\ p \in Seq(Words) /\ Len(p) > 0 /\ w \in Seq(Words)
  BY WordsAssumption, PathIsWords DEF Store!ServiceNames, Joints
<1>2. Store!Ref(q, joint, s) = r
  BY DEF Store!Ref, Joined
<1> HIDE DEF p, w
<1>3. /\ Len(r) > Len(w) + 1
      /\ SubSeq(r, Len(r) - Len(w) + 1, Len(r)) = w
      /\ r[Len(r) - Len(w)] = joint
      /\ SubSeq(r, 1, Len(r) - Len(w) - 1) = p
  BY <1>1, ApartAgain
<1> HIDE DEF r
<1>4. p \in Store!Readings(r)
  BY <1>3 DEF Store!Readings, Joints, w
<1> QED BY <1>2, <1>4 DEF p

Refs ==
  {Store!Ref(q, joint, s) : q \in Store!Places, joint \in Joints, s \in Store!ServiceNames}
Layers == {BuildOf[s] : s \in Store!ServiceNames} \X (ContextContents \cup {1})
ImageUps ==
  [pc : {"idle", "build", "compose", "old", "rmi"}, services : SUBSET Store!ServiceNames,
   before : SUBSET (Store!ServiceNames \X Layers), made : SUBSET Layers, fresh : SUBSET Layers,
   first : SUBSET Store!ServiceNames, failed : SUBSET {BuildOf[s] : s \in Store!ServiceNames},
   old : SUBSET Layers, doomed : Layers \cup {<<>>}, named : SUBSET Refs]

StoreTyped ==
  /\ places \subseteq Store!Places
  /\ files \in [Store!Places -> ContextContents \cup {1}]
  /\ DOMAIN tags \subseteq Refs
  /\ \A r \in DOMAIN tags : tags[r] \in [image : Layers, by : Store!Places]
  /\ up \in [Store!Places -> ImageUps]
  /\ sweep \in [pc : {"idle", "live", "list", "rmi"},
                live : SUBSET {Store!Project(q) : q \in Store!Places},
                there : SUBSET Store!Places, orphans : SUBSET Refs]

(* A tag is of the project of the checkout that built it.                  *)
TagsAreTheirBuilders ==
  \A r \in DOMAIN tags : Store!Project(tags[r].by) \in Store!Readings(r)

(* What a build in flight has committed is not a day old.                  *)
FreshIsYoung ==
  \A q \in Store!Places : \A i \in up[q].fresh :
    up[q].pc = "build" /\ (i \in DOMAIN images => images[i] = "young")

UnnamedGoes == \A q \in Store!Places : up[q].pc = "rmi" => up[q].named = {}

(* The projects a sweep spares are those of the checkouts it found, and    *)
(* what it took for orphans cannot be read as any of theirs.               *)
SweepSpares ==
  /\ sweep.pc \in {"list", "rmi"} => sweep.live = {Store!Project(q) : q \in sweep.there}
  /\ sweep.pc = "rmi" => \A r \in sweep.orphans : Store!Readings(r) \cap sweep.live = {}

StoreInv ==
  /\ StoreTyped /\ TagsAreTheirBuilders /\ FreshIsYoung /\ UnnamedGoes /\ SweepSpares
  /\ swept = {}

LEMMA RefIsARef ==
  ASSUME NEW q \in Store!Places, NEW joint \in Joints, NEW s \in Store!ServiceNames
  PROVE  Store!Ref(q, joint, s) \in Refs
  BY DEF Refs

(* The name podman's build gives.                                          *)
Podmans(q, s) == Store!Ref(q, "_", s)

LEMMA ImageIsALayer ==
  ASSUME StoreTyped, NEW q \in Store!Places, NEW s \in Store!ServiceNames
  PROVE  Store!Image(q, s) \in Layers
  BY DEF StoreTyped, Store!Image, Layers

LEMMA NoUpIsOne ==
  /\ Store!NoUp \in ImageUps /\ Store!NoUp.pc = "idle" /\ Store!NoUp.fresh = {}
  /\ Store!NoUp.named = {}
  BY DEF Store!NoUp, ImageUps

(* An `up' goes on; the store stays as it is.                              *)
LEMMA UpGoesOn ==
  ASSUME StoreInv, NEW q \in Store!Places, NEW v \in ImageUps, Store!Goes(q, v),
         UNCHANGED <<places, files, images, tags, sweep, swept>>,
         v.fresh \subseteq up[q].fresh, v.fresh # {} => v.pc = "build",
         v.pc = "rmi" => v.named = {}
  PROVE  StoreInv'
<1>1. /\ up' \in [Store!Places -> ImageUps]
      /\ \A p \in Store!Places : up'[p] = IF p = q THEN v ELSE up[p]
  BY DEF StoreInv, StoreTyped, Store!Goes
<1>2. StoreTyped'
  BY <1>1 DEF StoreInv, StoreTyped
<1>3. FreshIsYoung'
  BY <1>1 DEF StoreInv, FreshIsYoung
<1>4. UnnamedGoes'
  BY <1>1 DEF StoreInv, UnnamedGoes
<1> QED BY <1>2, <1>3, <1>4 DEF StoreInv, TagsAreTheirBuilders, SweepSpares

(* A layer is stored under the image i, and tag t put on some image.       *)
LEMMA ImageStored ==
  ASSUME StoreInv, NEW i, images' = Store!Stored(i)
  PROVE  \A j \in DOMAIN images' :
           /\ j \in DOMAIN images => images'[j] = images[j]
           /\ j \notin DOMAIN images => j = i /\ images'[j] = "young"
  BY DEF Store!Stored, Store!With

LEMMA TagPut ==
  ASSUME StoreInv, NEW q \in Store!Places, NEW joint \in Joints,
         NEW s \in Store!ServiceNames, NEW i \in Layers,
         tags' = Store!With(tags, Store!Ref(q, joint, s), [image |-> i, by |-> q])
  PROVE  /\ DOMAIN tags' \subseteq Refs
         /\ \A r \in DOMAIN tags' : tags'[r] \in [image : Layers, by : Store!Places]
         /\ TagsAreTheirBuilders'
<1> DEFINE t == Store!Ref(q, joint, s)
<1>1. t \in Refs /\ Store!Project(q) \in Store!Readings(t)
  BY RefIsARef, NameIsItsProjects
<1> HIDE DEF t
<1>2. /\ DOMAIN tags' = DOMAIN tags \cup {t}
      /\ \A r \in DOMAIN tags' : tags'[r] = IF r = t THEN [image |-> i, by |-> q] ELSE tags[r]
  BY DEF Store!With, t
<1>3. DOMAIN tags \subseteq Refs /\ \A r \in DOMAIN tags : tags[r] \in [image : Layers, by : Store!Places]
  BY DEF StoreInv, StoreTyped
<1>4. [image |-> i, by |-> q] \in [image : Layers, by : Store!Places]
  OBVIOUS
<1>5. \A r \in DOMAIN tags' : Store!Project(tags'[r].by) \in Store!Readings(r)
  <2> SUFFICES ASSUME NEW r \in DOMAIN tags' PROVE Store!Project(tags'[r].by) \in Store!Readings(r)
    OBVIOUS
  <2>1. CASE r = t
    <3>1. tags'[r].by = q
      BY <1>2, <2>1
    <3> QED BY <1>1, <2>1, <3>1
  <2>2. CASE r # t
    <3>1. r \in DOMAIN tags /\ tags'[r] = tags[r]
      BY <1>2, <2>2
    <3> QED BY <3>1 DEF StoreInv, TagsAreTheirBuilders
  <2> QED BY <2>1, <2>2
<1> QED BY <1>1, <1>2, <1>3, <1>4, <1>5 DEF TagsAreTheirBuilders

LEMMA UpStep ==
  ASSUME StoreInv, NEW q \in Store!Places, Store!Up(q)
  PROVE  StoreInv'
<1> DEFINE v == up[q]
<1>0. /\ v \in ImageUps /\ up \in [Store!Places -> ImageUps]
      /\ (v.fresh # {} => v.pc = "build") /\ (v.pc = "rmi" => v.named = {})
      /\ DOMAIN tags \subseteq Refs
      /\ \A r \in DOMAIN tags : tags[r].image \in Layers
  BY DEF StoreInv, StoreTyped, FreshIsYoung, UnnamedGoes
<1> HIDE DEF v
<1>1. ASSUME Store!Begin(q) PROVE StoreInv'
  <2>1. PICK S \in SUBSET Store!ServiceNames :
          Store!Goes(q, [Store!NoUp EXCEPT !.pc = "build", !.services = S,
                  !.before = {<<s, tags[Podmans(q, s)].image>> :
                                s \in {t \in S : Podmans(q, t) \in DOMAIN tags}}])
    BY <1>1 DEF Store!Begin, Podmans
  <2> DEFINE before == {<<s, tags[Podmans(q, s)].image>> :
                          s \in {t \in S : Podmans(q, t) \in DOMAIN tags}}
             w == [Store!NoUp EXCEPT !.pc = "build", !.services = S, !.before = before]
  <2>2. before \in SUBSET (Store!ServiceNames \X Layers)
    <3>1. \A s \in {t \in S : Podmans(q, t) \in DOMAIN tags} :
            s \in Store!ServiceNames /\ tags[Podmans(q, s)].image \in Layers
      BY <1>0
    <3> QED BY <3>1
  <2> HIDE DEF before
  <2>3. w \in ImageUps /\ w.pc = "build" /\ w.fresh = {}
    BY <2>2, NoUpIsOne DEF ImageUps
  <2>4. Store!Goes(q, w)
    BY <2>1 DEF before
  <2> HIDE DEF w
  <2> QED BY <1>1, <2>3, <2>4, UpGoesOn DEF Store!Begin
<1>2. ASSUME NEW s \in Store!ServiceNames, Store!Commit(q, s) PROVE StoreInv'
  <2> DEFINE i == Store!Image(q, s)
             w == [v EXCEPT !.made = @ \cup {i}, !.fresh = @ \cup ({i} \ DOMAIN images)]
  <2>1. i \in Layers
    BY ImageIsALayer DEF StoreInv
  <2>2. /\ v.pc = "build" /\ images' = Store!Stored(i) /\ Store!Goes(q, w)
        /\ UNCHANGED <<places, files, tags, sweep, swept>>
    BY <1>2 DEF Store!Commit, Store!At, v
  <2> HIDE DEF i
  <2>3. /\ w \in ImageUps /\ w.pc = "build" /\ w.fresh = v.fresh \cup ({i} \ DOMAIN images)
    BY <1>0, <2>1, <2>2 DEF ImageUps
  <2> HIDE DEF w
  <2>4. /\ up' \in [Store!Places -> ImageUps]
        /\ \A p \in Store!Places : up'[p] = IF p = q THEN w ELSE up[p]
    BY <1>0, <2>2, <2>3 DEF Store!Goes
  <2>5. StoreTyped'
    BY <2>2, <2>4 DEF StoreInv, StoreTyped
  <2>6. FreshIsYoung'
    BY <2>2, <2>3, <2>4, ImageStored DEF StoreInv, FreshIsYoung, v
  <2>7. UnnamedGoes'
    BY <2>3, <2>4 DEF StoreInv, UnnamedGoes
  <2> QED BY <2>2, <2>5, <2>6, <2>7 DEF StoreInv, TagsAreTheirBuilders, SweepSpares
<1>3. ASSUME NEW s \in Store!ServiceNames, Store!Tag(q, s) PROVE StoreInv'
  <2> DEFINE first == v.first \cup (IF Store!Group(q, s) = {} THEN {s} ELSE {})
             w == [v EXCEPT !.services = v.services \ {s}, !.first = first]
  <2>1. PICK i \in Store!Built(q, s) \cap DOMAIN images :
          tags' = Store!With(tags, Podmans(q, s), [image |-> i, by |-> q])
    BY <1>3 DEF Store!Tag, Podmans
  <2>2. i \in Layers
    <3>1. i \in v.made \/ \E r \in DOMAIN tags : i = tags[r].image
      BY DEF Store!Built, v
    <3>2. v.made \subseteq Layers
      BY <1>0 DEF ImageUps
    <3> QED BY <1>0, <3>1, <3>2
  <2>3. Store!Goes(q, w) /\ UNCHANGED <<places, files, images, sweep, swept>>
    BY <1>3 DEF Store!Tag, v
  <2>4. w \in ImageUps /\ w.pc = v.pc /\ w.fresh = v.fresh /\ w.named = v.named
    <3>1. first \in SUBSET Store!ServiceNames
      BY <1>0 DEF ImageUps
    <3> HIDE DEF first
    <3> QED BY <1>0, <3>1 DEF ImageUps
  <2> HIDE DEF w
  <2>5. /\ up' \in [Store!Places -> ImageUps]
        /\ \A p \in Store!Places : up'[p] = IF p = q THEN w ELSE up[p]
    BY <1>0, <2>3, <2>4 DEF Store!Goes
  <2>6. /\ DOMAIN tags' \subseteq Refs
        /\ \A r \in DOMAIN tags' : tags'[r] \in [image : Layers, by : Store!Places]
        /\ TagsAreTheirBuilders'
    <3>1. "_" \in Joints
      BY DEF Joints
    <3> QED BY <2>1, <2>2, <3>1, TagPut DEF Podmans
  <2>7. StoreTyped'
    BY <2>3, <2>5, <2>6 DEF StoreInv, StoreTyped
  <2>8. FreshIsYoung' /\ UnnamedGoes'
    BY <2>3, <2>4, <2>5 DEF StoreInv, FreshIsYoung, UnnamedGoes, v
  <2> QED BY <2>3, <2>6, <2>7, <2>8 DEF StoreInv, SweepSpares
<1>4. ASSUME NEW s \in Store!ServiceNames, Store!TagFails(q, s) PROVE StoreInv'
  <2> DEFINE w == [v EXCEPT !.services = @ \ {s}, !.failed = @ \cup {BuildOf[s]}]
  <2>1. Store!Goes(q, w) /\ UNCHANGED <<places, files, images, tags, sweep, swept>>
    BY <1>4 DEF Store!TagFails, v
  <2>2. w \in ImageUps /\ w.pc = v.pc /\ w.fresh = v.fresh /\ w.named = v.named
    BY <1>0 DEF ImageUps
  <2> HIDE DEF w
  <2> QED BY <1>0, <2>1, <2>2, UpGoesOn DEF v
<1>5. ASSUME Store!Superseded(q) PROVE StoreInv'
  <2> DEFINE Now(s) == {tags[r].image : r \in {Podmans(q, s)} \cap DOMAIN tags}
             old == {b[2] : b \in {c \in v.before : c[2] \notin Now(c[1])}}
             w == [Store!NoUp EXCEPT !.pc = "compose", !.old = old]
  <2>1. /\ Store!Goes(q, IF v.failed # {} THEN Store!NoUp ELSE w)
        /\ UNCHANGED <<places, files, images, tags, sweep, swept>>
    BY <1>5 DEF Store!Superseded, Podmans, v
  <2>2. old \in SUBSET Layers
    <3>1. \A b \in v.before : b[2] \in Layers
      <4>1. v.before \subseteq Store!ServiceNames \X Layers
        BY <1>0 DEF ImageUps
      <4> QED BY <4>1
    <3> QED BY <3>1
  <2> HIDE DEF old
  <2>3. w \in ImageUps /\ w.pc = "compose" /\ w.fresh = {}
    BY <2>2, NoUpIsOne DEF ImageUps
  <2> HIDE DEF w
  <2> QED BY <2>1, <2>3, NoUpIsOne, UpGoesOn
<1>6. ASSUME Store!Compose(q) PROVE StoreInv'
  <2> DEFINE w == [v EXCEPT !.pc = "old"]
  <2>1. v.pc = "compose" /\ Store!Goes(q, w) /\ UNCHANGED <<places, files, images, tags, sweep, swept>>
    BY <1>6 DEF Store!Compose, Store!At, v
  <2>2. w \in ImageUps /\ w.pc = "old" /\ w.fresh = v.fresh
    BY <1>0 DEF ImageUps
  <2> HIDE DEF w
  <2> QED BY <1>0, <2>1, <2>2, UpGoesOn DEF v
<1>7. ASSUME Store!Look(q) PROVE StoreInv'
  <2>1. v.pc = "old" /\ UNCHANGED <<places, files, images, tags, sweep, swept>>
    BY <1>7 DEF Store!Look, Store!At, v
  <2>2. CASE v.old = {}
    BY <1>7, <2>1, <2>2, NoUpIsOne, UpGoesOn DEF Store!Look, v
  <2>3. CASE v.old # {}
    <3>1. PICK i \in v.old :
            Store!Goes(q, [v EXCEPT !.old = @ \ {i}, !.doomed = i, !.named = Store!TagsOf(i),
                       !.pc = IF i \in DOMAIN images /\ Store!TagsOf(i) = {} THEN "rmi" ELSE "old"])
      BY <1>7, <2>3 DEF Store!Look, v
    <3> DEFINE pc == IF i \in DOMAIN images /\ Store!TagsOf(i) = {} THEN "rmi" ELSE "old"
               named == Store!TagsOf(i)
               w == [v EXCEPT !.old = v.old \ {i}, !.doomed = i, !.named = named, !.pc = pc]
    <3>2. named \in SUBSET Refs /\ pc \in {"old", "rmi"} /\ (pc = "rmi" => named = {})
      BY <1>0 DEF Store!TagsOf
    <3>3. Store!Goes(q, w)
      BY <3>1
    <3> HIDE DEF pc, named
    <3>4. w \in ImageUps /\ w.pc = pc /\ w.fresh = v.fresh /\ w.named = named
      BY <1>0, <3>2 DEF ImageUps
    <3> HIDE DEF w
    <3>5. v.fresh = {}
      BY <1>0, <2>1
    <3> QED BY <2>1, <3>2, <3>3, <3>4, <3>5, UpGoesOn DEF v
  <2> QED BY <2>2, <2>3
<1>8. ASSUME Store!Rmi(q) PROVE StoreInv'
  <2> DEFINE w == [v EXCEPT !.pc = "old"]
             gone == Store!TagsOf(v.doomed)
  <2>1. /\ v.pc = "rmi" /\ Store!Goes(q, w) /\ UNCHANGED <<places, files, sweep>>
        /\ images' = images \/ images' = Store!Less(images, {v.doomed})
        /\ tags' = tags \/ tags' = Store!Less(tags, gone)
        /\ swept' = swept \/ swept' = swept \cup (gone \cap v.named)
    BY <1>8 DEF Store!Rmi, Store!At, v
  <2>2. w \in ImageUps /\ w.pc = "old" /\ w.fresh = v.fresh
    BY <1>0 DEF ImageUps
  <2> HIDE DEF w
  <2>3. swept' = {}
    BY <1>0, <2>1 DEF StoreInv
  <2>4. /\ DOMAIN tags' \subseteq DOMAIN tags /\ \A r \in DOMAIN tags' : tags'[r] = tags[r]
        /\ DOMAIN images' \subseteq DOMAIN images /\ \A i \in DOMAIN images' : images'[i] = images[i]
    BY <2>1 DEF Store!Less, Store!Restrict
  <2>5. /\ up' \in [Store!Places -> ImageUps]
        /\ \A p \in Store!Places : up'[p] = IF p = q THEN w ELSE up[p]
    BY <1>0, <2>1, <2>2 DEF Store!Goes
  <2>6. StoreTyped'
    BY <2>1, <2>4, <2>5 DEF StoreInv, StoreTyped
  <2>7. TagsAreTheirBuilders'
    BY <2>4 DEF StoreInv, TagsAreTheirBuilders
  <2>8. FreshIsYoung'
    BY <1>0, <2>1, <2>2, <2>4, <2>5 DEF StoreInv, FreshIsYoung
  <2>9. UnnamedGoes'
    BY <2>2, <2>5 DEF StoreInv, UnnamedGoes
  <2> QED BY <2>1, <2>3, <2>6, <2>7, <2>8, <2>9 DEF StoreInv, SweepSpares
<1> QED BY <1>1, <1>2, <1>3, <1>4, <1>5, <1>6, <1>7, <1>8 DEF Store!Up

(* Images and tags go; nothing else moves.                                 *)
LEMMA StoreShrinks ==
  ASSUME StoreInv, UNCHANGED <<places, files, up>>,
         DOMAIN tags' \subseteq DOMAIN tags, \A r \in DOMAIN tags' : tags'[r] = tags[r],
         DOMAIN images' \subseteq DOMAIN images,
         \A i \in DOMAIN images' : images'[i] = images[i]
  PROVE  /\ TagsAreTheirBuilders' /\ FreshIsYoung' /\ UnnamedGoes'
         /\ (sweep' \in [pc : {"idle", "live", "list", "rmi"},
                         live : SUBSET {Store!Project(q) : q \in Store!Places},
                         there : SUBSET Store!Places, orphans : SUBSET Refs]) => StoreTyped'
<1>1. TagsAreTheirBuilders'
  BY DEF StoreInv, TagsAreTheirBuilders
<1>2. FreshIsYoung' /\ UnnamedGoes'
  BY DEF StoreInv, FreshIsYoung, UnnamedGoes
<1> QED BY <1>1, <1>2 DEF StoreInv, StoreTyped

LEMMA SweepStep ==
  ASSUME StoreInv, Store!Reclaim
  PROVE  StoreInv'
<1> DEFINE Sweeps == [pc : {"idle", "live", "list", "rmi"},
                      live : SUBSET {Store!Project(q) : q \in Store!Places},
                      there : SUBSET Store!Places, orphans : SUBSET Refs]
<1>0. /\ Store!NoSweep \in Sweeps /\ Store!NoSweep.pc = "idle" /\ sweep \in Sweeps
      /\ places \subseteq Store!Places
  BY DEF Store!NoSweep, StoreInv, StoreTyped
<1>1. ASSUME Store!Prune PROVE StoreInv'
  <2> DEFINE w == [Store!NoSweep EXCEPT !.pc = "live"]
  <2>1. /\ UNCHANGED <<places, files, tags, up>> /\ images' = Store!Less(images, Store!Prunable)
        /\ sweep' = w
        /\ swept' = swept \cup {i \in Store!Prunable : \E q \in Store!Places : i \in up[q].fresh}
    BY <1>1 DEF Store!Prune
  <2>2. w \in Sweeps /\ w.pc = "live"
    BY <1>0
  <2> HIDE DEF w
  <2>3. \A i \in Store!Prunable : \A q \in Store!Places : i \notin up[q].fresh
    <3> SUFFICES ASSUME NEW i \in Store!Prunable, NEW q \in Store!Places, i \in up[q].fresh PROVE FALSE
      OBVIOUS
    <3>1. i \in DOMAIN images /\ images[i] = "old"
      BY DEF Store!Prunable
    <3>2. images[i] = "young"
      BY <3>1 DEF StoreInv, FreshIsYoung
    <3> QED BY <3>1, <3>2
  <2>4. swept' = {}
    BY <2>1, <2>3 DEF StoreInv
  <2>5. /\ DOMAIN images' \subseteq DOMAIN images
        /\ \A i \in DOMAIN images' : images'[i] = images[i]
    BY <2>1 DEF Store!Less, Store!Restrict
  <2> HIDE DEF Sweeps
  <2>6. SweepSpares'
    BY <2>1, <2>2 DEF SweepSpares
  <2>7. /\ TagsAreTheirBuilders' /\ FreshIsYoung' /\ UnnamedGoes' /\ StoreTyped'
    BY <2>1, <2>2, <2>5, StoreShrinks DEF Sweeps
  <2> QED BY <2>4, <2>6, <2>7 DEF StoreInv
(* The sweep alone goes on.                                                *)
<1>2. ASSUME UNCHANGED <<places, files, images, tags, up, swept>>, sweep' \in Sweeps, SweepSpares'
      PROVE  StoreInv'
  BY <1>2, StoreShrinks DEF StoreInv
<1>3. sweep' = Store!NoSweep => sweep' \in Sweeps /\ SweepSpares'
  BY <1>0 DEF SweepSpares
<1>4. ASSUME Store!ListLive PROVE StoreInv'
  <2> DEFINE inUse == {Store!Project(q) : q \in places}
             w == [sweep EXCEPT !.pc = "list", !.live = inUse, !.there = places]
  <2>1. /\ UNCHANGED <<places, files, images, tags, up, swept>>
        /\ sweep' = w \/ sweep' = Store!NoSweep
    BY <1>4 DEF Store!ListLive, Store!Unreadable
  <2>2. inUse \in SUBSET {Store!Project(q) : q \in Store!Places}
    BY <1>0
  <2>3. sweep' = w => sweep'.pc = "list" /\ sweep'.live = inUse /\ sweep'.there = places
                      /\ sweep' \in Sweeps
    <3> HIDE DEF inUse
    <3> QED BY <1>0, <2>2
  <2>4. sweep' = w => sweep' \in Sweeps /\ SweepSpares'
    BY <2>3 DEF SweepSpares
  <2> HIDE DEF w
  <2> QED BY <1>2, <1>3, <2>1, <2>4
<1>5. ASSUME Store!ListOrphans PROVE StoreInv'
  <2> DEFINE orphans == Store!Orphans(sweep.live)
             w == [sweep EXCEPT !.pc = "rmi", !.orphans = orphans]
  <2>1. /\ UNCHANGED <<places, files, images, tags, up, swept>> /\ sweep.pc = "list"
        /\ sweep' = w \/ sweep' = Store!NoSweep
    BY <1>5 DEF Store!ListOrphans, Store!Unreadable
  <2>2. orphans \in SUBSET Refs
    BY DEF Store!Orphans, StoreInv, StoreTyped
  <2>3. \A r \in orphans : Store!Readings(r) \cap sweep.live = {}
    BY DEF Store!Orphans
  <2> HIDE DEF orphans
  <2>4. sweep' = w => /\ sweep'.pc = "rmi" /\ sweep'.live = sweep.live /\ sweep'.there = sweep.there
                      /\ sweep'.orphans = orphans /\ sweep' \in Sweeps
    BY <1>0, <2>2
  <2> HIDE DEF w, Sweeps
  <2>5. sweep' = w => SweepSpares'
    BY <2>1, <2>3, <2>4 DEF SweepSpares, StoreInv
  <2> QED BY <1>2, <1>3, <2>1, <2>4, <2>5
<1>6. ASSUME Store!RmiOrphans PROVE StoreInv'
  <2>1. PICK gone \in SUBSET (sweep.orphans \cap DOMAIN tags) :
          /\ sweep.pc = "rmi" /\ tags' = Store!Less(tags, gone)
          /\ \E I \in SUBSET DOMAIN images : images' = Store!Less(images, I)
          /\ swept' = swept \cup {r \in gone : tags[r].by \in places \cap sweep.there}
          /\ sweep' = Store!NoSweep /\ UNCHANGED <<places, files, up>>
    <3> DEFINE gone == {r \in sweep.orphans \cap DOMAIN tags :
                 ~Store!Held(tags[r].image) \/ Store!TagsOf(tags[r].image) \ sweep.orphans # {}}
               I == {i \in DOMAIN images : Store!TagsOf(i) # {} /\ Store!TagsOf(i) \subseteq gone}
    <3>1. /\ sweep.pc = "rmi" /\ tags' = Store!Less(tags, gone) /\ images' = Store!Less(images, I)
          /\ swept' = swept \cup {r \in gone : tags[r].by \in places \cap sweep.there}
          /\ sweep' = Store!NoSweep /\ UNCHANGED <<places, files, up>>
      BY <1>6 DEF Store!RmiOrphans
    <3>2. gone \in SUBSET (sweep.orphans \cap DOMAIN tags) /\ I \in SUBSET DOMAIN images
      OBVIOUS
    <3> HIDE DEF gone, I
    <3> QED BY <3>1, <3>2
  <2>2. \A r \in gone : tags[r].by \notin sweep.there
    <3> SUFFICES ASSUME NEW r \in gone, tags[r].by \in sweep.there PROVE FALSE
      OBVIOUS
    <3>1. Store!Project(tags[r].by) \in sweep.live
      BY <2>1 DEF StoreInv, SweepSpares
    <3>2. Store!Project(tags[r].by) \in Store!Readings(r)
      BY <2>1 DEF StoreInv, TagsAreTheirBuilders
    <3>3. Store!Readings(r) \cap sweep.live = {}
      BY <2>1 DEF StoreInv, SweepSpares
    <3> QED BY <3>1, <3>2, <3>3
  <2>3. swept' = {}
    BY <2>1, <2>2 DEF StoreInv
  <2>4. /\ DOMAIN tags' \subseteq DOMAIN tags /\ \A r \in DOMAIN tags' : tags'[r] = tags[r]
        /\ DOMAIN images' \subseteq DOMAIN images /\ \A i \in DOMAIN images' : images'[i] = images[i]
    BY <2>1 DEF Store!Less, Store!Restrict
  <2>5. /\ TagsAreTheirBuilders' /\ FreshIsYoung' /\ UnnamedGoes' /\ StoreTyped'
    BY <1>3, <2>1, <2>4, StoreShrinks
  <2> QED BY <1>3, <2>1, <2>3, <2>5 DEF StoreInv
<1> QED BY <1>1, <1>4, <1>5, <1>6 DEF Store!Reclaim

LEMMA WorldStep ==
  ASSUME StoreInv, Store!World
  PROVE  StoreInv'
<1>0. /\ UNCHANGED <<sweep, swept>> /\ up \in [Store!Places -> ImageUps]
      /\ places \subseteq Store!Places
      /\ files \in [Store!Places -> ContextContents \cup {1}]
  BY DEF Store!World, Store!Worktree, Store!Edit, Store!DayPasses, Store!DockerBuilds, Store!Down,
         Store!BuildFails, Store!Event, StoreInv, StoreTyped
<1>1. SweepSpares'
  BY <1>0 DEF StoreInv, SweepSpares
<1>2. CASE Store!Worktree
  <2>1. /\ places' \subseteq Store!Places /\ UNCHANGED <<files, images, tags>>
        /\ up' = [q \in Store!Places |-> IF q \in places' THEN up[q] ELSE Store!NoUp]
    BY <1>0, <1>2 DEF Store!Worktree, Store!Places
  <2>2. /\ up' \in [Store!Places -> ImageUps]
        /\ \A q \in Store!Places : up'[q] \in {up[q], Store!NoUp}
    BY <1>0, <2>1, NoUpIsOne
  <2>3. StoreTyped'
    BY <1>0, <2>1, <2>2 DEF StoreInv, StoreTyped
  <2>4. FreshIsYoung' /\ UnnamedGoes'
    BY <2>1, <2>2, NoUpIsOne DEF StoreInv, FreshIsYoung, UnnamedGoes
  <2> QED BY <1>0, <1>1, <2>1, <2>3, <2>4 DEF StoreInv, TagsAreTheirBuilders
<1>3. CASE Store!Edit
  <2>1. PICK q \in places, c \in ContextContents : files' = [files EXCEPT ![q] = c]
    BY <1>3 DEF Store!Edit
  <2>2. files' \in [Store!Places -> ContextContents \cup {1}] /\ UNCHANGED <<places, images, tags, up>>
    BY <1>0, <1>3, <2>1 DEF Store!Edit
  <2> QED BY <1>0, <1>1, <2>2
          DEF StoreInv, StoreTyped, TagsAreTheirBuilders, FreshIsYoung, UnnamedGoes
<1>4. CASE Store!DayPasses
  <2>1. \A q \in Store!Places : up[q].fresh = {}
    BY <1>4 DEF Store!DayPasses, StoreInv, FreshIsYoung
  <2>2. UNCHANGED <<places, files, tags, up>>
    BY <1>4 DEF Store!DayPasses
  <2> QED BY <1>0, <1>1, <2>1, <2>2
          DEF StoreInv, StoreTyped, TagsAreTheirBuilders, FreshIsYoung, UnnamedGoes
<1>5. CASE Store!DockerBuilds
  <2>1. PICK q \in places, s \in Store!ServiceNames :
          /\ images' = Store!Stored(Store!Image(q, s))
          /\ tags' = Store!With(tags, Store!Ref(q, "-", s), [image |-> Store!Image(q, s), by |-> q])
    BY <1>5 DEF Store!DockerBuilds
  <2>2. "-" \in Joints /\ Store!Image(q, s) \in Layers /\ q \in Store!Places
    BY <1>0, ImageIsALayer DEF Joints, StoreInv
  <2>3. /\ DOMAIN tags' \subseteq Refs
        /\ \A r \in DOMAIN tags' : tags'[r] \in [image : Layers, by : Store!Places]
        /\ TagsAreTheirBuilders'
    BY <2>1, <2>2, TagPut
  <2>4. UNCHANGED <<places, files, up>>
    BY <1>5 DEF Store!DockerBuilds
  <2>5. \A j \in DOMAIN images' :
          (j \in DOMAIN images => images'[j] = images[j])
            /\ (j \notin DOMAIN images => images'[j] = "young")
    BY <2>1, ImageStored
  <2>6. FreshIsYoung' /\ UnnamedGoes'
    BY <2>4, <2>5 DEF StoreInv, FreshIsYoung, UnnamedGoes
  <2>7. StoreTyped'
    BY <1>0, <2>3, <2>4 DEF StoreInv, StoreTyped
  <2> QED BY <1>0, <1>1, <2>3, <2>6, <2>7 DEF StoreInv
<1>6. CASE Store!Down
  <2>1. UNCHANGED <<places, files, images, tags, up>>
    BY <1>6 DEF Store!Down
  <2> QED BY <1>0, <1>1, <2>1
          DEF StoreInv, StoreTyped, TagsAreTheirBuilders, FreshIsYoung, UnnamedGoes
<1>7. CASE Store!BuildFails
  <2>1. UNCHANGED <<places, files, images, tags>>
    BY <1>7 DEF Store!BuildFails
  <2>2. ASSUME NEW q \in Store!Places, NEW s \in Store!ServiceNames, up[q].pc = "build",
               Store!Goes(q, [up[q] EXCEPT !.services = @ \ {s}, !.failed = @ \cup {BuildOf[s]}])
        PROVE  StoreInv'
    <3> DEFINE v == up[q]
               w == [v EXCEPT !.services = @ \ {s}, !.failed = @ \cup {BuildOf[s]}]
    <3>1. v \in ImageUps /\ v.pc = "build"
      BY <1>0, <2>2
    <3> HIDE DEF v
    <3>2. w \in ImageUps /\ w.pc = "build" /\ w.fresh = v.fresh
      BY <3>1 DEF ImageUps
    <3>3. Store!Goes(q, w)
      BY <2>2 DEF v
    <3> HIDE DEF w
    <3> QED BY <1>0, <2>1, <3>2, <3>3, UpGoesOn DEF v
  <2>3. ASSUME NEW q \in Store!Places, Store!Goes(q, Store!NoUp) PROVE StoreInv'
    BY <1>0, <2>1, <2>3, NoUpIsOne, UpGoesOn
  <2> QED BY <1>7, <2>2, <2>3 DEF Store!BuildFails, Store!At
<1> QED BY <1>2, <1>3, <1>4, <1>5, <1>6, <1>7 DEF Store!World

(* No sweep takes an image from under a checkout that was there when it    *)
(* looked, nor a tag that was there when it asked, nor the layer of a      *)
(* build in flight (stack.reclaim, _remove_superseded).                    *)
THEOREM SweepsSpareTheLive == Store!Spec => []NothingLiveSwept
<1>1. Store!Init => StoreInv
  <2> SUFFICES ASSUME Store!Init PROVE StoreInv
    OBVIOUS
  <2>1. /\ places = {<<>>} /\ files = [q \in Store!Places |-> 1] /\ tags = <<>>
        /\ up = [q \in Store!Places |-> Store!NoUp] /\ sweep = Store!NoSweep /\ swept = {}
    BY DEF Store!Init
  <2>2. DOMAIN tags = {}
    BY <2>1
  <2>3. StoreTyped
    BY <2>1, <2>2, NoUpIsOne DEF StoreTyped, Store!NoSweep, Store!Places
  <2>4. TagsAreTheirBuilders /\ FreshIsYoung /\ UnnamedGoes /\ SweepSpares
    BY <2>1, <2>2, NoUpIsOne
       DEF TagsAreTheirBuilders, FreshIsYoung, UnnamedGoes, SweepSpares, Store!NoSweep
  <2> QED BY <2>1, <2>3, <2>4 DEF StoreInv
<1>2. StoreInv /\ [Store!Next]_(Store!vars) => StoreInv'
  <2> SUFFICES ASSUME StoreInv, [Store!Next]_(Store!vars) PROVE StoreInv'
    OBVIOUS
  <2>1. CASE Store!Next
    BY <2>1, UpStep, SweepStep, WorldStep DEF Store!Next
  <2>2. CASE UNCHANGED Store!vars
    BY <2>2 DEF Store!vars, StoreInv, StoreTyped, TagsAreTheirBuilders, FreshIsYoung, UnnamedGoes,
                SweepSpares
  <2> QED BY <2>1, <2>2
<1>3. StoreInv => NothingLiveSwept
  BY DEF StoreInv, NothingLiveSwept, Store!NothingLiveSwept
<1> QED BY <1>1, <1>2, <1>3, PTL DEF Store!Spec

-----------------------------------------------------------------------------
(* The dev box.                                                            *)

(* Records with the fields the model gives them, whatever these hold.      *)
IsBox(x) ==
  x \in [state : {x.state}, image : {x.image}, env : {x.env}, gvisor : {x.gvisor},
         runtime : {x.runtime}, version : {x.version}, by : {x.by}, set : {x.set}]
IsUp(v) ==
  v \in [pc : {v.pc}, kind : {v.kind}, expected : {v.expected}, label : {v.label}, of : {v.of},
         foldyard : {v.foldyard}, run : {v.run}, said : {v.said}, ok : {v.ok}, alone : {v.alone}]
Wants ==
  [def : Definitions, packages : PackageSets, env : [EnvKeys -> EnvValues \cup {0}], gvisor : BOOLEAN]

(* An image's label says what packages it has, and on which base.          *)
Labelled(i) ==
  \/ i.label = <<>>
  \/ i.packages = {} /\ i.label = <<i.label[1]>>
  \/ i.packages # {} /\ i.label = <<i.label[1], i.on, i.packages>>

(* The label a command asks the box's image to have, on base b.            *)
Asks(v, b) ==
  IF v.of.packages = {} THEN <<v.expected>> ELSE <<v.expected, b.id, v.of.packages>>

MadeAs(env, i) == [k \in EnvKeys |-> IF env[k] # 0 THEN env[k] ELSE ImageEnv[i.def][k]]

CrossedAt(x) == ~(x.set \subseteq x.by)

AsWanted(w, h, b, x) ==
  \/ x.image.label # <<>> /\ x.image.label[1] # x.image.def
  \/ CrossedAt(x)
  \/ /\ x.image.def = w.def /\ x.image.packages = w.packages
     /\ w.packages # {} => x.image.on = b.id
     /\ x.env = MadeAs(w.env, x.image)
     /\ x.runtime = IF w.gvisor THEN "gvisor" ELSE "own"
     /\ x.version = h

(* The box, whoever made it.                                               *)
BoxHolds(x) ==
  /\ IsBox(x) /\ Labelled(x.image) /\ x.gvisor \in BOOLEAN
  /\ x.state = "none" => x = Box!NoBox
  /\ x.state # "none" =>
       /\ \A k \in EnvKeys : x.env[k] = 0 => ImageEnv[x.image.def][k] = 0
       /\ x.env = [k \in EnvKeys |-> x.env[k]]
       /\ ~x.gvisor => x.runtime = "own"
  /\ x.by = {} \/ \E u \in BoxUps : x.by = {u}
  /\ (x.version # "" /\ x.gvisor) => CrossedAt(x) \/ x.runtime = "gvisor"

(* What command u, at v, may count on when wants are w, the host's         *)
(* foldyard h, the images b and l, and the box x: nothing but what it made *)
(* itself, unless it is alone.                                             *)
MakesIt(u, v, x) ==
  (v.pc \in {"check", "boot"} /\ x.by = {u}) =>
    /\ x.gvisor = v.of.gvisor
    /\ CrossedAt(x) \/ x.version = ""
    /\ (v.pc = "boot" /\ x.gvisor) => x.runtime = "gvisor"

Alone(u, v, w, h, b, l, x) ==
  /\ v.pc \in {"look", "remove", "image", "build", "make", "layer", "create", "check", "boot"} =>
       v.of = w /\ v.foldyard = h /\ v.expected = w.def
  /\ v.pc = "make" => v.label = w.def
  /\ v.pc \in {"layer", "create"} => b.label = <<v.expected>>
  /\ v.pc = "create" =>
       \/ v.run = "base" /\ v.of.packages = {}
       \/ v.run = "layer" /\ v.of.packages # {} /\ l.label = Asks(v, b)
  /\ v.pc \in {"check", "boot"} =>
       /\ x.by = {u} /\ x.state = "running"
       /\ x.image.label = Asks(v, b) /\ x.env = MadeAs(v.of.env, x.image)
  /\ (v.pc = "ended" /\ v.kind = "up" /\ v.ok /\ v.said = {}) => AsWanted(w, h, b, x)

UpHolds(u, v, w, h, b, l, x) ==
  /\ IsUp(v)
  /\ v.pc \in {"idle", "look", "remove", "image", "build", "make", "layer", "create", "check",
               "boot", "ended"}
  /\ v.pc \in {"look", "remove", "image", "create", "check", "boot"} => v.kind = "up"
  /\ v.pc \in {"build", "make", "layer"} => v.kind \in {"up", "build"}
  /\ v.pc \notin {"idle", "ended"} => v.of \in Wants
  /\ MakesIt(u, v, x)
  /\ v.alone => Alone(u, v, w, h, b, l, x)

BoxInv ==
  /\ want \in Wants /\ installed \in Versions
  /\ Labelled(base) /\ Labelled(layer) /\ base.packages = {}
  /\ BoxHolds(devbox)
  /\ launch = [u \in BoxUps |-> launch[u]]
  /\ \A u \in BoxUps : UpHolds(u, launch[u], want, installed, base, layer, devbox)

-----------------------------------------------------------------------------
(* A command goes on, and touches nothing.                                 *)
LEMMA UpGoes ==
  ASSUME BoxInv, NEW u \in BoxUps, NEW v, Box!Goes(u, v),
         UNCHANGED <<want, installed, base, layer, devbox>>,
         UpHolds(u, v, want, installed, base, layer, devbox)
  PROVE  BoxInv'
<1>1. /\ launch' = [w \in BoxUps |-> launch'[w]]
      /\ \A w \in BoxUps : launch'[w] = IF w = u THEN v ELSE launch[w]
  BY DEF BoxInv, Box!Goes
<1> QED BY <1>1 DEF BoxInv

(* What is left of a command whose picture was spoilt.                     *)
LEMMA SpoiltHolds ==
  ASSUME NEW u, NEW v, NEW w, NEW h, NEW b, NEW l, NEW x, UpHolds(u, v, w, h, b, l, x),
         NEW w2, NEW h2, NEW b2, NEW l2, NEW x2, MakesIt(u, v, x2)
  PROVE  UpHolds(u, [v EXCEPT !.alone = FALSE], w2, h2, b2, l2, x2)
<1> DEFINE s == [v EXCEPT !.alone = FALSE]
<1>1. /\ IsUp(s) /\ s.pc = v.pc /\ s.kind = v.kind /\ s.of = v.of /\ ~s.alone
  BY DEF UpHolds, IsUp
<1> HIDE DEF s
<1>2. MakesIt(u, s, x2)
  BY <1>1 DEF MakesIt
<1>3. UpHolds(u, s, w2, h2, b2, l2, x2)
  BY <1>1, <1>2 DEF UpHolds
<1> QED BY <1>3 DEF s

(* A command changes an image or the box, and the others are not alone.    *)
LEMMA UpTouches ==
  ASSUME BoxInv, NEW u \in BoxUps, NEW v, Box!Touches(u, v),
         UNCHANGED <<want, installed>>,
         Labelled(base'), Labelled(layer'), base'.packages = {}, BoxHolds(devbox'),
         devbox' = devbox \/ devbox'.by = {} \/ devbox'.by = {u},
         UpHolds(u, v, want, installed, base', layer', devbox')
  PROVE  BoxInv'
<1>1. /\ launch' = [w \in BoxUps |-> launch'[w]]
      /\ launch'[u] = v
      /\ \A w \in BoxUps \ {u} : launch'[w] = [launch[w] EXCEPT !.alone = FALSE]
  BY DEF Box!Touches
<1>2. ASSUME NEW w \in BoxUps \ {u}
      PROVE  UpHolds(w, launch'[w], want, installed, base', layer', devbox')
  <2> DEFINE o == launch[w]
  <2>1. UpHolds(w, o, want, installed, base, layer, devbox)
    BY DEF BoxInv
  <2>2. launch'[w] = [o EXCEPT !.alone = FALSE]
    BY <1>1
  <2> HIDE DEF o
  <2>3. MakesIt(w, o, devbox')
    BY <2>1 DEF MakesIt, UpHolds
  <2>4. UpHolds(w, [o EXCEPT !.alone = FALSE], want, installed, base', layer', devbox')
    BY <2>1, <2>3, SpoiltHolds
  <2> QED BY <2>2, <2>4
<1> QED BY <1>1, <1>2 DEF BoxInv

(* Something else changes, and nobody is alone.                            *)
LEMMA WorldSpoils ==
  ASSUME BoxInv, Box!Spoil, want' \in Wants, installed' \in Versions, UNCHANGED <<base, layer>>,
         BoxHolds(devbox'),
         devbox'.by # {} => devbox'.by = devbox.by /\ devbox'.gvisor = devbox.gvisor /\ devbox'.set = devbox.set
                            /\ devbox'.version = devbox.version /\ devbox'.runtime = devbox.runtime
  PROVE  BoxInv'
<1>1. /\ launch' = [w \in BoxUps |-> launch'[w]]
      /\ \A w \in BoxUps : launch'[w] = [launch[w] EXCEPT !.alone = FALSE]
  BY DEF Box!Spoil
<1>2. ASSUME NEW w \in BoxUps
      PROVE  UpHolds(w, launch'[w], want', installed', base', layer', devbox')
  <2> DEFINE o == launch[w]
  <2>1. UpHolds(w, o, want, installed, base, layer, devbox)
    BY DEF BoxInv
  <2>2. launch'[w] = [o EXCEPT !.alone = FALSE]
    BY <1>1
  <2> HIDE DEF o
  <2>3. MakesIt(w, o, devbox')
    BY <2>1 DEF MakesIt, UpHolds, CrossedAt
  <2>4. UpHolds(w, [o EXCEPT !.alone = FALSE], want', installed', base', layer', devbox')
    BY <2>1, <2>3, SpoiltHolds
  <2> QED BY <2>2, <2>4
<1> QED BY <1>1, <1>2 DEF BoxInv

LEMMA NoBoxHolds ==
  /\ BoxHolds(Box!NoBox) /\ Box!NoBox.by = {} /\ Box!NoBox.state = "none" /\ Box!NoBox.version = ""
  /\ Labelled(Box!NoImage) /\ Box!NoImage.packages = {} /\ Box!NoImage.label = <<>>
<1>1. /\ IsBox(Box!NoBox) /\ Box!NoBox.by = {} /\ Box!NoBox.state = "none" /\ Box!NoBox.version = ""
      /\ Box!NoBox.gvisor = FALSE /\ Box!NoBox.image = Box!NoImage
  BY DEF Box!NoBox, IsBox
<1>2. Labelled(Box!NoImage) /\ Box!NoImage.packages = {} /\ Box!NoImage.label = <<>>
  BY DEF Box!NoImage, Labelled
<1> QED BY <1>1, <1>2 DEF BoxHolds

(* What the label of an image says of it.                                  *)
LEMMA LabelTells ==
  ASSUME NEW i, Labelled(i), NEW v, NEW b, i.label = Asks(v, b)
  PROVE  /\ i.label # <<>> /\ i.label[1] = v.expected /\ i.packages = v.of.packages
         /\ v.of.packages # {} => i.on = b.id
<1> DEFINE p == v.of.packages
           e == v.expected
           n == b.id
<1>1. i.label = IF p = {} THEN <<e>> ELSE <<e, n, p>>
  BY DEF Asks
<1> HIDE DEF p, e, n
<1>2. i.label # <<>> /\ i.label[1] = e
  BY <1>1
<1>3. CASE p = {}
  <2>1. Len(i.label) = 1
    BY <1>1, <1>3
  <2>2. i.packages = {}
    BY <1>2, <2>1 DEF Labelled
  <2> QED BY <1>2, <1>3, <2>2 DEF p, e, n
<1>4. CASE p # {}
  <2>1. Len(i.label) = 3 /\ i.label[2] = n /\ i.label[3] = p
    BY <1>1, <1>4
  <2>2. i.packages # {} /\ i.label = <<i.label[1], i.on, i.packages>>
    BY <1>2, <2>1 DEF Labelled
  <2>3. i.on = n /\ i.packages = p
    BY <2>1, <2>2
  <2> QED BY <1>2, <1>4, <2>3 DEF p, e, n
<1> QED BY <1>3, <1>4

(* A command that ends.                                                    *)
LEMMA EndsHold ==
  ASSUME BoxInv, NEW u \in BoxUps, NEW v, IsUp(v), v.pc = "ended",
         (v.alone /\ v.kind = "up" /\ v.ok /\ v.said = {}) =>
           AsWanted(want, installed, base, devbox)
  PROVE  UpHolds(u, v, want, installed, base, layer, devbox)
  BY DEF UpHolds, Alone, MakesIt

LEMMA IdleHolds ==
  /\ IsUp(Box!Idle) /\ Box!Idle.pc = "idle" /\ Box!Idle.alone
  /\ \A u, w, h, b, l, x : UpHolds(u, Box!Idle, w, h, b, l, x)
<1>1. IsUp(Box!Idle) /\ Box!Idle.pc = "idle" /\ Box!Idle.alone
  BY DEF Box!Idle, IsUp
<1> QED BY <1>1 DEF UpHolds, Alone, MakesIt

LEMMA BeginStep ==
  ASSUME BoxInv, NEW u \in BoxUps, Box!Begin(u)
  PROVE  BoxInv'
<1>0. UNCHANGED <<want, installed, base, layer, devbox>>
  BY DEF Box!Begin, Box!World
<1>1. PICK kind \in {"up", "build"} :
        \/ Box!Goes(u, [Box!Idle EXCEPT !.pc = IF kind = "up" THEN "look" ELSE "build",
                               !.kind = kind, !.expected = want.def,
                               !.of = want, !.foldyard = installed])
        \/ Box!Goes(u, Box!End([Box!Idle EXCEPT !.kind = kind], FALSE))
  BY DEF Box!Begin
<1> DEFINE pc == IF kind = "up" THEN "look" ELSE "build"
           s == [Box!Idle EXCEPT !.pc = pc, !.kind = kind, !.expected = want.def, !.of = want,
                                 !.foldyard = installed]
           e == Box!End([Box!Idle EXCEPT !.kind = kind], FALSE)
<1>2. pc = IF kind = "up" THEN "look" ELSE "build"
  OBVIOUS
<1>3. Box!Goes(u, s) \/ Box!Goes(u, e)
  BY <1>1
<1> HIDE DEF pc
<1>4. /\ IsUp(s) /\ s.pc = pc /\ s.kind = kind /\ s.expected = want.def /\ s.of = want
      /\ s.foldyard = installed
  BY IdleHolds DEF IsUp
<1>5. IsUp(e) /\ e.pc = "ended" /\ ~e.ok
  BY IdleHolds DEF IsUp, Box!End
<1> HIDE DEF s, e
<1>6. UpHolds(u, s, want, installed, base, layer, devbox)
  <2>1. want \in Wants
    BY DEF BoxInv
  <2> QED BY <1>2, <1>4, <2>1 DEF UpHolds, Alone, MakesIt
<1>7. UpHolds(u, e, want, installed, base, layer, devbox)
  BY <1>5, EndsHold
<1> QED BY <1>0, <1>3, <1>6, <1>7, UpGoes

(* Whoever finds the box up, and nothing to say of it, finds it current.   *)
LEMMA AlreadyStep ==
  ASSUME BoxInv, NEW u \in BoxUps, Box!Already(u)
  PROVE  BoxInv'
<1> DEFINE v == launch[u]
           said == {w \in {"runtime", "image", "agent", "foldyard"} :
                      CASE w = "runtime" -> Box!StaleRuntime(v)
                        [] w = "image" -> devbox.image.label # Box!RunLabel(v)
                        [] w = "agent" -> v.of.env[AgentKey] # 0 /\ devbox.env[AgentKey] = 0
                        [] w = "foldyard" -> Box!StaleFoldyard(v)}
           all == said \cup Box!Drifted(v)
           e == Box!End([v EXCEPT !.said = all], TRUE)
<1>1. /\ v.pc = "look" /\ devbox.state = "running" /\ Box!Goes(u, e)
      /\ UNCHANGED <<want, installed, base, layer, devbox>>
  BY DEF Box!Already, Box!World, Box!At
<1>2. UpHolds(u, v, want, installed, base, layer, devbox) /\ BoxHolds(devbox) /\ want \in Wants
      /\ installed \in Versions
  BY DEF BoxInv
<1>3. all = {} => /\ ~Box!StaleRuntime(v) /\ devbox.image.label = Box!RunLabel(v)
                  /\ ~Box!StaleFoldyard(v) /\ Box!Drifted(v) = {}
  <2> SUFFICES ASSUME all = {} PROVE /\ ~Box!StaleRuntime(v) /\ devbox.image.label = Box!RunLabel(v)
                                     /\ ~Box!StaleFoldyard(v) /\ Box!Drifted(v) = {}
    OBVIOUS
  <2>1. "runtime" \notin said /\ "image" \notin said /\ "foldyard" \notin said /\ Box!Drifted(v) = {}
    OBVIOUS
  <2> QED BY <2>1
<1> HIDE DEF all
<1> HIDE DEF said
<1> HIDE DEF v
<1>4. /\ IsUp(e) /\ e.pc = "ended" /\ e.kind = v.kind /\ e.said = all /\ e.alone = v.alone
  BY <1>2 DEF UpHolds, IsUp, Box!End
<1> HIDE DEF e
<1>5. ASSUME v.alone, all = {} PROVE AsWanted(want, installed, base, devbox)
  <2>1. v.of = want /\ v.foldyard = installed /\ v.expected = want.def
    BY <1>1, <1>2, <1>5 DEF UpHolds, Alone
  <2>2. devbox.image.label = Asks(v, base) /\ devbox.gvisor = v.of.gvisor /\ devbox.version = installed
    BY <1>3, <1>5, <2>1
       DEF Box!RunLabel, Box!Label, Box!LayerLabel, Asks, Box!StaleRuntime, Box!StaleFoldyard
  <2>3. /\ devbox.image.label # <<>> /\ devbox.image.label[1] = want.def
        /\ devbox.image.packages = want.packages
        /\ want.packages # {} => devbox.image.on = base.id
    <3>1. Labelled(devbox.image)
      BY <1>2 DEF BoxHolds
    <3>2. /\ devbox.image.label # <<>> /\ devbox.image.label[1] = v.expected
          /\ devbox.image.packages = v.of.packages
          /\ v.of.packages # {} => devbox.image.on = base.id
      BY <2>2, <3>1, LabelTells
    <3> QED BY <2>1, <3>2
  <2>4. CrossedAt(devbox) \/ devbox.runtime = IF want.gvisor THEN "gvisor" ELSE "own"
    BY <1>1, <1>2, <2>1, <2>2, VersionsAssumption DEF BoxHolds, Wants
  <2>5. ASSUME devbox.image.def = want.def PROVE devbox.env = MadeAs(want.env, devbox.image)
    <3>1. ASSUME NEW k \in EnvKeys
          PROVE  devbox.env[k] = IF want.env[k] # 0 THEN want.env[k] ELSE ImageEnv[devbox.image.def][k]
      <4>1. ~Box!Differs(k, want.env)
        BY <1>3, <1>5, <2>1 DEF Box!Drifted
      <4>2. devbox.env[k] = 0 => ImageEnv[devbox.image.def][k] = 0
        BY <1>1, <1>2 DEF BoxHolds
      <4> QED BY <4>1, <4>2 DEF Box!Differs
    <3>2. devbox.env = [k \in EnvKeys |-> devbox.env[k]]
      BY <1>1, <1>2 DEF BoxHolds
    <3> QED BY <3>1, <3>2 DEF MadeAs
  <2> QED BY <2>2, <2>3, <2>4, <2>5 DEF AsWanted
<1>6. UpHolds(u, e, want, installed, base, layer, devbox)
  BY <1>4, <1>5, EndsHold
<1> QED BY <1>1, <1>6, UpGoes

(* The steps that only move a command on.                                  *)
LEMMA MoveStep ==
  ASSUME BoxInv, NEW u \in BoxUps,
         \/ Box!NotUp(u) \/ Box!Measure(u) \/ Box!Finish(u) \/ Box!Kill(u)
  PROVE  BoxInv'
<1> DEFINE v == launch[u]
<1>0. UNCHANGED <<want, installed, base, layer, devbox>>
  BY DEF Box!NotUp, Box!Measure, Box!Finish, Box!Kill, Box!World
<1>1. UpHolds(u, v, want, installed, base, layer, devbox)
  BY DEF BoxInv
<1> DEFINE n == [v EXCEPT !.pc = "remove"]
           m == [v EXCEPT !.pc = "make", !.label = want.def]
<1>2. \/ v.pc = "look" /\ Box!Goes(u, n)
      \/ v.pc = "build" /\ Box!Goes(u, m)
      \/ Box!Goes(u, Box!Idle)
  BY DEF Box!NotUp, Box!Measure, Box!Finish, Box!Kill, Box!At
<1> HIDE DEF v
<1>3. CASE v.pc = "look" /\ Box!Goes(u, n)
  <2>1. /\ IsUp(n) /\ n.pc = "remove" /\ n.kind = v.kind /\ n.expected = v.expected /\ n.of = v.of
        /\ n.foldyard = v.foldyard /\ n.alone = v.alone
    BY <1>1 DEF UpHolds, IsUp
  <2> HIDE DEF n
  <2>2. UpHolds(u, n, want, installed, base, layer, devbox)
    BY <1>1, <1>3, <2>1 DEF UpHolds, Alone, MakesIt
  <2> QED BY <1>0, <1>3, <2>2, UpGoes
<1>4. CASE v.pc = "build" /\ Box!Goes(u, m)
  <2>1. /\ IsUp(m) /\ m.pc = "make" /\ m.kind = v.kind /\ m.expected = v.expected /\ m.of = v.of
        /\ m.foldyard = v.foldyard /\ m.alone = v.alone /\ m.label = want.def
    BY <1>1 DEF UpHolds, IsUp
  <2> HIDE DEF m
  <2>2. UpHolds(u, m, want, installed, base, layer, devbox)
    BY <1>1, <1>4, <2>1 DEF UpHolds, Alone, MakesIt
  <2> QED BY <1>0, <1>4, <2>2, UpGoes
<1>5. CASE Box!Goes(u, Box!Idle)
  BY <1>0, <1>5, IdleHolds, UpGoes
<1> QED BY <1>2, <1>3, <1>4, <1>5

(* A box that does not run is removed.                                     *)
LEMMA RemoveStep ==
  ASSUME BoxInv, NEW u \in BoxUps, Box!Remove(u)
  PROVE  BoxInv'
<1> DEFINE v == launch[u]
           n == [v EXCEPT !.pc = "image"]
<1>1. /\ v.pc = "remove" /\ devbox' = Box!NoBox /\ UNCHANGED <<want, installed, base, layer>>
      /\ IF devbox.state = "none" THEN Box!Goes(u, n) ELSE Box!Touches(u, n)
  BY DEF Box!Remove, Box!World, Box!At
<1>2. UpHolds(u, v, want, installed, base, layer, devbox) /\ BoxHolds(devbox)
      /\ Labelled(base) /\ Labelled(layer) /\ base.packages = {}
  BY DEF BoxInv
<1> HIDE DEF v
<1>3. /\ IsUp(n) /\ n.pc = "image" /\ n.kind = v.kind /\ n.expected = v.expected /\ n.of = v.of
      /\ n.foldyard = v.foldyard /\ n.alone = v.alone
  BY <1>2 DEF UpHolds, IsUp
<1> HIDE DEF n
<1>4. ASSUME NEW x PROVE UpHolds(u, n, want, installed, base, layer, x)
  BY <1>1, <1>2, <1>3 DEF UpHolds, Alone, MakesIt
<1>5. CASE devbox.state = "none"
  <2>1. devbox' = devbox
    BY <1>1, <1>2, <1>5 DEF BoxHolds
  <2> QED BY <1>1, <1>4, <1>5, <2>1, UpGoes
<1>6. CASE devbox.state # "none"
  <2>1. BoxHolds(devbox') /\ devbox'.by = {}
    BY <1>1, NoBoxHolds
  <2>2. Labelled(base') /\ Labelled(layer') /\ base'.packages = {}
    BY <1>1, <1>2
  <2>3. UpHolds(u, n, want, installed, base', layer', devbox')
    BY <1>1, <1>4
  <2> QED BY <1>1, <1>6, <2>1, <2>2, <2>3, UpTouches
<1> QED BY <1>5, <1>6

(* The base VM's image has the label of its definition.                    *)
LEMMA ImageStep ==
  ASSUME BoxInv, NEW u \in BoxUps, Box!Image(u)
  PROVE  BoxInv'
<1> DEFINE v == launch[u]
           n == [v EXCEPT !.pc = "layer"]
           m == [v EXCEPT !.pc = "build"]
<1>1. /\ v.pc = "image" /\ UNCHANGED <<want, installed, layer, devbox>>
      /\ \/ /\ base.label = Box!Label(v.expected) /\ Box!Goes(u, n) /\ base' = base
         \/ /\ v.expected = BaseDefinition /\ base' = Box!VMImage /\ Box!Touches(u, n)
         \/ /\ Box!Goes(u, m) /\ base' = base
  BY DEF Box!Image, Box!World, Box!At
<1>2. UpHolds(u, v, want, installed, base, layer, devbox) /\ BoxHolds(devbox)
      /\ Labelled(base) /\ Labelled(layer) /\ base.packages = {}
  BY DEF BoxInv
<1> HIDE DEF v
<1>3. /\ IsUp(n) /\ n.pc = "layer" /\ n.kind = v.kind /\ n.expected = v.expected /\ n.of = v.of
      /\ n.foldyard = v.foldyard /\ n.alone = v.alone
  BY <1>2 DEF UpHolds, IsUp
<1>4. /\ IsUp(m) /\ m.pc = "build" /\ m.kind = v.kind /\ m.expected = v.expected /\ m.of = v.of
      /\ m.foldyard = v.foldyard /\ m.alone = v.alone
  BY <1>2 DEF UpHolds, IsUp
<1> HIDE DEF n, m
<1>5. ASSUME NEW b, b.label = <<v.expected>> PROVE UpHolds(u, n, want, installed, b, layer, devbox)
  BY <1>1, <1>2, <1>3, <1>5 DEF UpHolds, Alone, MakesIt
<1>6. CASE base.label = Box!Label(v.expected) /\ Box!Goes(u, n) /\ base' = base
  <2>1. UpHolds(u, n, want, installed, base, layer, devbox)
    BY <1>5, <1>6 DEF Box!Label
  <2> QED BY <1>1, <1>6, <2>1, UpGoes
<1>7. CASE v.expected = BaseDefinition /\ base' = Box!VMImage /\ Box!Touches(u, n)
  <2>1. base'.label = <<v.expected>> /\ base'.packages = {}
    BY <1>7 DEF Box!VMImage, Box!NoImage
  <2>2. Labelled(base')
    BY <2>1 DEF Labelled
  <2>3. UpHolds(u, n, want, installed, base', layer', devbox')
    BY <1>1, <1>5, <2>1
  <2>4. Labelled(layer') /\ BoxHolds(devbox') /\ devbox' = devbox
    BY <1>1, <1>2
  <2> QED BY <1>1, <1>7, <2>1, <2>2, <2>3, <2>4, UpTouches
<1>8. CASE Box!Goes(u, m) /\ base' = base
  <2>1. UpHolds(u, m, want, installed, base, layer, devbox)
    BY <1>1, <1>2, <1>4 DEF UpHolds, Alone, MakesIt
  <2> QED BY <1>1, <1>8, <2>1, UpGoes
<1> QED BY <1>1, <1>6, <1>7, <1>8

(* A build labels the image with what the file said.                       *)
LEMMA BuildStep ==
  ASSUME BoxInv, NEW u \in BoxUps, Box!Build(u)
  PROVE  BoxInv'
<1> DEFINE v == launch[u]
           n == [v EXCEPT !.pc = "layer", !.label = ""]
           made(id) == [Box!NoImage EXCEPT !.id = id, !.label = Box!Label(v.label), !.def = want.def]
           e == Box!End(v, FALSE)
<1>1. /\ v.pc = "make" /\ UNCHANGED <<want, installed, layer, devbox>>
      /\ \/ base = made(base.id) /\ Box!Goes(u, n) /\ base' = base
         \/ base' = made(fresh) /\ Box!Touches(u, n)
         \/ Box!Goes(u, e) /\ base' = base
  BY DEF Box!Build, Box!World, Box!At
<1>2. UpHolds(u, v, want, installed, base, layer, devbox) /\ BoxHolds(devbox)
      /\ Labelled(base) /\ Labelled(layer) /\ base.packages = {}
  BY DEF BoxInv
<1> HIDE DEF v
<1>3. /\ IsUp(n) /\ n.pc = "layer" /\ n.kind = v.kind /\ n.expected = v.expected /\ n.of = v.of
      /\ n.foldyard = v.foldyard /\ n.alone = v.alone
  BY <1>2 DEF UpHolds, IsUp
<1>4. IsUp(e) /\ e.pc = "ended" /\ ~e.ok
  BY <1>2 DEF UpHolds, IsUp, Box!End
<1> HIDE DEF n, e
<1>5. ASSUME NEW id PROVE made(id).label = <<v.label>> /\ made(id).packages = {}
  BY DEF Box!NoImage, Box!Label
<1> HIDE DEF made
<1>6. ASSUME NEW b, b.label = <<v.label>> PROVE UpHolds(u, n, want, installed, b, layer, devbox)
  BY <1>1, <1>2, <1>3, <1>6 DEF UpHolds, Alone, MakesIt
<1>7. CASE base = made(base.id) /\ Box!Goes(u, n) /\ base' = base
  <2>1. UpHolds(u, n, want, installed, base, layer, devbox)
    BY <1>5, <1>6, <1>7
  <2> QED BY <1>1, <1>7, <2>1, UpGoes
<1>8. CASE base' = made(fresh) /\ Box!Touches(u, n)
  <2>1. base'.label = <<v.label>> /\ base'.packages = {}
    BY <1>5, <1>8
  <2>2. Labelled(base')
    BY <2>1 DEF Labelled
  <2>3. UpHolds(u, n, want, installed, base', layer', devbox')
    BY <1>1, <1>6, <2>1
  <2>4. Labelled(layer') /\ BoxHolds(devbox') /\ devbox' = devbox
    BY <1>1, <1>2
  <2> QED BY <1>1, <1>8, <2>1, <2>2, <2>3, <2>4, UpTouches
<1>9. CASE Box!Goes(u, e) /\ base' = base
  <2>1. UpHolds(u, e, want, installed, base, layer, devbox)
    BY <1>4, EndsHold
  <2> QED BY <1>1, <1>9, <2>1, UpGoes
<1> QED BY <1>1, <1>7, <1>8, <1>9

(* The layer of packages is labelled with the base it was put on.          *)
LEMMA LayerStep ==
  ASSUME BoxInv, NEW u \in BoxUps, Box!Layer(u)
  PROVE  BoxInv'
<1> DEFINE v == launch[u]
           d == IF v.kind = "build" THEN want.def ELSE v.expected
           label == Box!LayerLabel(d, base.id, v.of.packages)
           c(i) == [v EXCEPT !.pc = "create", !.run = i]
           end == Box!End(v, TRUE)
           then(i) == IF v.kind = "build" THEN end ELSE c(i)
           made == [Box!NoImage EXCEPT !.id = fresh, !.label = label, !.def = base.def, !.on = base.id,
                                       !.packages = v.of.packages]
           e == Box!End(v, FALSE)
<1>1. /\ v.pc = "layer" /\ UNCHANGED <<want, installed, base, devbox>>
      /\ \/ v.of.packages = {} /\ Box!Goes(u, then("base")) /\ layer' = layer
         \/ /\ v.of.packages # {} /\ layer.label = label /\ v.kind = "up"
            /\ Box!Goes(u, then("layer")) /\ layer' = layer
         \/ v.of.packages # {} /\ layer' = made /\ Box!Touches(u, then("layer"))
         \/ Box!Goes(u, e) /\ layer' = layer
  BY DEF Box!Layer, Box!World, Box!At
<1>2. UpHolds(u, v, want, installed, base, layer, devbox) /\ BoxHolds(devbox)
      /\ Labelled(base) /\ Labelled(layer) /\ base.packages = {}
  BY DEF BoxInv
<1>3. v.kind \in {"up", "build"} /\ (v.kind = "up" => d = v.expected)
  BY <1>1, <1>2 DEF UpHolds
<1>4. label = <<d, base.id, v.of.packages>>
  BY DEF Box!LayerLabel
<1> HIDE DEF label
<1>5. /\ made.label = label /\ made.on = base.id /\ made.packages = v.of.packages
  BY DEF Box!NoImage
<1>6. v.kind = "build" \/ v.kind = "up"
  BY <1>3
<1>7. \A i : then(i) = IF v.kind = "build" THEN end ELSE c(i)
  OBVIOUS
<1> HIDE DEF made, d, then
<1> HIDE DEF v
<1>8. /\ IsUp(end) /\ end.pc = "ended" /\ end.kind = v.kind
      /\ IsUp(e) /\ e.pc = "ended" /\ ~e.ok
  BY <1>2 DEF UpHolds, IsUp, Box!End
<1>9. ASSUME NEW i
      PROVE  /\ IsUp(c(i)) /\ c(i).pc = "create" /\ c(i).kind = v.kind /\ c(i).expected = v.expected
             /\ c(i).of = v.of /\ c(i).foldyard = v.foldyard /\ c(i).alone = v.alone /\ c(i).run = i
  BY <1>2 DEF UpHolds, IsUp
<1> HIDE DEF c, end, e
<1>10. ASSUME NEW i, NEW l,
              v.kind = "up" =>
                \/ i = "base" /\ v.of.packages = {}
                \/ i = "layer" /\ v.of.packages # {} /\ l.label = label
       PROVE  UpHolds(u, then(i), want, installed, base, l, devbox)
  <2>1. CASE v.kind = "build"
    <3>1. then(i) = end
      BY <1>7, <2>1
    <3>2. UpHolds(u, end, want, installed, base, l, devbox)
      BY <1>8, <2>1 DEF UpHolds, Alone, MakesIt
    <3> QED BY <3>1, <3>2
  <2>2. CASE v.kind = "up"
    <3>1. then(i) = c(i)
      BY <1>7, <2>2
    <3>2. MakesIt(u, c(i), devbox)
      BY <1>9 DEF MakesIt
    <3>3. v.of.packages # {} => label = Asks(c(i), base)
      BY <1>3, <1>4, <1>9, <2>2 DEF Asks
    <3>4. v.alone => Alone(u, c(i), want, installed, base, l, devbox)
      BY <1>1, <1>2, <1>9, <1>10, <2>2, <3>3 DEF UpHolds, Alone
    <3>5. UpHolds(u, c(i), want, installed, base, l, devbox)
      BY <1>1, <1>2, <1>9, <2>2, <3>2, <3>4 DEF UpHolds
    <3> QED BY <3>1, <3>5
  <2> QED BY <1>6, <2>1, <2>2
<1>11. CASE v.of.packages = {} /\ Box!Goes(u, then("base")) /\ layer' = layer
  <2>1. UpHolds(u, then("base"), want, installed, base, layer, devbox)
    BY <1>10, <1>11
  <2> QED BY <1>1, <1>11, <2>1, UpGoes
<1>12. CASE /\ v.of.packages # {} /\ layer.label = label
            /\ Box!Goes(u, then("layer")) /\ layer' = layer
  <2>1. UpHolds(u, then("layer"), want, installed, base, layer, devbox)
    BY <1>10, <1>12
  <2> QED BY <1>1, <1>12, <2>1, UpGoes
<1>13. CASE v.of.packages # {} /\ layer' = made /\ Box!Touches(u, then("layer"))
  <2>1. layer'.label = label /\ layer'.on = base.id /\ layer'.packages = v.of.packages
    BY <1>5, <1>13
  <2>2. layer'.label[1] = d
    BY <1>4, <2>1
  <2>3. Labelled(layer')
    BY <1>4, <1>13, <2>1, <2>2 DEF Labelled
  <2>4. UpHolds(u, then("layer"), want, installed, base', layer', devbox')
    BY <1>1, <1>10, <1>13, <2>1
  <2>5. Labelled(base') /\ base'.packages = {} /\ BoxHolds(devbox') /\ devbox' = devbox
    BY <1>1, <1>2
  <2> QED BY <1>1, <1>13, <2>3, <2>4, <2>5, UpTouches
<1>14. CASE Box!Goes(u, e) /\ layer' = layer
  <2>1. UpHolds(u, e, want, installed, base, layer, devbox)
    BY <1>8, EndsHold
  <2> QED BY <1>1, <1>14, <2>1, UpGoes
<1> QED BY <1>1, <1>11, <1>12, <1>13, <1>14

(* The box that is created is of the image that was seen to.               *)
LEMMA CreateBoxStep ==
  ASSUME BoxInv, NEW u \in BoxUps, Box!Create(u)
  PROVE  BoxInv'
<1> DEFINE v == launch[u]
           image == IF v.run = "base" THEN base ELSE layer
           env == Box!EnvOf(v.of.env, image)
           runtime == IF v.of.gvisor /\ sandboxed THEN "gvisor" ELSE "own"
           g == v.of.gvisor
           x == [Box!NoBox EXCEPT !.state = "running", !.image = image, !.env = env, !.gvisor = g,
                                  !.by = {u}, !.runtime = runtime]
           n == [v EXCEPT !.pc = "check"]
           e == Box!End(v, FALSE)
<1>1. /\ v.pc = "create" /\ UNCHANGED <<want, installed, base, layer>>
      /\ \/ devbox' = x /\ Box!Touches(u, n)
         \/ Box!Goes(u, e) /\ devbox' = devbox
  BY DEF Box!Create, Box!World, Box!At
<1>2. UpHolds(u, v, want, installed, base, layer, devbox) /\ BoxHolds(devbox)
      /\ Labelled(base) /\ Labelled(layer) /\ base.packages = {}
  BY DEF BoxInv
<1>3. Labelled(image) /\ (v.run = "base" => image = base) /\ (v.run # "base" => image = layer)
  BY <1>2
<1>4. env = MadeAs(v.of.env, image)
  BY DEF Box!EnvOf, MadeAs
<1>5. ~g => runtime = "own"
  OBVIOUS
<1>6. g = v.of.gvisor
  OBVIOUS
<1> HIDE DEF image, env, runtime, g
<1>7. /\ IsBox(x) /\ x.state = "running" /\ x.image = image /\ x.env = env /\ x.gvisor = g
      /\ x.by = {u} /\ x.set = {} /\ x.runtime = runtime /\ x.version = ""
  BY DEF Box!NoBox, IsBox
<1> HIDE DEF x
<1> HIDE DEF v
<1>8. /\ IsUp(n) /\ n.pc = "check" /\ n.kind = v.kind /\ n.expected = v.expected /\ n.of = v.of
      /\ n.foldyard = v.foldyard /\ n.alone = v.alone
      /\ IsUp(e) /\ e.pc = "ended" /\ ~e.ok
  BY <1>2 DEF UpHolds, IsUp, Box!End
<1> HIDE DEF n, e
<1>9. CASE devbox' = x /\ Box!Touches(u, n)
  <2>1. g \in BOOLEAN
    BY <1>1, <1>2, <1>6 DEF UpHolds, Wants
  <2>2. /\ env = [k \in EnvKeys |-> env[k]]
        /\ \A k \in EnvKeys : env[k] = 0 => ImageEnv[image.def][k] = 0
    BY <1>4 DEF MadeAs
  <2>3. BoxHolds(x)
    BY <1>3, <1>5, <1>7, <2>1, <2>2 DEF BoxHolds
  <2>4. MakesIt(u, n, x)
    BY <1>6, <1>7, <1>8 DEF MakesIt
  <2>5. v.alone => image.label = Asks(n, base)
    BY <1>1, <1>2, <1>3, <1>8 DEF UpHolds, Alone, Asks
  <2>6. n.alone => Alone(u, n, want, installed, base, layer, x)
    BY <1>1, <1>2, <1>4, <1>7, <1>8, <2>5 DEF UpHolds, Alone
  <2>7. UpHolds(u, n, want, installed, base, layer, x)
    BY <1>1, <1>2, <1>8, <2>4, <2>6 DEF UpHolds
  <2>8. /\ Labelled(base') /\ Labelled(layer') /\ base'.packages = {}
        /\ BoxHolds(devbox') /\ devbox'.by = {u}
        /\ UpHolds(u, n, want, installed, base', layer', devbox')
    BY <1>1, <1>2, <1>7, <1>9, <2>3, <2>7
  <2> QED BY <1>1, <1>9, <2>8, UpTouches
<1>10. CASE Box!Goes(u, e) /\ devbox' = devbox
  <2>1. UpHolds(u, e, want, installed, base, layer, devbox)
    BY <1>8, EndsHold
  <2> QED BY <1>1, <1>10, <2>1, UpGoes
<1> QED BY <1>1, <1>9, <1>10

(* A box outside the runtime it was asked to have is removed.              *)
LEMMA CheckBoxStep ==
  ASSUME BoxInv, NEW u \in BoxUps, Box!Check(u)
  PROVE  BoxInv'
<1> DEFINE v == launch[u]
           n == [v EXCEPT !.pc = "boot"]
           e == Box!End(v, FALSE)
<1>1. /\ v.pc = "check" /\ UNCHANGED <<want, installed, base, layer>>
      /\ \/ Box!RightRuntime(v) /\ Box!Goes(u, n) /\ devbox' = devbox
         \/ devbox' = Box!NoBox /\ Box!Touches(u, e)
  BY DEF Box!Check, Box!World, Box!At
<1>2. UpHolds(u, v, want, installed, base, layer, devbox) /\ BoxHolds(devbox)
      /\ Labelled(base) /\ Labelled(layer) /\ base.packages = {}
  BY DEF BoxInv
<1> HIDE DEF v
<1>3. /\ IsUp(n) /\ n.pc = "boot" /\ n.kind = v.kind /\ n.expected = v.expected /\ n.of = v.of
      /\ n.foldyard = v.foldyard /\ n.alone = v.alone
      /\ IsUp(e) /\ e.pc = "ended" /\ ~e.ok
  BY <1>2 DEF UpHolds, IsUp, Box!End
<1> HIDE DEF n, e
<1>4. CASE Box!RightRuntime(v) /\ Box!Goes(u, n) /\ devbox' = devbox
  <2>1. v.of.gvisor => devbox.runtime = "gvisor"
    BY <1>4 DEF Box!RightRuntime
  <2>2. MakesIt(u, n, devbox)
    BY <1>1, <1>2, <1>3, <2>1 DEF MakesIt, UpHolds
  <2>3. Asks(n, base) = Asks(v, base)
    BY <1>3 DEF Asks
  <2>4. n.alone => Alone(u, n, want, installed, base, layer, devbox)
    BY <1>1, <1>2, <1>3, <2>3 DEF UpHolds, Alone
  <2>5. UpHolds(u, n, want, installed, base, layer, devbox)
    BY <1>1, <1>2, <1>3, <2>2, <2>4 DEF UpHolds
  <2> QED BY <1>1, <1>4, <2>5, UpGoes
<1>5. CASE devbox' = Box!NoBox /\ Box!Touches(u, e)
  <2>1. /\ Labelled(base') /\ Labelled(layer') /\ base'.packages = {}
        /\ BoxHolds(devbox') /\ devbox'.by = {}
    BY <1>1, <1>2, <1>5, NoBoxHolds
  <2>2. UpHolds(u, e, want, installed, base', layer', devbox')
    BY <1>3 DEF UpHolds, Alone, MakesIt
  <2> QED BY <1>1, <1>5, <2>1, <2>2, UpTouches
<1> QED BY <1>1, <1>4, <1>5

(* The box is set up by the command that made it, or has been crossed.     *)
LEMMA SetUpStep ==
  ASSUME BoxInv, NEW u \in BoxUps, Box!Boot(u)
  PROVE  BoxInv'
<1> DEFINE v == launch[u]
           f == v.foldyard
           set == devbox.set \cup {u}
           x == [devbox EXCEPT !.version = f, !.set = set]
           n == Box!End(v, TRUE)
           e == Box!End([v EXCEPT !.said = {"bootstrap"}], TRUE)
<1>1. /\ v.pc = "boot" /\ UNCHANGED <<want, installed, base, layer>>
      /\ \/ devbox.state = "running" /\ devbox' = x /\ Box!Goes(u, n)
         \/ Box!Goes(u, e) /\ devbox' = devbox
  BY DEF Box!Boot, Box!World, Box!At, Box!Installed
<1>2. UpHolds(u, v, want, installed, base, layer, devbox) /\ BoxHolds(devbox)
      /\ Labelled(base) /\ Labelled(layer) /\ base.packages = {}
  BY DEF BoxInv
<1> HIDE DEF v
<1>3. /\ IsUp(n) /\ n.pc = "ended" /\ n.alone = v.alone
      /\ IsUp(e) /\ e.pc = "ended" /\ e.said # {}
  BY <1>2 DEF UpHolds, IsUp, Box!End
<1> HIDE DEF n, e
<1>4. f = v.foldyard /\ u \in set /\ devbox.set \subseteq set
  OBVIOUS
<1> HIDE DEF f
<1>5. set = devbox.set \cup {u}
  OBVIOUS
<1> HIDE DEF set
<1>6. CASE devbox.state = "running" /\ devbox' = x /\ Box!Goes(u, n)
  <2>1. /\ IsBox(x) /\ x.state = devbox.state /\ x.image = devbox.image /\ x.env = devbox.env
        /\ x.gvisor = devbox.gvisor /\ x.runtime = devbox.runtime /\ x.by = devbox.by
        /\ x.version = f /\ x.set = set
    BY <1>2 DEF BoxHolds, IsBox
  <2> HIDE DEF x
  <2>2. CrossedAt(devbox) => CrossedAt(x)
    BY <1>4, <2>1 DEF CrossedAt
  <2>3. u \notin devbox.by => CrossedAt(x)
    BY <1>4, <2>1 DEF CrossedAt
  <2>4. devbox.by = {u} => x.gvisor = v.of.gvisor /\ (x.gvisor => x.runtime = "gvisor")
    BY <1>1, <1>2, <2>1 DEF UpHolds, MakesIt
  <2>5. devbox.by = {u} \/ CrossedAt(x)
    BY <1>2, <2>3 DEF BoxHolds
  <2>6. BoxHolds(x)
    BY <1>2, <1>6, <2>1, <2>4, <2>5 DEF BoxHolds
  <2>7. ASSUME NEW w \in BoxUps, w # u PROVE UpHolds(w, launch[w], want, installed, base, layer, x)
    <3> DEFINE o == launch[w]
    <3>1. UpHolds(w, o, want, installed, base, layer, devbox) /\ installed \in Versions
      BY DEF BoxInv
    <3> HIDE DEF o
    <3>2. MakesIt(w, o, x)
      BY <2>1, <2>5, <2>7, <3>1 DEF MakesIt, UpHolds
    <3>3. AsWanted(want, installed, base, devbox) => AsWanted(want, installed, base, x)
      <4>1. CASE CrossedAt(x)
        BY <4>1 DEF AsWanted
      <4>2. CASE ~CrossedAt(x)
        <5>1. devbox.version = "" /\ ~CrossedAt(devbox)
          BY <1>1, <1>2, <2>2, <2>5, <4>2 DEF UpHolds, MakesIt
        <5>2. installed # ""
          BY <3>1, VersionsAssumption
        <5> QED BY <2>1, <5>1, <5>2 DEF AsWanted
      <4> QED BY <4>1, <4>2
    <3>4. o.alone => Alone(w, o, want, installed, base, layer, x)
      BY <2>1, <3>1, <3>3 DEF UpHolds, Alone
    <3>5. UpHolds(w, o, want, installed, base, layer, x)
      BY <3>1, <3>2, <3>4 DEF UpHolds
    <3> QED BY <3>5 DEF o
  <2>8. ASSUME v.alone PROVE AsWanted(want, installed, base, x)
    <3>1. /\ v.of = want /\ v.foldyard = installed /\ v.expected = want.def /\ devbox.by = {u}
          /\ devbox.image.label = Asks(v, base) /\ devbox.env = MadeAs(want.env, devbox.image)
      BY <1>1, <1>2, <2>8 DEF UpHolds, Alone
    <3>2. Labelled(devbox.image)
      BY <1>2 DEF BoxHolds
    <3>3. /\ devbox.image.label # <<>> /\ devbox.image.label[1] = v.expected
          /\ devbox.image.packages = v.of.packages
          /\ v.of.packages # {} => devbox.image.on = base.id
      BY <3>1, <3>2, LabelTells
    <3>4. x.runtime = IF want.gvisor THEN "gvisor" ELSE "own"
      BY <1>2, <1>6, <2>1, <2>4, <3>1 DEF BoxHolds
    <3> QED BY <1>4, <2>1, <3>1, <3>3, <3>4 DEF AsWanted
  <2>9. UpHolds(u, n, want, installed, base, layer, x)
    BY <1>3, <2>8 DEF UpHolds, Alone, MakesIt
  <2>10. /\ launch' = [w \in BoxUps |-> launch'[w]]
         /\ \A w \in BoxUps : launch'[w] = IF w = u THEN n ELSE launch[w]
    BY <1>6 DEF BoxInv, Box!Goes
  <2> QED BY <1>1, <1>6, <2>6, <2>7, <2>9, <2>10 DEF BoxInv
<1>7. CASE Box!Goes(u, e) /\ devbox' = devbox
  <2>1. UpHolds(u, e, want, installed, base, layer, devbox)
    BY <1>3, EndsHold
  <2> QED BY <1>1, <1>7, <2>1, UpGoes
<1> QED BY <1>1, <1>6, <1>7

(* Edits, upgrades, and a box that stops or goes.                          *)
LEMMA AroundStep ==
  ASSUME BoxInv, Box!Edit \/ Box!Upgrade \/ Box!BoxGoes
  PROVE  BoxInv'
<1>0. want \in Wants /\ installed \in Versions /\ BoxHolds(devbox)
  BY DEF BoxInv
<1>1. CASE Box!Edit
  <2>1. /\ Box!Spoil /\ UNCHANGED <<installed, base, layer, devbox>>
        /\ \/ \E d \in Definitions \ {want.def} : want' = [want EXCEPT !.def = d]
           \/ \E p \in PackageSets \ {want.packages} : want' = [want EXCEPT !.packages = p]
           \/ \E k \in EnvKeys, y \in EnvValues \cup {0} :
                y # want.env[k] /\ want' = [want EXCEPT !.env[k] = y]
           \/ want' = [want EXCEPT !.gvisor = ~@]
    BY <1>1 DEF Box!Edit
  <2>2. want' \in Wants
    <3>1. CASE \E d \in Definitions \ {want.def} : want' = [want EXCEPT !.def = d]
      BY <1>0, <3>1 DEF Wants
    <3>2. CASE \E p \in PackageSets \ {want.packages} : want' = [want EXCEPT !.packages = p]
      BY <1>0, <3>2 DEF Wants
    <3>3. CASE \E k \in EnvKeys, y \in EnvValues \cup {0} :
                y # want.env[k] /\ want' = [want EXCEPT !.env[k] = y]
      <4>1. PICK k \in EnvKeys, y \in EnvValues \cup {0} : want' = [want EXCEPT !.env[k] = y]
        BY <3>3
      <4> DEFINE env == [want.env EXCEPT ![k] = y]
      <4>2. env \in [EnvKeys -> EnvValues \cup {0}]
        BY <1>0 DEF Wants
      <4>3. want' = [want EXCEPT !.env = env]
        BY <4>1, <1>0 DEF Wants
      <4> HIDE DEF env
      <4> QED BY <1>0, <4>2, <4>3 DEF Wants
    <3>4. CASE want' = [want EXCEPT !.gvisor = ~@]
      BY <1>0, <3>4 DEF Wants
    <3> QED BY <2>1, <3>1, <3>2, <3>3, <3>4
  <2> QED BY <1>0, <2>1, <2>2, WorldSpoils
<1>2. CASE Box!Upgrade
  <2>1. Box!Spoil /\ UNCHANGED <<want, base, layer, devbox>> /\ installed' \in Versions
    BY <1>2 DEF Box!Upgrade
  <2> QED BY <1>0, <2>1, WorldSpoils
<1>3. CASE Box!BoxGoes
  <2> DEFINE x == [devbox EXCEPT !.state = "stopped"]
  <2>1. /\ Box!Spoil /\ UNCHANGED <<want, installed, base, layer>>
        /\ devbox' = Box!NoBox \/ (devbox.state = "running" /\ devbox' = x)
    BY <1>3 DEF Box!BoxGoes, Box!World
  <2>2. CASE devbox' = Box!NoBox
    BY <1>0, <2>1, <2>2, NoBoxHolds, WorldSpoils
  <2>3. CASE devbox.state = "running" /\ devbox' = x
    <3>1. /\ IsBox(x) /\ x.state = "stopped" /\ x.image = devbox.image /\ x.env = devbox.env
          /\ x.gvisor = devbox.gvisor /\ x.runtime = devbox.runtime /\ x.by = devbox.by
          /\ x.version = devbox.version /\ x.set = devbox.set
      BY <1>0 DEF BoxHolds, IsBox
    <3> HIDE DEF x
    <3>2. BoxHolds(x)
      BY <1>0, <2>3, <3>1 DEF BoxHolds, CrossedAt
    <3> QED BY <1>0, <2>1, <2>3, <3>1, <3>2, WorldSpoils
  <2> QED BY <2>1, <2>2, <2>3
<1> QED BY <1>1, <1>2, <1>3

LEMMA BoxInvInit == Box!Init => BoxInv
<1> SUFFICES ASSUME Box!Init PROVE BoxInv
  OBVIOUS
<1>1. /\ want \in [def : Definitions, packages : PackageSets, env : {Box!Unset}, gvisor : {FALSE}]
      /\ installed \in Versions /\ base = Box!NoImage /\ layer = Box!NoImage /\ devbox = Box!NoBox
      /\ launch = [u \in BoxUps |-> Box!Idle]
  BY DEF Box!Init
<1>2. Box!Unset \in [EnvKeys -> EnvValues \cup {0}]
  BY DEF Box!Unset
<1>3. want \in Wants
  BY <1>1, <1>2 DEF Wants
<1> QED BY <1>1, <1>3, NoBoxHolds, IdleHolds DEF BoxInv

LEMMA BoxInvNext == BoxInv /\ [Box!Next]_(Box!vars) => BoxInv'
<1> SUFFICES ASSUME BoxInv, [Box!Next]_(Box!vars) PROVE BoxInv'
  OBVIOUS
<1>1. CASE UNCHANGED Box!vars
  BY <1>1 DEF Box!vars, BoxInv
<1>2. CASE Box!Edit \/ Box!Upgrade \/ Box!BoxGoes
  BY <1>2, AroundStep
<1>3. ASSUME NEW u \in BoxUps, Box!Step(u) PROVE BoxInv'
  BY <1>3, BeginStep, AlreadyStep, MoveStep, RemoveStep, ImageStep, BuildStep, LayerStep,
     CreateBoxStep, CheckBoxStep, SetUpStep DEF Box!Step
<1> QED BY <1>1, <1>2, <1>3 DEF Box!Next

(* An `up' that succeeds and has nothing to say leaves a box that is what  *)
(* files, config and foldyard ask for, and no box is set up outside the    *)
(* runtime it was asked to have, for any number of commands, edits and     *)
(* mishaps - but for one two commands crossed over (box._up).              *)
THEOREM QuietUpsAreCurrent == Box!Spec => []QuietMeansCurrent
<1>1. BoxInv => QuietMeansCurrent
  <2> SUFFICES ASSUME BoxInv PROVE QuietMeansCurrent
    OBVIOUS
  <2>1. BoxHolds(devbox) /\ (Box!Crossed <=> CrossedAt(devbox))
    BY DEF BoxInv, Box!Crossed, CrossedAt
  <2>2. ASSUME NEW u \in BoxUps, launch[u].pc = "ended", launch[u].kind = "up", launch[u].ok,
               launch[u].alone, launch[u].said = {}
        PROVE  Box!Mislabelled \/ Box!Crossed \/ Box!Current
    <3>1. AsWanted(want, installed, base, devbox)
      BY <2>2 DEF BoxInv, UpHolds, Alone
    <3> QED BY <2>1, <3>1 DEF AsWanted, Box!Mislabelled, Box!Current, Box!EnvOf, MadeAs
  <2> QED BY <2>1, <2>2 DEF BoxHolds, QuietMeansCurrent, Box!QuietMeansCurrent, Box!At
<1> QED BY <1>1, BoxInvInit, BoxInvNext, PTL DEF Box!Spec

-----------------------------------------------------------------------------
(* Checkouts and their boxes.  A command that is alone, with no other under *)
(* way, is the only one that changes what the others see; one beside        *)
(* another is excused.                                                      *)
YardTypes == {"none", "unfilled", "whole", "orphan"}
BoxTypes == [state : {"none", "up", "stopped"}, baked : SUBSET Yard!Owners, live : SUBSET Yard!Owners]

UpPcs == {"up", "masks", "run"}
AddPcs == {"git", "checkout", "register", "adopt", "say", "sayfresh", "inject"}
RemovePcs == {"remdown", "remrm", "vols", "sync", "check", "park", "gitrm", "local", "slot"}
LeftPcs == {"leftlocal", "leftsync", "leftslot", "leftvols"}
CommandPcs == {"idle", "down", "rm"} \cup UpPcs \cup AddPcs \cup RemovePcs \cup LeftPcs

IsCommand(q) ==
  q \in [pc : CommandPcs, n : Yard!Owners, force : BOOLEAN, discard : BOOLEAN,
         orphaned : BOOLEAN, excused : BOOLEAN, names : {q.names}, asof : {q.asof},
         unsynced : BOOLEAN]

YardOK ==
  /\ tree \in [Names -> YardTypes]
  /\ work \in [Names -> SUBSET Nat] /\ slot \in [Names -> SUBSET Nat]
  /\ parked \subseteq Nat /\ archived \subseteq Nat
  /\ reg \subseteq Names
  /\ box \in [Yard!Owners -> BoxTypes]
  /\ told \subseteq Yard!Owners \X Yard!Owners
  /\ exempt \subseteq Yard!Owners \X Yard!Owners
  /\ DOMAIN session = Sessions /\ \A s \in Sessions : IsCommand(session[s])
  /\ items \in Nat

ByItself(s) == session[s].pc # "idle" /\ ~session[s].excused

OneAlone == \A s, t \in Sessions : ByItself(s) /\ t # s => session[t].pc = "idle"

(* What a command knows whoever runs beside it: what of the work is saved. *)
WorkSeen(q) ==
  /\ q.pc \in AddPcs \cup RemovePcs \cup LeftPcs => q.n \in Names
  /\ q.pc \in {"run", "inject"} => q.names \subseteq Yard!Owners
  /\ q.pc = "park" => q.names \subseteq Nat
  /\ q.pc \in {"park", "gitrm"} /\ ~q.discard /\ ~q.orphaned =>
       /\ q.asof \in Nat /\ q.asof <= items
       /\ q.pc = "park" => \A i \in work[q.n] : i > q.asof \/ i \in q.names
       /\ q.pc = "gitrm" => \A i \in work[q.n] : i > q.asof \/ i \in parked

(* And what it knows when it is alone: that its box is gone, and that the  *)
(* transcripts are archived.                                               *)
AloneSeen(q) ==
  /\ q.pc \in UpPcs => q.n \in Yard!Registered
  /\ q.pc = "run" => Yard!MaskTargets(q.n) \subseteq q.names
  /\ q.pc = "checkout" => tree[q.n] = "unfilled"
  /\ q.pc \in RemovePcs \ {"remdown", "remrm"} => box[q.n].state # "up"
  /\ q.pc \in LeftPcs /\ ~q.unsynced => box[q.n].state # "up"
  /\ q.pc \in {"check", "park", "gitrm", "local", "slot", "leftslot"} /\ ~q.unsynced =>
       slot[q.n] \subseteq archived

CommandsOK ==
  \A s \in Sessions : WorkSeen(session[s]) /\ (ByItself(s) => AloneSeen(session[s]))

(* A command that will yet look whether box b masks checkout n, or say it. *)
Owes(q, b, n) ==
  /\ q.n = n
  /\ \/ q.pc \in {"checkout", "register", "adopt", "say", "sayfresh"}
     \/ q.pc = "inject" /\ (q.excused \/ b \in q.names)

Settled(b, n) == n \in box[b].live \/ <<b, n>> \in told \/ <<b, n>> \in exempt

MasksInv ==
  /\ \A b \in Yard!Registered : box[b].state = "up" =>
       \A n \in Yard!MaskTargets(b) : Settled(b, n) \/ \E s \in Sessions : Owes(session[s], b, n)
  /\ \A b \in Yard!Owners \ Yard!Registered :
       box[b].state = "up" => \A n \in Yard!Owners : <<b, n>> \in exempt

WorkInv ==
  /\ lost = {}
  /\ \A n \in Names : tree[n] \in {"none", "unfilled"} => work[n] = {}

YardInv == YardOK /\ OneAlone /\ CommandsOK /\ MasksInv /\ WorkInv

-----------------------------------------------------------------------------
(* What a step of one command leaves of the others.                        *)
OnlyMoves(s) ==
  /\ DOMAIN session' = Sessions
  /\ \A t \in Sessions : t # s => session'[t] = session[t]

GoesTo(s, p) ==
  /\ OnlyMoves(s) /\ IsCommand(session'[s])
  /\ session'[s].pc = p
  /\ session'[s].n = session[s].n /\ session'[s].force = session[s].force
  /\ session'[s].discard = session[s].discard /\ session'[s].orphaned = session[s].orphaned
  /\ session'[s].excused = session[s].excused /\ session'[s].names = session[s].names
  /\ session'[s].asof = session[s].asof /\ session'[s].unsynced = session[s].unsynced

LEMMA CommandSteps ==
  ASSUME YardOK, NEW s \in Sessions, NEW p \in CommandPcs, Yard!Step(s, p)
  PROVE  GoesTo(s, p)
<1>1. IsCommand(session[s]) /\ DOMAIN session = Sessions
  BY DEF YardOK
<1> QED BY <1>1 DEF Yard!Step, GoesTo, OnlyMoves, IsCommand

LEMMA CommandEnds ==
  ASSUME YardOK, NEW s \in Sessions, Yard!End(s)
  PROVE  OnlyMoves(s) /\ IsCommand(session'[s]) /\ session'[s].pc = "idle"
<1>1. IsCommand(session[s]) /\ DOMAIN session = Sessions
  BY DEF YardOK
<1> QED BY <1>1 DEF Yard!End, OnlyMoves, Yard!Idle, IsCommand, CommandPcs, Yard!Owners

(* A command that moves on is no more alone than it was, and one of the    *)
(* others that was alone would not have let it be there.                   *)
LEMMA OthersWait ==
  ASSUME OneAlone, NEW s \in Sessions, session[s].pc # "idle", OnlyMoves(s),
         ByItself(s)' => ByItself(s)
  PROVE  OneAlone' /\ \A t \in Sessions : t # s => ~ByItself(t) /\ ~ByItself(t)'
<1> QED BY DEF OneAlone, OnlyMoves, ByItself

(* What another command knows of the work no step can take from it.        *)
LEMMA OthersKnow ==
  ASSUME YardOK, NEW q, IsCommand(q), WorkSeen(q), items \in Nat, items' \in Nat, items' >= items,
         parked \subseteq parked', q.pc \in {"park", "gitrm"} => q.n \in Names,
         \A n \in Names : \A i \in work'[n] : i \in work[n] \/ (i \in Nat /\ i > items)
  PROVE  WorkSeen(q)'
<1> DEFINE asks == q.pc \in {"park", "gitrm"} /\ ~q.discard /\ ~q.orphaned
<1>1. ASSUME asks PROVE q.asof \in Nat /\ q.asof <= items'
  BY <1>1 DEF WorkSeen
<1>2. ASSUME asks, q.pc = "park", NEW i \in work'[q.n] PROVE i > q.asof \/ i \in q.names
  <2>1. q.asof \in Nat /\ q.asof <= items /\ \A j \in work[q.n] : j > q.asof \/ j \in q.names
    BY <1>2 DEF WorkSeen
  <2>2. i \in work[q.n] \/ (i \in Nat /\ i > items)
    BY <1>2
  <2> QED BY <2>1, <2>2
<1>3. ASSUME asks, q.pc = "gitrm", NEW i \in work'[q.n] PROVE i > q.asof \/ i \in parked'
  <2>1. q.asof \in Nat /\ q.asof <= items /\ \A j \in work[q.n] : j > q.asof \/ j \in parked
    BY <1>3 DEF WorkSeen
  <2>2. i \in work[q.n] \/ (i \in Nat /\ i > items)
    BY <1>3
  <2> QED BY <2>1, <2>2
<1> QED BY <1>1, <1>2, <1>3, Zenon DEF WorkSeen

-----------------------------------------------------------------------------
(* A step of a command under way.                                          *)
LEMMA OneMoves ==
  ASSUME YardInv, NEW s \in Sessions, session[s].pc # "idle", OnlyMoves(s),
         IsCommand(session'[s]), ByItself(s)' => ByItself(s),
         parked \subseteq parked', items' = items,
         \A n \in Names : work'[n] \subseteq work[n],
         WorkSeen(session[s])', ByItself(s)' => AloneSeen(session[s])'
  PROVE  /\ OneAlone' /\ CommandsOK'
         /\ DOMAIN session' = Sessions /\ \A t \in Sessions : IsCommand(session'[t])
<1>1. OneAlone' /\ \A t \in Sessions : t # s => ~ByItself(t) /\ ~ByItself(t)'
  BY OthersWait DEF YardInv
<1>2. ASSUME NEW t \in Sessions, t # s PROVE IsCommand(session'[t]) /\ WorkSeen(session[t])'
  <2> PICK q : q = session[t]
    OBVIOUS
  <2>1. session'[t] = q
    BY <1>2 DEF OnlyMoves
  <2>2. IsCommand(q) /\ WorkSeen(q)
    BY DEF YardInv, YardOK, CommandsOK
  <2>3. q.pc \in {"park", "gitrm"} => q.n \in Names
    BY <2>2 DEF WorkSeen, RemovePcs
  <2>4. items \in Nat /\ YardOK
    BY DEF YardInv, YardOK
  <2>5. WorkSeen(q)'
    BY <2>2, <2>3, <2>4, OthersKnow
  <2> QED BY <2>1, <2>2, <2>5
<1> QED BY <1>1, <1>2 DEF CommandsOK, OnlyMoves

(* What it must leave of the masks, if it makes no box and no checkout.    *)
LEMMA MasksStay ==
  ASSUME YardInv, NEW s \in Sessions, OnlyMoves(s),
         Yard!Registered' = Yard!Registered, exempt \subseteq exempt',
         \A b \in Yard!Owners : box'[b].state = "up" => box[b].state = "up",
         \A b \in Yard!Registered : box'[b].state = "up" =>
           \A n \in Yard!MaskTargets(b)' :
             /\ n \in Yard!MaskTargets(b)
             /\ Settled(b, n) => Settled(b, n)'
             /\ Owes(session[s], b, n) => Owes(session[s], b, n)' \/ Settled(b, n)'
  PROVE  MasksInv'
<1>1. ASSUME NEW b \in Yard!Registered, box'[b].state = "up", NEW n \in Yard!MaskTargets(b)'
      PROVE  Settled(b, n)' \/ \E t \in Sessions : Owes(session[t], b, n)'
  <2>0. b \in Yard!Owners
    BY DEF Yard!Registered, Yard!Owners, YardInv, YardOK
  <2>1. Settled(b, n) \/ \E t \in Sessions : Owes(session[t], b, n)
    BY <1>1, <2>0 DEF YardInv, MasksInv
  <2>2. CASE Settled(b, n)
    BY <2>2, <1>1
  <2>3. ASSUME NEW t \in Sessions, Owes(session[t], b, n)
        PROVE  Settled(b, n)' \/ \E u \in Sessions : Owes(session[u], b, n)'
    <3>1. CASE t = s
      BY <2>3, <3>1, <1>1
    <3>2. CASE t # s
      <4>1. session'[t] = session[t]
        BY <3>2 DEF OnlyMoves
      <4>2. Owes(session[t], b, n)'
        BY <4>1, <2>3 DEF Owes
      <4> QED BY <4>2
    <3> QED BY <3>1, <3>2
  <2> QED BY <2>1, <2>2, <2>3
<1>2. ASSUME NEW b \in Yard!Owners \ Yard!Registered, box'[b].state = "up", NEW n \in Yard!Owners
      PROVE  <<b, n>> \in exempt'
  BY <1>2 DEF YardInv, MasksInv
<1>3. Yard!Owners' = Yard!Owners
  BY DEF Yard!Owners
<1> QED BY <1>1, <1>2, <1>3 DEF MasksInv

(* Most steps touch neither the boxes nor the registered checkouts.        *)
MaskVars == <<tree, reg, box, told, exempt>>

LEMMA MasksAside ==
  ASSUME YardInv, NEW s \in Sessions, OnlyMoves(s), UNCHANGED MaskVars,
         \A b, n : Owes(session[s], b, n) => Owes(session[s], b, n)'
  PROVE  MasksInv'
<1>1. Yard!Registered' = Yard!Registered /\ \A b : Yard!MaskTargets(b)' = Yard!MaskTargets(b)
  BY DEF MaskVars, Yard!Registered, Yard!MaskTargets, Yard!Here
<1>2. \A b, n : Settled(b, n)' = Settled(b, n)
  BY DEF MaskVars, Settled
<1>3. exempt' = exempt /\ box' = box
  BY DEF MaskVars
<1> QED BY <1>1, <1>2, <1>3, MasksStay

LEMMA StepsAside ==
  ASSUME YardInv, NEW s \in Sessions, session[s].pc # "idle", OnlyMoves(s),
         IsCommand(session'[s]), ByItself(s)' => ByItself(s),
         UNCHANGED MaskVars, UNCHANGED <<work, items>>,
         parked \subseteq parked', parked' \subseteq Nat, archived' \subseteq Nat,
         slot' \in [Names -> SUBSET Nat], lost' = {},
         \A b, n : Owes(session[s], b, n) => Owes(session[s], b, n)',
         WorkSeen(session[s])', ByItself(s)' => AloneSeen(session[s])'
  PROVE  YardInv'
<1>1. OneAlone' /\ CommandsOK' /\ DOMAIN session' = Sessions
      /\ \A t \in Sessions : IsCommand(session'[t])
  BY OneMoves
<1>2. MasksInv'
  BY MasksAside
<1>3. YardOK'
  BY <1>1 DEF YardInv, YardOK, MaskVars, Yard!Owners
<1>4. WorkInv'
  BY DEF YardInv, WorkInv, MaskVars
<1> QED BY <1>1, <1>2, <1>3, <1>4 DEF YardInv

LEMMA AtPc ==
  ASSUME YardInv, NEW s \in Sessions, NEW p, Yard!At(s, p)
  PROVE  session[s].pc = p /\ IsCommand(session[s]) /\ WorkSeen(session[s])
         /\ (ByItself(s) => AloneSeen(session[s])) /\ DOMAIN session = Sessions
BY DEF YardInv, YardOK, CommandsOK, Yard!At

LEMMA UpMasksStep ==
  ASSUME YardInv, NEW s \in Sessions, Yard!UpMasks(s)
  PROVE  YardInv'
<1> DEFINE q == session[s]  r == session'[s]
<1>1. q.pc = "masks" /\ IsCommand(q) /\ WorkSeen(q) /\ (ByItself(s) => AloneSeen(q))
      /\ DOMAIN session = Sessions
  BY AtPc DEF Yard!UpMasks
<1>2. /\ OnlyMoves(s) /\ IsCommand(r) /\ r.pc = "run" /\ r.excused = q.excused /\ r.n = q.n
      /\ r.names = Yard!MaskTargets(q.n)
  BY <1>1 DEF Yard!UpMasks, OnlyMoves, IsCommand, CommandPcs, UpPcs
<1>3. UNCHANGED MaskVars /\ UNCHANGED <<work, items, parked, archived, slot, lost>>
  BY DEF Yard!UpMasks, MaskVars, Yard!treeVars, Yard!hostVars, Yard!slotVars, Yard!countVars,
         Yard!boxVars
<1>4. Yard!MaskTargets(q.n)' = Yard!MaskTargets(q.n) /\ Yard!Registered' = Yard!Registered
  BY <1>3, <1>2 DEF MaskVars, Yard!MaskTargets, Yard!Registered, Yard!Here
<1>5. Yard!MaskTargets(q.n) \subseteq Yard!Owners
  BY DEF Yard!MaskTargets, Yard!Registered, Yard!Owners, YardInv, YardOK
<1>6. WorkSeen(session[s])'
  BY <1>2, <1>5 DEF WorkSeen, AddPcs, RemovePcs, LeftPcs, Yard!Owners
<1>7. ByItself(s)' => ByItself(s) /\ AloneSeen(session[s])'
  BY <1>1, <1>2, <1>4 DEF ByItself, AloneSeen, UpPcs, RemovePcs, LeftPcs
<1>8. \A b, n : ~Owes(q, b, n)
  BY <1>1 DEF Owes
<1> QED BY <1>1, <1>2, <1>3, <1>6, <1>7, <1>8, StepsAside DEF YardInv, YardOK, WorkInv

LEMMA DownSyncStep ==
  ASSUME YardInv, NEW s \in Sessions, Yard!DownSync(s)
  PROVE  YardInv'
<1> DEFINE q == session[s]  r == session'[s]
<1>1. q.pc \in {"down", "remdown"} /\ IsCommand(q) /\ WorkSeen(q) /\ DOMAIN session = Sessions
  BY DEF Yard!DownSync, Yard!At, YardInv, YardOK, CommandsOK
<1>2. /\ OnlyMoves(s) /\ IsCommand(r) /\ r.excused = q.excused /\ r.n = q.n
      /\ r.pc = IF q.pc = "down" THEN "rm" ELSE "remrm"
  BY <1>1 DEF Yard!DownSync, Yard!At, Yard!Step, OnlyMoves, IsCommand, CommandPcs, RemovePcs
<1>3. UNCHANGED MaskVars /\ UNCHANGED <<work, items, parked, slot, lost>>
  BY DEF Yard!DownSync, MaskVars, Yard!treeVars, Yard!hostVars, Yard!countVars, Yard!boxVars
<1>4. archived' \subseteq Nat
  BY <1>1 DEF Yard!DownSync, Yard!Archive, Yard!Mirrored, YardInv, YardOK, IsCommand, Yard!Owners
<1>6. WorkSeen(session[s])'
  BY <1>1, <1>2 DEF WorkSeen, AddPcs, RemovePcs, LeftPcs
<1>7. ByItself(s)' => ByItself(s) /\ AloneSeen(session[s])'
  BY <1>1, <1>2 DEF ByItself, AloneSeen, UpPcs, RemovePcs, LeftPcs
<1>8. \A b, n : ~Owes(q, b, n)
  BY <1>1 DEF Owes
<1> QED BY <1>1, <1>2, <1>3, <1>4, <1>6, <1>7, <1>8, StepsAside DEF YardInv, YardOK, WorkInv

LEMMA RemVolsStep ==
  ASSUME YardInv, NEW s \in Sessions, Yard!RemVols(s)
  PROVE  YardInv'
<1> DEFINE q == session[s]  r == session'[s]
<1>1. q.pc = "vols" /\ IsCommand(q) /\ WorkSeen(q) /\ (ByItself(s) => AloneSeen(q))
  BY AtPc DEF Yard!RemVols
<1>2. GoesTo(s, "sync")
  <2>1. Yard!Step(s, "sync")
    BY DEF Yard!RemVols
  <2> QED BY <2>1, CommandSteps DEF YardInv, CommandPcs, RemovePcs
<1>3. UNCHANGED MaskVars /\ UNCHANGED <<work, items, parked, slot, lost>>
  BY DEF Yard!RemVols, MaskVars, Yard!treeVars, Yard!hostVars, Yard!countVars
<1>4. archived' \subseteq Nat
  BY <1>1 DEF Yard!RemVols, Yard!Mirrored, YardInv, YardOK, WorkSeen, RemovePcs
<1>6. WorkSeen(session[s])'
  BY <1>1, <1>2 DEF GoesTo, WorkSeen, AddPcs, RemovePcs, LeftPcs
<1>7. ByItself(s)' => ByItself(s) /\ AloneSeen(session[s])'
  BY <1>1, <1>2, <1>3 DEF GoesTo, ByItself, AloneSeen, UpPcs, RemovePcs, LeftPcs, MaskVars
<1>8. \A b, n : ~Owes(q, b, n)
  BY <1>1 DEF Owes
<1> QED BY <1>1, <1>2, <1>3, <1>4, <1>6, <1>7, <1>8, StepsAside DEF YardInv, YardOK, WorkInv, GoesTo

LEMMA RemSyncStep ==
  ASSUME YardInv, NEW s \in Sessions, Yard!RemSync(s)
  PROVE  YardInv'
<1> DEFINE q == session[s]  r == session'[s]
           next == IF q.pc = "sync" THEN "check" ELSE "leftslot"
<1>1. q.pc \in {"sync", "leftsync"} /\ IsCommand(q) /\ WorkSeen(q) /\ DOMAIN session = Sessions
      /\ (ByItself(s) => AloneSeen(q))
  BY DEF Yard!RemSync, Yard!At, YardInv, YardOK, CommandsOK
<1>2. /\ OnlyMoves(s) /\ IsCommand(r)
      /\ \/ r.pc = "idle" /\ archived' = archived
         \/ /\ r.pc = next /\ r.excused = q.excused /\ r.n = q.n
            /\ \/ archived' = Yard!Mirrored(q.n) /\ r.unsynced = q.unsynced
               \/ archived' = archived /\ r.unsynced
  <2>1. \/ Yard!Step(s, next) /\ archived' = Yard!Mirrored(q.n)
        \/ Yard!End(s) /\ archived' = archived
        \/ /\ session' = [session EXCEPT ![s].pc = next, ![s].unsynced = TRUE]
           /\ archived' = archived
    BY DEF Yard!RemSync, Yard!At, Yard!Archive
  <2>2. next \in CommandPcs
    BY DEF CommandPcs, RemovePcs, LeftPcs
  <2>3. CASE Yard!Step(s, next) /\ archived' = Yard!Mirrored(q.n)
    <3>1. PICK p \in CommandPcs : p = next
      BY <2>2
    <3>2. GoesTo(s, p)
      BY <2>3, <3>1, CommandSteps DEF YardInv
    <3> QED BY <3>1, <3>2, <2>3 DEF GoesTo
  <2>4. CASE Yard!End(s) /\ archived' = archived
    BY <2>4, CommandEnds DEF YardInv
  <2>5. CASE /\ session' = [session EXCEPT ![s].pc = next, ![s].unsynced = TRUE]
             /\ archived' = archived
    BY <1>1, <2>2, <2>5 DEF OnlyMoves, IsCommand
  <2> QED BY <2>1, <2>3, <2>4, <2>5
<1>3. UNCHANGED MaskVars /\ UNCHANGED <<work, items, parked, slot, lost>>
  BY DEF Yard!RemSync, MaskVars, Yard!treeVars, Yard!hostVars, Yard!countVars, Yard!boxVars
<1>4. archived' \subseteq Nat /\ Yard!Mirrored(q.n) = archived \cup slot[q.n]
  BY <1>1, <1>2 DEF Yard!Mirrored, YardInv, YardOK, WorkSeen, RemovePcs, LeftPcs
<1>6. WorkSeen(session[s])'
  BY <1>1, <1>2 DEF WorkSeen, AddPcs, RemovePcs, LeftPcs
<1>7. ByItself(s)' => ByItself(s) /\ AloneSeen(session[s])'
  BY <1>1, <1>2, <1>3, <1>4 DEF ByItself, AloneSeen, UpPcs, RemovePcs, LeftPcs, MaskVars
<1>8. \A b, n : ~Owes(q, b, n)
  BY <1>1 DEF Owes
<1> QED BY <1>1, <1>2, <1>3, <1>4, <1>6, <1>7, <1>8, StepsAside DEF YardInv, YardOK, WorkInv

LEMMA RemCheckStep ==
  ASSUME YardInv, NEW s \in Sessions, Yard!RemCheck(s)
  PROVE  YardInv'
<1> DEFINE q == session[s]  r == session'[s]
<1>1. q.pc = "check" /\ IsCommand(q) /\ WorkSeen(q) /\ (ByItself(s) => AloneSeen(q))
      /\ DOMAIN session = Sessions
  BY AtPc DEF Yard!RemCheck
<1>2. /\ OnlyMoves(s) /\ IsCommand(r)
      /\ \/ r.pc = "idle"
         \/ /\ r.n = q.n /\ r.excused = q.excused /\ r.unsynced = q.unsynced
            /\ r.discard = q.discard /\ r.asof = items
            /\ \/ r.pc = "gitrm" /\ (r.discard \/ work[r.n] = {})
               \/ r.pc = "park" /\ r.names = work[r.n]
  <2>1. \/ Yard!End(s)
        \/ /\ session' = [session EXCEPT ![s] = [q EXCEPT !.asof = items, !.pc = "gitrm"]]
           /\ q.discard \/ work[q.n] = {}
        \/ session' = [session EXCEPT ![s] = [q EXCEPT !.asof = items, !.pc = "park",
                                                       !.names = work[q.n]]]
    BY DEF Yard!RemCheck, Yard!Verdict
  <2>2. CASE Yard!End(s)
    BY <2>2, CommandEnds DEF YardInv
  <2>3. CASE /\ session' = [session EXCEPT ![s] = [q EXCEPT !.asof = items, !.pc = "gitrm"]]
             /\ q.discard \/ work[q.n] = {}
    BY <1>1, <2>3 DEF OnlyMoves, IsCommand, CommandPcs, RemovePcs
  <2>4. CASE session' = [session EXCEPT ![s] = [q EXCEPT !.asof = items, !.pc = "park",
                                                         !.names = work[q.n]]]
    BY <1>1, <2>4 DEF OnlyMoves, IsCommand, CommandPcs, RemovePcs
  <2> QED BY <2>1, <2>2, <2>3, <2>4
<1>3. UNCHANGED MaskVars /\ UNCHANGED <<work, items, parked, slot, archived, lost>>
  BY DEF Yard!RemCheck, MaskVars, Yard!treeVars, Yard!hostVars, Yard!countVars, Yard!boxVars,
         Yard!slotVars
<1>4. q.n \in Names /\ items \in Nat /\ work[q.n] \subseteq Nat
  BY <1>1 DEF WorkSeen, RemovePcs, YardInv, YardOK
<1>6. WorkSeen(session[s])'
  BY <1>2, <1>3, <1>4 DEF WorkSeen, AddPcs, RemovePcs, LeftPcs
<1>7. ByItself(s)' => ByItself(s) /\ AloneSeen(session[s])'
  BY <1>1, <1>2, <1>3 DEF ByItself, AloneSeen, UpPcs, RemovePcs, LeftPcs, MaskVars
<1>8. \A b, n : ~Owes(q, b, n)
  BY <1>1 DEF Owes
<1> QED BY <1>1, <1>2, <1>3, <1>6, <1>7, <1>8, StepsAside DEF YardInv, YardOK, WorkInv

LEMMA RemParkStep ==
  ASSUME YardInv, NEW s \in Sessions, Yard!RemPark(s)
  PROVE  YardInv'
<1> DEFINE q == session[s]  r == session'[s]
<1>1. q.pc = "park" /\ IsCommand(q) /\ WorkSeen(q) /\ (ByItself(s) => AloneSeen(q))
  BY AtPc DEF Yard!RemPark
<1>2. \/ GoesTo(s, "gitrm") /\ parked' = parked \cup q.names
      \/ OnlyMoves(s) /\ IsCommand(r) /\ r.pc = "idle" /\ parked' = parked
  <2>1. \/ Yard!Step(s, "gitrm") /\ parked' = parked \cup q.names
        \/ Yard!End(s) /\ parked' = parked
    BY DEF Yard!RemPark
  <2>2. "gitrm" \in CommandPcs
    BY DEF CommandPcs, RemovePcs
  <2> QED BY <2>1, <2>2, CommandSteps, CommandEnds DEF YardInv
<1>3. UNCHANGED MaskVars /\ UNCHANGED <<work, items, archived, slot, lost>>
  BY DEF Yard!RemPark, MaskVars, Yard!hostVars, Yard!countVars, Yard!slotVars, Yard!boxVars
<1>4. parked \subseteq parked' /\ parked' \subseteq Nat
  BY <1>1, <1>2 DEF YardInv, YardOK, WorkSeen
<1>6. WorkSeen(session[s])'
  BY <1>1, <1>2, <1>3 DEF GoesTo, WorkSeen, AddPcs, RemovePcs, LeftPcs
<1>7. ByItself(s)' => ByItself(s) /\ AloneSeen(session[s])'
  BY <1>1, <1>2, <1>3 DEF GoesTo, ByItself, AloneSeen, UpPcs, RemovePcs, LeftPcs, MaskVars
<1>8. \A b, n : ~Owes(q, b, n)
  BY <1>1 DEF Owes
<1> QED BY <1>1, <1>2, <1>3, <1>4, <1>6, <1>7, <1>8, StepsAside DEF YardInv, YardOK, WorkInv, GoesTo

LEMMA RemSlotStep ==
  ASSUME YardInv, NEW s \in Sessions, Yard!RemSlot(s)
  PROVE  YardInv'
<1> DEFINE q == session[s]  r == session'[s]
<1>1. q.pc \in {"slot", "leftslot"} /\ IsCommand(q) /\ WorkSeen(q) /\ (ByItself(s) => AloneSeen(q))
  BY DEF Yard!RemSlot, Yard!At, YardInv, YardOK, CommandsOK
<1>2. /\ OnlyMoves(s) /\ IsCommand(r)
      /\ r.pc = "idle" \/ (r.pc = "leftvols" /\ q.pc = "leftslot" /\ GoesTo(s, "leftvols"))
  <2>1. Yard!End(s) \/ (Yard!Step(s, "leftvols") /\ q.pc = "leftslot")
    BY <1>1 DEF Yard!RemSlot, Yard!At
  <2>2. "leftvols" \in CommandPcs
    BY DEF CommandPcs, LeftPcs
  <2>3. CASE Yard!End(s)
    BY <2>3, CommandEnds DEF YardInv
  <2>4. CASE Yard!Step(s, "leftvols") /\ q.pc = "leftslot"
    BY <2>4, <2>2, CommandSteps DEF YardInv, GoesTo
  <2> QED BY <2>1, <2>3, <2>4
<1>3. UNCHANGED MaskVars /\ UNCHANGED <<work, items, parked, archived>>
  BY DEF Yard!RemSlot, MaskVars, Yard!hostVars, Yard!countVars, Yard!treeVars, Yard!boxVars
<1>4. q.n \in Names
  BY <1>1 DEF WorkSeen, RemovePcs, LeftPcs
<1>5. slot' \in [Names -> SUBSET Nat]
  BY <1>4 DEF Yard!RemSlot, YardInv, YardOK
<1>51. lost' = {}
  <2>1. q.excused \/ q.unsynced \/ slot[q.n] \subseteq archived
    BY <1>1 DEF ByItself, AloneSeen
  <2>2. lost = {}
    BY DEF YardInv, WorkInv
  <2> QED BY <2>1, <2>2 DEF Yard!RemSlot
<1>6. WorkSeen(session[s])'
  BY <1>1, <1>2, <1>3 DEF GoesTo, WorkSeen, AddPcs, RemovePcs, LeftPcs
<1>7. ByItself(s)' => ByItself(s) /\ AloneSeen(session[s])'
  BY <1>1, <1>2, <1>3 DEF GoesTo, ByItself, AloneSeen, UpPcs, RemovePcs, LeftPcs, MaskVars
<1>8. \A b, n : ~Owes(q, b, n)
  BY <1>1 DEF Owes
<1> QED BY <1>1, <1>2, <1>3, <1>5, <1>51, <1>6, <1>7, <1>8, StepsAside DEF YardInv, YardOK

LEMMA RemLeftVolsStep ==
  ASSUME YardInv, NEW s \in Sessions, Yard!RemLeftVols(s)
  PROVE  YardInv'
<1> DEFINE q == session[s]  r == session'[s]
<1>1. q.pc = "leftvols"
  BY DEF Yard!RemLeftVols, Yard!At
<1>2. OnlyMoves(s) /\ IsCommand(r) /\ r.pc = "idle"
  BY CommandEnds DEF YardInv, Yard!RemLeftVols
<1>3. UNCHANGED MaskVars /\ UNCHANGED <<work, items, parked, archived, slot, lost>>
  BY DEF Yard!RemLeftVols, MaskVars, Yard!hostVars, Yard!countVars, Yard!treeVars, Yard!slotVars
<1>4. WorkSeen(session[s])' /\ ~ByItself(s)' /\ \A b, n : ~Owes(q, b, n)
  BY <1>1, <1>2 DEF WorkSeen, AddPcs, RemovePcs, LeftPcs, ByItself, Owes
<1> QED BY <1>1, <1>2, <1>3, <1>4, StepsAside DEF YardInv, YardOK, WorkInv

LEMMA AddAdoptStep ==
  ASSUME YardInv, NEW s \in Sessions, Yard!AddAdopt(s)
  PROVE  YardInv'
<1> DEFINE q == session[s]  r == session'[s]
<1>1. q.pc = "adopt" /\ IsCommand(q) /\ WorkSeen(q)
  BY AtPc DEF Yard!AddAdopt
<1>2. GoesTo(s, "sayfresh")
  <2>1. Yard!Step(s, "sayfresh") /\ "sayfresh" \in CommandPcs
    BY DEF Yard!AddAdopt, CommandPcs, AddPcs
  <2> QED BY <2>1, CommandSteps DEF YardInv
<1>3. UNCHANGED MaskVars /\ UNCHANGED <<work, items, parked, archived, slot, lost>>
  BY DEF Yard!AddAdopt, MaskVars, Yard!treeVars, Yard!countVars, Yard!slotVars, Yard!boxVars
<1>4. WorkSeen(session[s])' /\ \A b, n : Owes(q, b, n) => Owes(q, b, n)'
  BY <1>1, <1>2 DEF GoesTo, WorkSeen, AddPcs, RemovePcs, LeftPcs, Owes
<1>5. ByItself(s)' => ByItself(s) /\ AloneSeen(session[s])'
  BY <1>1, <1>2 DEF GoesTo, ByItself, AloneSeen, UpPcs, RemovePcs, LeftPcs
<1> QED BY <1>1, <1>2, <1>3, <1>4, <1>5, StepsAside DEF YardInv, YardOK, WorkInv, GoesTo

-----------------------------------------------------------------------------
(* A checkout that goes takes the masks over it along: there is nothing    *)
(* they should be over.                                                    *)
LEMMA BoxFields ==
  ASSUME YardInv, NEW b \in Yard!Owners
  PROVE  box[b] \in BoxTypes
BY DEF YardInv, YardOK

LEMMA UnpinnedBoxes ==
  ASSUME YardInv, NEW n \in Names, Yard!Unpinned(n)
  PROVE  /\ box' \in [Yard!Owners -> BoxTypes]
         /\ told' \subseteq Yard!Owners \X Yard!Owners
         /\ \A b \in Yard!Owners : /\ box'[b].state = box[b].state
                                   /\ box'[b].live = box[b].live \ {n}
         /\ \A b, m : m # n /\ <<b, m>> \in told => <<b, m>> \in told'
<1>1. \A b \in Yard!Owners : box[b] \in BoxTypes
  BY BoxFields
<1>2. box' = [b \in Yard!Owners |-> [box[b] EXCEPT !.live = @ \ {n}]]
  BY DEF Yard!Unpinned
<1>3. ASSUME NEW b \in Yard!Owners
      PROVE  /\ box'[b] \in BoxTypes /\ box'[b].state = box[b].state
             /\ box'[b].live = box[b].live \ {n}
  BY <1>1, <1>2, <1>3 DEF BoxTypes
<1>4. told' \subseteq Yard!Owners \X Yard!Owners
  BY DEF Yard!Unpinned, YardInv, YardOK
<1>5. \A b, m : m # n /\ <<b, m>> \in told => <<b, m>> \in told'
  BY DEF Yard!Unpinned, Yard!OfName
<1> QED BY <1>2, <1>3, <1>4, <1>5

LEMMA MasksUnpinned ==
  ASSUME YardInv, NEW s \in Sessions, OnlyMoves(s), NEW n \in Names, Yard!Unpinned(n),
         tree' = [tree EXCEPT ![n] = "none"], UNCHANGED <<reg, exempt>>,
         session[s].n = n
  PROVE  MasksInv'
<1>1. Yard!Registered' = Yard!Registered /\ Yard!Owners' = Yard!Owners
  BY DEF Yard!Registered, Yard!Owners
<1>2. ASSUME NEW b \in Yard!Registered, NEW m \in Yard!MaskTargets(b)', box'[b].state = "up"
      PROVE  /\ m \in Yard!MaskTargets(b)
             /\ Settled(b, m) => Settled(b, m)'
             /\ Owes(session[s], b, m) => Settled(b, m)'
  <2>1. b \in Yard!Owners
    BY DEF Yard!Registered, Yard!Owners, YardInv, YardOK
  <2>2. m \in Yard!Registered /\ m # b /\ (m = Main \/ (m \in Names /\ tree'[m] # "none"))
    BY DEF Yard!MaskTargets, Yard!Here, Yard!Registered, YardInv, YardOK
  <2>3. m # n
    BY <2>2, MainAssumption DEF YardInv, YardOK
  <2>4. m \in Yard!MaskTargets(b)
    BY <2>2 DEF Yard!MaskTargets, Yard!Here, YardInv, YardOK
  <2>5. Settled(b, m) => Settled(b, m)'
    BY <2>1, <2>3, UnpinnedBoxes DEF Settled
  <2>6. ~Owes(session[s], b, m)
    BY <2>3 DEF Owes
  <2> QED BY <2>4, <2>5, <2>6
<1>3. \A b \in Yard!Owners : box'[b].state = box[b].state
  BY UnpinnedBoxes
<1> QED BY <1>1, <1>2, <1>3, MasksStay

LEMMA StepsUnpinning ==
  ASSUME YardInv, NEW s \in Sessions, session[s].pc # "idle", OnlyMoves(s),
         IsCommand(session'[s]), ByItself(s)' => ByItself(s),
         NEW n \in Names, Yard!Unpinned(n), session[s].n = n,
         tree' = [tree EXCEPT ![n] = "none"], work' = [work EXCEPT ![n] = {}],
         UNCHANGED <<reg, exempt, items, parked, archived, slot>>, lost' = {},
         WorkSeen(session[s])', ByItself(s)' => AloneSeen(session[s])'
  PROVE  YardInv'
<1>0. \A m \in Names : work'[m] \subseteq work[m]
  BY DEF YardInv, YardOK
<1>1. OneAlone' /\ CommandsOK' /\ DOMAIN session' = Sessions
      /\ \A t \in Sessions : IsCommand(session'[t])
  BY <1>0, OneMoves
<1>2. MasksInv'
  BY MasksUnpinned
<1>3. YardOK'
  BY <1>1, UnpinnedBoxes DEF YardInv, YardOK, Yard!Owners, YardTypes, BoxTypes
<1>4. WorkInv'
  BY DEF YardInv, WorkInv, YardOK
<1> QED BY <1>1, <1>2, <1>3, <1>4 DEF YardInv

LEMMA RemGitStep ==
  ASSUME YardInv, NEW s \in Sessions, Yard!RemGit(s)
  PROVE  YardInv'
<1> DEFINE q == session[s]  r == session'[s]
<1>1. q.pc = "gitrm" /\ IsCommand(q) /\ WorkSeen(q) /\ (ByItself(s) => AloneSeen(q))
  BY AtPc DEF Yard!RemGit
<1>2. q.n \in Names
  BY <1>1 DEF WorkSeen, RemovePcs
<1>3. UNCHANGED <<reg, exempt, items, parked, archived, slot>>
  BY DEF Yard!RemGit, Yard!hostVars, Yard!slotVars, Yard!countVars
<1>4. CASE Yard!Gone(s, q.n) /\ Yard!Step(s, "local") /\ tree[q.n] \in {"unfilled", "whole"}
  <2>1. GoesTo(s, "local")
    <3>1. Yard!Step(s, "local") /\ "local" \in CommandPcs
      BY <1>4 DEF CommandPcs, RemovePcs
    <3> QED BY <3>1, CommandSteps DEF YardInv
  <2>2. /\ tree' = [tree EXCEPT ![q.n] = "none"] /\ work' = [work EXCEPT ![q.n] = {}]
        /\ Yard!Unpinned(q.n)
    BY <1>4 DEF Yard!Gone
  <2>3. lost' = {}
    <3>1. lost = {}
      BY DEF YardInv, WorkInv
    <3>2. ASSUME ~q.discard, ~q.orphaned, NEW i \in work[q.n] \ parked, i <= q.asof
          PROVE  FALSE
      <4>1. q.asof \in Nat /\ i > q.asof
        BY <1>1, <3>2 DEF WorkSeen
      <4>2. i \in Nat
        BY <1>2, <3>2 DEF YardInv, YardOK
      <4> QED BY <4>1, <4>2, <3>2
    <3> QED BY <3>1, <3>2, <1>4 DEF Yard!Gone
  <2>4. WorkSeen(session[s])'
    BY <1>1, <2>1 DEF GoesTo, WorkSeen, AddPcs, RemovePcs, LeftPcs
  <2>5. \A b \in Yard!Owners : box'[b].state = box[b].state
    BY <2>2, <1>2, UnpinnedBoxes
  <2>6. q.n \in Yard!Owners
    BY <1>2 DEF Yard!Owners
  <2>7. ByItself(s)' => ByItself(s) /\ AloneSeen(session[s])'
    BY <1>1, <1>3, <2>1, <2>5, <2>6 DEF GoesTo, ByItself, AloneSeen, UpPcs, RemovePcs, LeftPcs
  <2> QED BY <1>1, <1>2, <1>3, <2>1, <2>2, <2>3, <2>4, <2>7, StepsUnpinning DEF GoesTo
<1>5. CASE Yard!End(s) /\ UNCHANGED <<tree, work, box, told, lost>>
  <2>1. OnlyMoves(s) /\ IsCommand(r) /\ r.pc = "idle"
    BY <1>5, CommandEnds DEF YardInv
  <2>2. WorkSeen(session[s])' /\ ~ByItself(s)' /\ \A b, n : ~Owes(q, b, n)
    BY <1>1, <2>1 DEF WorkSeen, AddPcs, RemovePcs, LeftPcs, ByItself, Owes
  <2>3. UNCHANGED MaskVars
    BY <1>3, <1>5 DEF MaskVars
  <2> QED BY <1>1, <1>3, <1>5, <2>1, <2>2, <2>3, StepsAside DEF YardInv, YardOK, WorkInv
<1> QED BY <1>4, <1>5 DEF Yard!RemGit

LEMMA RemOrphanStep ==
  ASSUME YardInv, NEW s \in Sessions, Yard!RemOrphan(s)
  PROVE  YardInv'
<1> DEFINE q == session[s]  r == session'[s]
<1>1. q.pc = "check" /\ IsCommand(q) /\ WorkSeen(q) /\ (ByItself(s) => AloneSeen(q))
      /\ q.orphaned
  BY AtPc DEF Yard!RemOrphan
<1>2. q.n \in Names
  BY <1>1 DEF WorkSeen, RemovePcs
<1>3. UNCHANGED <<reg, exempt, items, parked, archived, slot>>
  BY DEF Yard!RemOrphan, Yard!hostVars, Yard!slotVars, Yard!countVars
<1>4. CASE Yard!Gone(s, q.n) /\ Yard!Step(s, "local")
  <2>1. GoesTo(s, "local")
    <3>1. Yard!Step(s, "local") /\ "local" \in CommandPcs
      BY <1>4 DEF CommandPcs, RemovePcs
    <3> QED BY <3>1, CommandSteps DEF YardInv
  <2>2. /\ tree' = [tree EXCEPT ![q.n] = "none"] /\ work' = [work EXCEPT ![q.n] = {}]
        /\ Yard!Unpinned(q.n) /\ lost' = lost
    BY <1>1, <1>4 DEF Yard!Gone
  <2>3. lost' = {}
    BY <2>2 DEF YardInv, WorkInv
  <2>4. WorkSeen(session[s])'
    BY <1>1, <2>1 DEF GoesTo, WorkSeen, AddPcs, RemovePcs, LeftPcs
  <2>5. \A b \in Yard!Owners : box'[b].state = box[b].state
    BY <2>2, <1>2, UnpinnedBoxes
  <2>6. q.n \in Yard!Owners
    BY <1>2 DEF Yard!Owners
  <2>7. ByItself(s)' => ByItself(s) /\ AloneSeen(session[s])'
    BY <1>1, <1>3, <2>1, <2>5, <2>6 DEF GoesTo, ByItself, AloneSeen, UpPcs, RemovePcs, LeftPcs
  <2> QED BY <1>1, <1>2, <1>3, <2>1, <2>2, <2>3, <2>4, <2>7, StepsUnpinning DEF GoesTo
<1>5. CASE Yard!End(s) /\ UNCHANGED <<tree, work, box, told, lost>>
  <2>1. OnlyMoves(s) /\ IsCommand(r) /\ r.pc = "idle"
    BY <1>5, CommandEnds DEF YardInv
  <2>2. WorkSeen(session[s])' /\ ~ByItself(s)' /\ \A b, n : ~Owes(q, b, n)
    BY <1>1, <2>1 DEF WorkSeen, AddPcs, RemovePcs, LeftPcs, ByItself, Owes
  <2>3. UNCHANGED MaskVars
    BY <1>3, <1>5 DEF MaskVars
  <2> QED BY <1>1, <1>3, <1>5, <2>1, <2>2, <2>3, StepsAside DEF YardInv, YardOK, WorkInv
<1> QED BY <1>4, <1>5 DEF Yard!RemOrphan

LEMMA AddCheckoutStep ==
  ASSUME YardInv, NEW s \in Sessions, Yard!AddCheckout(s)
  PROVE  YardInv'
<1> DEFINE q == session[s]  r == session'[s]
<1>1. q.pc = "checkout" /\ IsCommand(q) /\ WorkSeen(q) /\ (ByItself(s) => AloneSeen(q))
  BY AtPc DEF Yard!AddCheckout
<1>2. q.n \in Names
  BY <1>1 DEF WorkSeen, AddPcs
<1>3. UNCHANGED <<reg, exempt, items, parked, archived, slot>>
  BY DEF Yard!AddCheckout, Yard!hostVars, Yard!slotVars, Yard!countVars
<1>31. lost' = {}
  <2>1. lost = {} /\ (~q.excused => work[q.n] = {})
    BY <1>1, <1>2 DEF ByItself, AloneSeen, YardInv, WorkInv
  <2> QED BY <2>1 DEF Yard!AddCheckout
<1>4. CASE /\ Yard!End(s) /\ Yard!Unpinned(q.n) /\ tree' = [tree EXCEPT ![q.n] = "none"]
           /\ work' = [work EXCEPT ![q.n] = {}]
  <2>1. OnlyMoves(s) /\ IsCommand(r) /\ r.pc = "idle"
    BY <1>4, CommandEnds DEF YardInv
  <2>2. WorkSeen(session[s])' /\ ~ByItself(s)'
    BY <1>1, <2>1 DEF WorkSeen, AddPcs, RemovePcs, LeftPcs, ByItself
  <2> QED BY <1>1, <1>2, <1>3, <1>31, <1>4, <2>1, <2>2, StepsUnpinning
<1>5. CASE Yard!End(s) /\ UNCHANGED <<tree, work, box, told>> /\ tree[q.n] = "none"
  <2>1. OnlyMoves(s) /\ IsCommand(r) /\ r.pc = "idle"
    BY <1>5, CommandEnds DEF YardInv
  <2>2. WorkSeen(session[s])' /\ ~ByItself(s)'
    BY <1>1, <2>1 DEF WorkSeen, AddPcs, RemovePcs, LeftPcs, ByItself
  <2>3. UNCHANGED MaskVars
    BY <1>3, <1>5 DEF MaskVars
  <2>4. \A n \in Names : work'[n] \subseteq work[n]
    BY <1>5
  <2>5. OneAlone' /\ CommandsOK' /\ DOMAIN session' = Sessions
        /\ \A t \in Sessions : IsCommand(session'[t])
    BY <1>1, <1>3, <2>1, <2>2, <2>4, OneMoves
  <2>6. MasksInv'
    <3>1. Yard!Registered' = Yard!Registered /\ \A b : Yard!MaskTargets(b)' = Yard!MaskTargets(b)
      BY <2>3 DEF MaskVars, Yard!Registered, Yard!MaskTargets, Yard!Here
    <3>2. \A b, n : Settled(b, n)' = Settled(b, n)
      BY <2>3 DEF MaskVars, Settled
    <3>3. \A b : \A n \in Yard!MaskTargets(b) : ~Owes(q, b, n)
      BY <1>2, <1>5, MainAssumption DEF Owes, Yard!MaskTargets, Yard!Here
    <3> QED BY <2>1, <2>3, <3>1, <3>2, <3>3, MasksStay DEF MaskVars
  <2>7. YardOK'
    BY <1>3, <1>5, <2>5 DEF YardInv, YardOK, Yard!Owners
  <2>8. WorkInv'
    BY <1>31, <1>5 DEF YardInv, WorkInv
  <2> QED BY <2>5, <2>6, <2>7, <2>8 DEF YardInv
<1>6. CASE /\ tree' = [tree EXCEPT ![q.n] = "whole"] /\ Yard!Step(s, "register")
           /\ tree[q.n] \in {"unfilled", "whole"}
           /\ work' \in {work, [work EXCEPT ![q.n] = {}]} /\ UNCHANGED <<box, told>>
  <2>1. GoesTo(s, "register")
    <3>1. Yard!Step(s, "register") /\ "register" \in CommandPcs
      BY <1>6 DEF CommandPcs, AddPcs
    <3> QED BY <3>1, CommandSteps DEF YardInv
  <2>2. WorkSeen(session[s])' /\ (ByItself(s)' => ByItself(s) /\ AloneSeen(session[s])')
    BY <1>1, <2>1 DEF GoesTo, WorkSeen, AloneSeen, AddPcs, RemovePcs, LeftPcs, UpPcs, ByItself
  <2>4. work' \in [Names -> SUBSET Nat] /\ \A n \in Names : work'[n] \subseteq work[n]
    BY <1>2, <1>6 DEF YardInv, YardOK
  <2>5. OneAlone' /\ CommandsOK' /\ DOMAIN session' = Sessions
        /\ \A t \in Sessions : IsCommand(session'[t])
    BY <1>1, <1>3, <2>1, <2>2, <2>4, OneMoves DEF GoesTo
  <2>6. MasksInv'
    <3>1. Yard!Registered' = Yard!Registered
      BY <1>3 DEF Yard!Registered
    <3>2. \A b : Yard!MaskTargets(b)' = Yard!MaskTargets(b)
      BY <1>2, <1>6, <3>1 DEF Yard!MaskTargets, Yard!Here, Yard!Registered, YardInv, YardOK
    <3>3. \A b, n : Settled(b, n)' = Settled(b, n)
      BY <1>3, <1>6 DEF Settled
    <3>4. \A b, n : Owes(q, b, n) => Owes(q, b, n)'
      BY <1>1, <2>1 DEF Owes, GoesTo
    <3> QED BY <2>1, <1>3, <1>6, <3>1, <3>2, <3>3, <3>4, MasksStay DEF GoesTo
  <2>7. YardOK'
    BY <1>2, <1>3, <1>6, <2>4, <2>5 DEF YardInv, YardOK, Yard!Owners, YardTypes
  <2>8. WorkInv'
    BY <1>31, <1>6, <1>2 DEF YardInv, WorkInv, YardOK
  <2> QED BY <2>5, <2>6, <2>7, <2>8 DEF YardInv
<1> QED BY <1>4, <1>5, <1>6 DEF Yard!AddCheckout

-----------------------------------------------------------------------------
(* A box removed: what was told of it is forgotten with it.                *)
LEMMA MasksWithoutBox ==
  ASSUME YardInv, NEW s \in Sessions, OnlyMoves(s), NEW c \in Yard!Owners,
         box' = [box EXCEPT ![c] = Yard!NoBox], told' = {p \in told : p[1] # c},
         UNCHANGED <<tree, reg, exempt>>, \A b, n : ~Owes(session[s], b, n)
  PROVE  /\ MasksInv' /\ box' \in [Yard!Owners -> BoxTypes]
         /\ told' \subseteq Yard!Owners \X Yard!Owners
         /\ \A b \in Yard!Owners : box'[b].state = "up" => box[b].state = "up"
<1>1. Yard!Registered' = Yard!Registered /\ \A b : Yard!MaskTargets(b)' = Yard!MaskTargets(b)
  BY DEF Yard!Registered, Yard!MaskTargets, Yard!Here
<1>2. box' \in [Yard!Owners -> BoxTypes] /\ told' \subseteq Yard!Owners \X Yard!Owners
  BY DEF YardInv, YardOK, Yard!NoBox, BoxTypes
<1>3. \A b \in Yard!Owners : box'[b].state = "up" => b # c /\ box'[b] = box[b]
  BY DEF YardInv, YardOK, Yard!NoBox
<1>4. ASSUME NEW b \in Yard!Registered, box'[b].state = "up", NEW n \in Yard!MaskTargets(b),
             Settled(b, n)
      PROVE  Settled(b, n)'
  <2>1. b \in Yard!Owners
    BY DEF Yard!Registered, Yard!Owners, YardInv, YardOK
  <2>2. b # c /\ box'[b] = box[b]
    BY <1>3, <1>4, <2>1
  <2> QED BY <2>2, <1>4 DEF Settled
<1> QED BY <1>1, <1>2, <1>3, <1>4, MasksStay

LEMMA DownRmStep ==
  ASSUME YardInv, NEW s \in Sessions, Yard!DownRm(s)
  PROVE  YardInv'
<1> DEFINE q == session[s]  r == session'[s]
<1>1. q.pc \in {"rm", "remrm"} /\ IsCommand(q) /\ WorkSeen(q) /\ DOMAIN session = Sessions
  BY DEF Yard!DownRm, Yard!At, YardInv, YardOK, CommandsOK
<1>2. q.n \in Yard!Owners /\ \A b, n : ~Owes(q, b, n)
  BY <1>1 DEF IsCommand, Owes
<1>3. /\ OnlyMoves(s) /\ IsCommand(r)
      /\ \/ r.pc = "idle"
         \/ /\ r.pc = "vols" /\ r.n = q.n /\ q.pc = "remrm"
            /\ r.excused \/ (r.excused = q.excused /\ box'[q.n].state # "up")
  <2>1. CASE q.pc = "rm"
    <3>1. session' = [session EXCEPT ![s] = Yard!Idle]
          \/ session' = [session EXCEPT ![s] = [Yard!Idle EXCEPT !.excused = FALSE]]
      BY <2>1 DEF Yard!DownRm, Yard!At
    <3>2. OnlyMoves(s) /\ (r = Yard!Idle \/ r = [Yard!Idle EXCEPT !.excused = FALSE])
      BY <3>1, <1>1 DEF OnlyMoves
    <3>3. Yard!Idle.pc = "idle" /\ IsCommand(Yard!Idle)
      BY DEF IsCommand, Yard!Idle, CommandPcs, Yard!Owners
    <3>4. PICK i : i = Yard!Idle
      OBVIOUS
    <3>5. ASSUME r = [i EXCEPT !.excused = FALSE] PROVE r.pc = "idle" /\ IsCommand(r)
      <4>1. i.pc = "idle" /\ IsCommand(i)
        BY <3>3, <3>4
      <4> QED BY <4>1, <3>5 DEF IsCommand
    <3> QED BY <3>2, <3>3, <3>4, <3>5
  <2>2. CASE q.pc = "remrm"
    <3>1. \/ /\ session' = [session EXCEPT ![s] = [q EXCEPT !.pc = "vols"]]
             /\ box' = [box EXCEPT ![q.n] = Yard!NoBox]
          \/ session' = [session EXCEPT ![s] = [[q EXCEPT !.pc = "vols"] EXCEPT !.excused = TRUE]]
      BY <2>2 DEF Yard!DownRm, Yard!At
    <3>2. box' = [box EXCEPT ![q.n] = Yard!NoBox] => box'[q.n].state # "up"
      BY <1>2 DEF YardInv, YardOK, Yard!NoBox
    <3>3. CASE session' = [session EXCEPT ![s] = [q EXCEPT !.pc = "vols"]]
               /\ box' = [box EXCEPT ![q.n] = Yard!NoBox]
      <4>1. OnlyMoves(s) /\ r = [q EXCEPT !.pc = "vols"]
        BY <1>1, <3>3 DEF OnlyMoves
      <4>2. IsCommand(r) /\ r.pc = "vols" /\ r.n = q.n /\ r.excused = q.excused
        BY <4>1, <1>1 DEF IsCommand, CommandPcs, RemovePcs
      <4> QED BY <4>1, <4>2, <3>2, <3>3, <2>2
    <3>4. CASE session' = [session EXCEPT ![s] = [[q EXCEPT !.pc = "vols"] EXCEPT !.excused = TRUE]]
      <4>1. OnlyMoves(s) /\ r = [q EXCEPT !.pc = "vols", !.excused = TRUE]
        BY <1>1, <3>4 DEF OnlyMoves
      <4>2. IsCommand(r) /\ r.pc = "vols" /\ r.n = q.n /\ r.excused
        BY <4>1, <1>1 DEF IsCommand, CommandPcs, RemovePcs
      <4> QED BY <4>1, <4>2, <2>2
    <3> QED BY <3>1, <3>3, <3>4
  <2> QED BY <1>1, <2>1, <2>2
<1>4. UNCHANGED <<tree, work, reg, exempt, items, parked, archived, slot, lost>>
  BY DEF Yard!DownRm, Yard!treeVars, Yard!hostVars, Yard!slotVars, Yard!countVars
<1>5. /\ MasksInv' /\ box' \in [Yard!Owners -> BoxTypes]
      /\ told' \subseteq Yard!Owners \X Yard!Owners
  <2>1. \/ box' = [box EXCEPT ![q.n] = Yard!NoBox] /\ told' = {p \in told : p[1] # q.n}
        \/ UNCHANGED <<box, told>>
    BY DEF Yard!DownRm
  <2>2. PICK c \in Yard!Owners : c = q.n
    BY <1>2
  <2>3. CASE box' = [box EXCEPT ![q.n] = Yard!NoBox] /\ told' = {p \in told : p[1] # q.n}
    BY <1>2, <1>3, <1>4, <2>2, <2>3, MasksWithoutBox
  <2>4. CASE UNCHANGED <<box, told>>
    BY <1>2, <1>3, <1>4, <2>4, MasksAside DEF MaskVars, YardInv, YardOK
  <2> QED BY <2>1, <2>3, <2>4
<1>6. WorkSeen(session[s])' /\ (ByItself(s)' => ByItself(s) /\ AloneSeen(session[s])')
  BY <1>1, <1>3 DEF WorkSeen, AloneSeen, AddPcs, RemovePcs, LeftPcs, UpPcs, ByItself
<1>7. OneAlone' /\ CommandsOK' /\ DOMAIN session' = Sessions
      /\ \A t \in Sessions : IsCommand(session'[t])
  BY <1>1, <1>3, <1>4, <1>6, OneMoves
<1>8. YardOK'
  BY <1>4, <1>5, <1>7 DEF YardInv, YardOK, Yard!Owners, BoxTypes
<1>9. WorkInv'
  BY <1>4 DEF YardInv, WorkInv
<1> QED BY <1>5, <1>7, <1>8, <1>9 DEF YardInv

LEMMA UpBuildStep ==
  ASSUME YardInv, NEW s \in Sessions, Yard!UpBuild(s)
  PROVE  YardInv'
<1> DEFINE q == session[s]  r == session'[s]
<1>1. q.pc = "up" /\ IsCommand(q) /\ WorkSeen(q) /\ (ByItself(s) => AloneSeen(q))
  BY AtPc DEF Yard!UpBuild
<1>2. q.n \in Yard!Owners /\ \A b, n : ~Owes(q, b, n)
  BY <1>1 DEF IsCommand, Owes
<1>3. OnlyMoves(s) /\ IsCommand(r) /\ (r.pc = "idle" \/ GoesTo(s, "masks"))
  <2>1. Yard!Step(s, "masks") \/ Yard!End(s)
    BY DEF Yard!UpBuild
  <2>2. "masks" \in CommandPcs
    BY DEF CommandPcs, UpPcs
  <2>3. CASE Yard!Step(s, "masks")
    BY <2>2, <2>3, CommandSteps DEF YardInv, GoesTo
  <2>4. CASE Yard!End(s)
    BY <2>4, CommandEnds DEF YardInv
  <2> QED BY <2>1, <2>3, <2>4
<1>4. UNCHANGED <<tree, work, reg, exempt, items, parked, archived, slot, lost>>
  BY DEF Yard!UpBuild, Yard!treeVars, Yard!hostVars, Yard!slotVars, Yard!countVars
<1>5. /\ MasksInv' /\ box' \in [Yard!Owners -> BoxTypes]
      /\ told' \subseteq Yard!Owners \X Yard!Owners
  <2>2. PICK c \in Yard!Owners : c = q.n
    BY <1>2
  <2> QED BY <1>2, <1>3, <1>4, <2>2, MasksWithoutBox DEF Yard!UpBuild
<1>51. Yard!Registered' = Yard!Registered
  BY <1>4 DEF Yard!Registered
<1>6. WorkSeen(session[s])' /\ (ByItself(s)' => ByItself(s) /\ AloneSeen(session[s])')
  BY <1>1, <1>3, <1>51
     DEF GoesTo, WorkSeen, AloneSeen, AddPcs, RemovePcs, LeftPcs, UpPcs, ByItself
<1>7. OneAlone' /\ CommandsOK' /\ DOMAIN session' = Sessions
      /\ \A t \in Sessions : IsCommand(session'[t])
  BY <1>1, <1>3, <1>4, <1>6, OneMoves
<1>8. YardOK'
  BY <1>4, <1>5, <1>7 DEF YardInv, YardOK, Yard!Owners, BoxTypes
<1>9. WorkInv'
  BY <1>4 DEF YardInv, WorkInv
<1> QED BY <1>5, <1>7, <1>8, <1>9 DEF YardInv

LEMMA KillStep ==
  ASSUME YardInv, NEW s \in Sessions, Yard!Kill(s)
  PROVE  YardInv'
<1> DEFINE q == session[s]  r == session'[s]
<1>1. q.pc # "idle" /\ IsCommand(q)
  BY DEF Yard!Kill, Yard!Busy, Yard!At, YardInv, YardOK
<1>2. OnlyMoves(s) /\ IsCommand(r) /\ r.pc = "idle"
  BY CommandEnds DEF YardInv, Yard!Kill
<1>3. UNCHANGED <<tree, work, reg, box, told, items, parked, archived, slot, lost>>
  BY DEF Yard!Kill, Yard!treeVars, Yard!hostVars, Yard!slotVars, Yard!countVars
<1>4. WorkSeen(session[s])' /\ ~ByItself(s)'
  BY <1>2 DEF WorkSeen, AddPcs, RemovePcs, LeftPcs, ByItself
<1>5. OneAlone' /\ CommandsOK' /\ DOMAIN session' = Sessions
      /\ \A t \in Sessions : IsCommand(session'[t])
  BY <1>1, <1>2, <1>3, <1>4, OneMoves
<1>6. exempt' \subseteq Yard!Owners \X Yard!Owners
  BY <1>1 DEF Yard!Kill, Yard!OfBox, Yard!OfName, YardInv, YardOK, IsCommand
<1>7. MasksInv'
  <2>1. Yard!Registered' = Yard!Registered /\ \A b : Yard!MaskTargets(b)' = Yard!MaskTargets(b)
    BY <1>3 DEF Yard!Registered, Yard!MaskTargets, Yard!Here
  <2>2. exempt \subseteq exempt'
    BY DEF Yard!Kill
  <2>3. ASSUME NEW b \in Yard!Registered, NEW n \in Yard!MaskTargets(b)
        PROVE  /\ Settled(b, n) => Settled(b, n)'
               /\ Owes(q, b, n) => Settled(b, n)'
    <3>1. b \in Yard!Owners
      BY DEF Yard!Registered, Yard!Owners, YardInv, YardOK
    <3>2. Owes(q, b, n) => <<b, n>> \in exempt'
      BY <3>1 DEF Owes, Yard!Kill, Yard!OfName
    <3> QED BY <1>3, <2>2, <3>2 DEF Settled
  <2> QED BY <1>2, <1>3, <2>1, <2>2, <2>3, MasksStay
<1>8. YardOK'
  BY <1>3, <1>5, <1>6 DEF YardInv, YardOK, Yard!Owners
<1>9. WorkInv'
  BY <1>3 DEF YardInv, WorkInv
<1> QED BY <1>5, <1>7, <1>8, <1>9 DEF YardInv

-----------------------------------------------------------------------------
(* A step that makes a box, looks one over or registers a checkout: what   *)
(* is new to a box is masked or said, or it is still to be.                *)
LEMMA MasksGo ==
  ASSUME YardInv, NEW s \in Sessions, OnlyMoves(s),
         \A b \in Yard!Registered' : box'[b].state = "up" =>
           \A n \in Yard!MaskTargets(b)' :
             \/ Settled(b, n)' \/ Owes(session[s], b, n)'
             \/ /\ b \in Yard!Registered /\ box[b].state = "up" /\ n \in Yard!MaskTargets(b)
                /\ Settled(b, n) => Settled(b, n)'
                /\ Owes(session[s], b, n) => Owes(session[s], b, n)' \/ Settled(b, n)',
         \A b \in Yard!Owners \ Yard!Registered' :
           box'[b].state = "up" => \A n \in Yard!Owners : <<b, n>> \in exempt'
  PROVE  MasksInv'
<1>1. ASSUME NEW b \in Yard!Registered', box'[b].state = "up", NEW n \in Yard!MaskTargets(b)'
      PROVE  Settled(b, n)' \/ \E t \in Sessions : Owes(session[t], b, n)'
  <2>1. CASE Settled(b, n)' \/ Owes(session[s], b, n)'
    BY <2>1
  <2>2. CASE /\ b \in Yard!Registered /\ box[b].state = "up" /\ n \in Yard!MaskTargets(b)
             /\ Settled(b, n) => Settled(b, n)'
             /\ Owes(session[s], b, n) => Owes(session[s], b, n)' \/ Settled(b, n)'
    <3>1. Settled(b, n) \/ \E t \in Sessions : Owes(session[t], b, n)
      BY <2>2 DEF YardInv, MasksInv
    <3>2. ASSUME NEW t \in Sessions, Owes(session[t], b, n)
          PROVE  Settled(b, n)' \/ \E u \in Sessions : Owes(session[u], b, n)'
      <4>1. CASE t = s
        BY <2>2, <3>2, <4>1
      <4>2. CASE t # s
        <5>1. session'[t] = session[t]
          BY <4>2 DEF OnlyMoves
        <5>2. Owes(session[t], b, n)'
          BY <5>1, <3>2 DEF Owes
        <5> QED BY <5>2
      <4> QED BY <4>1, <4>2
    <3> QED BY <2>2, <3>1, <3>2
  <2> QED BY <1>1, <2>1, <2>2
<1>2. Yard!Owners' = Yard!Owners
  BY DEF Yard!Owners
<1> QED BY <1>1, <1>2 DEF MasksInv

LEMMA MasksOfBox ==
  ASSUME YardInv, NEW s \in Sessions, OnlyMoves(s), NEW c \in Yard!Owners,
         UNCHANGED <<tree, reg>>, told \subseteq told',
         \A b \in Yard!Owners : b # c => box'[b] = box[b],
         \A b, n : b # c /\ <<b, n>> \in exempt => <<b, n>> \in exempt',
         \A b, n : ~Owes(session[s], b, n),
         \/ \A n \in Yard!Owners : <<c, n>> \in exempt'
         \/ c \in Yard!Registered /\ \A n \in Yard!MaskTargets(c) : Settled(c, n)'
  PROVE  MasksInv'
<1>1. Yard!Registered' = Yard!Registered /\ \A b : Yard!MaskTargets(b)' = Yard!MaskTargets(b)
  BY DEF Yard!Registered, Yard!MaskTargets, Yard!Here
<1>2. Yard!Registered \subseteq Yard!Owners /\ \A b : Yard!MaskTargets(b) \subseteq Yard!Owners
  BY DEF Yard!Registered, Yard!Owners, YardInv, YardOK, Yard!MaskTargets
<1>3. ASSUME NEW b \in Yard!Registered, box'[b].state = "up", NEW n \in Yard!MaskTargets(b)
      PROVE  \/ Settled(b, n)'
             \/ box[b].state = "up" /\ (Settled(b, n) => Settled(b, n)')
  <2>1. CASE b = c
    <3>1. n \in Yard!Owners
      BY <1>2
    <3> QED BY <2>1, <3>1 DEF Settled
  <2>2. CASE b # c
    <3>1. box'[b] = box[b]
      BY <1>2, <2>2
    <3> QED BY <2>2, <3>1, <1>3 DEF Settled
  <2> QED BY <2>1, <2>2
<1>4. ASSUME NEW b \in Yard!Owners \ Yard!Registered, box'[b].state = "up", NEW n \in Yard!Owners
      PROVE  <<b, n>> \in exempt'
  <2>1. CASE b = c
    BY <2>1
  <2>2. CASE b # c
    BY <2>2, <1>4 DEF YardInv, MasksInv
  <2> QED BY <2>1, <2>2
<1> QED BY <1>1, <1>3, <1>4, MasksGo

LEMMA UpRunningStep ==
  ASSUME YardInv, NEW s \in Sessions, Yard!UpRunning(s)
  PROVE  YardInv'
<1> DEFINE q == session[s]  r == session'[s]
<1>1. q.pc = "up" /\ IsCommand(q) /\ WorkSeen(q) /\ (ByItself(s) => AloneSeen(q))
  BY AtPc DEF Yard!UpRunning
<1>2. q.n \in Yard!Owners /\ \A b, n : ~Owes(q, b, n)
  BY <1>1 DEF IsCommand, Owes
<1>3. OnlyMoves(s) /\ IsCommand(r) /\ r.pc = "idle"
  BY CommandEnds DEF YardInv, Yard!UpRunning
<1>4. UNCHANGED <<tree, work, reg, items, parked, archived, slot, lost>>
  BY DEF Yard!UpRunning, Yard!treeVars, Yard!hostVars, Yard!slotVars, Yard!countVars
<1>5. box[q.n] \in BoxTypes /\ \A b : Yard!MaskTargets(b) \subseteq Yard!Owners
  BY <1>2, BoxFields DEF Yard!Registered, Yard!Owners, YardInv, YardOK, Yard!MaskTargets
<1>6. PICK c \in Yard!Owners : c = q.n
  BY <1>2
<1>7. /\ box' \in [Yard!Owners -> BoxTypes]
      /\ \A b \in Yard!Owners : b # c => box'[b] = box[b]
      /\ box[c].live \subseteq box'[c].live
  <2>1. box' = box \/ box' = [box EXCEPT ![c].live = @ \cup Yard!Gaps(c)]
    BY <1>6 DEF Yard!UpRunning, Yard!Injected
  <2>2. box \in [Yard!Owners -> BoxTypes] /\ Yard!Gaps(c) \subseteq Yard!Owners
    BY <1>5 DEF YardInv, YardOK, Yard!Gaps
  <2>3. CASE box' = [box EXCEPT ![c].live = @ \cup Yard!Gaps(c)]
    BY <2>2, <2>3 DEF BoxTypes
  <2> QED BY <2>1, <2>2, <2>3
<1>8. told \subseteq told' /\ told' \subseteq Yard!Owners \X Yard!Owners
  BY <1>5, <1>6 DEF Yard!UpRunning, Yard!Told, Yard!Gaps, Yard!RecordedGaps, YardInv, YardOK
<1>9. /\ exempt' \subseteq Yard!Owners \X Yard!Owners
      /\ \A b, n : b # c /\ <<b, n>> \in exempt => <<b, n>> \in exempt'
      /\ q.excused => \A n \in Yard!Owners : <<c, n>> \in exempt'
  <2>1. exempt' = Yard!LookedOver(s, c) \/ exempt' = Yard!LookedOver(s, c) \cup Yard!Believed(c)
    BY <1>6 DEF Yard!UpRunning
  <2>2. Yard!Believed(c) \subseteq Yard!Owners \X Yard!Owners
    BY <1>5, <1>6 DEF Yard!Believed, BoxTypes
  <2>3. exempt \subseteq Yard!Owners \X Yard!Owners
    BY DEF YardInv, YardOK
  <2> QED BY <2>1, <2>2, <2>3 DEF Yard!LookedOver, Yard!OfBox
<1>10. ASSUME ~q.excused
       PROVE  c \in Yard!Registered /\ \A n \in Yard!MaskTargets(c) : Settled(c, n)'
  <2>1. c \in Yard!Registered
    BY <1>1, <1>6, <1>10 DEF ByItself, AloneSeen, UpPcs
  <2>2. \/ box'[c].live = box[c].live \cup Yard!Gaps(c)
        \/ told' = Yard!Told(c, Yard!Gaps(c)) /\ box' = box
        \/ /\ told' = Yard!Told(c, Yard!RecordedGaps(c)) /\ box' = box
           /\ exempt' = Yard!LookedOver(s, c) \cup Yard!Believed(c)
    <3>1. box' = [box EXCEPT ![c].live = @ \cup Yard!Gaps(c)]
          => box'[c].live = box[c].live \cup Yard!Gaps(c)
      BY <1>5, <1>6 DEF BoxTypes, YardInv, YardOK
    <3> QED BY <1>6, <3>1 DEF Yard!UpRunning, Yard!Injected
  <2> QED BY <2>1, <2>2 DEF Yard!Told, Yard!Gaps, Yard!RecordedGaps, Yard!Believed, Settled
<1>11. MasksInv'
  BY <1>2, <1>3, <1>4, <1>7, <1>8, <1>9, <1>10, MasksOfBox
<1>12. WorkSeen(session[s])' /\ ~ByItself(s)'
  BY <1>3 DEF WorkSeen, AddPcs, RemovePcs, LeftPcs, ByItself
<1>13. OneAlone' /\ CommandsOK' /\ DOMAIN session' = Sessions
       /\ \A t \in Sessions : IsCommand(session'[t])
  BY <1>1, <1>3, <1>4, <1>12, OneMoves
<1>14. YardOK'
  BY <1>4, <1>7, <1>8, <1>9, <1>13 DEF YardInv, YardOK, Yard!Owners, BoxTypes
<1>15. WorkInv'
  BY <1>4 DEF YardInv, WorkInv
<1> QED BY <1>11, <1>13, <1>14, <1>15 DEF YardInv

LEMMA UpRunStep ==
  ASSUME YardInv, NEW s \in Sessions, Yard!UpRun(s)
  PROVE  YardInv'
<1> DEFINE q == session[s]  r == session'[s]
<1>1. q.pc = "run" /\ IsCommand(q) /\ WorkSeen(q) /\ (ByItself(s) => AloneSeen(q))
  BY AtPc DEF Yard!UpRun
<1>2. /\ q.n \in Yard!Owners /\ q.names \subseteq Yard!Owners
      /\ \A b, n : ~Owes(q, b, n)
  BY <1>1 DEF IsCommand, Owes, WorkSeen
<1>3. OnlyMoves(s) /\ IsCommand(r) /\ r.pc = "idle"
  BY CommandEnds DEF YardInv, Yard!UpRun
<1>4. UNCHANGED <<tree, work, reg, items, parked, archived, slot, lost>>
  BY DEF Yard!UpRun, Yard!treeVars, Yard!hostVars, Yard!slotVars, Yard!countVars
<1>5. PICK c \in Yard!Owners : c = q.n
  BY <1>2
<1>6. \/ UNCHANGED <<box, told, exempt>>
      \/ /\ exempt' = Yard!LookedOver(s, c)
         /\ \/ /\ box' = [box EXCEPT ![c] = [state |-> "up", baked |-> q.names, live |-> q.names]]
               /\ told' = told
            \/ /\ box' = [box EXCEPT ![c] = [Yard!NoBox EXCEPT !.state = "up"]]
               /\ told' = Yard!Told(c, q.names)
  BY <1>5 DEF Yard!UpRun, Yard!boxVars
<1>7. WorkSeen(session[s])' /\ ~ByItself(s)'
  BY <1>3 DEF WorkSeen, AddPcs, RemovePcs, LeftPcs, ByItself
<1>8. OneAlone' /\ CommandsOK' /\ DOMAIN session' = Sessions
      /\ \A t \in Sessions : IsCommand(session'[t])
  BY <1>1, <1>3, <1>4, <1>7, OneMoves
<1>9. WorkInv'
  BY <1>4 DEF YardInv, WorkInv
<1>10. CASE UNCHANGED <<box, told, exempt>>
  <2>1. MasksInv'
    BY <1>2, <1>3, <1>4, <1>10, MasksAside DEF MaskVars
  <2>2. YardOK'
    BY <1>4, <1>8, <1>10 DEF YardInv, YardOK, Yard!Owners
  <2> QED BY <1>8, <1>9, <2>1, <2>2 DEF YardInv
<1>11. CASE /\ exempt' = Yard!LookedOver(s, c)
            /\ \/ /\ box' = [box EXCEPT ![c] = [state |-> "up", baked |-> q.names,
                                                live |-> q.names]]
                  /\ told' = told
               \/ /\ box' = [box EXCEPT ![c] = [Yard!NoBox EXCEPT !.state = "up"]]
                  /\ told' = Yard!Told(c, q.names)
  <2>1. /\ box' \in [Yard!Owners -> BoxTypes]
        /\ \A b \in Yard!Owners : b # c => box'[b] = box[b]
        /\ box'[c].live = q.names \/ told' = Yard!Told(c, q.names)
    BY <1>2, <1>11 DEF YardInv, YardOK, Yard!NoBox, BoxTypes
  <2>2. told \subseteq told' /\ told' \subseteq Yard!Owners \X Yard!Owners
    BY <1>2, <1>11 DEF Yard!Told, YardInv, YardOK
  <2>3. /\ exempt' \subseteq Yard!Owners \X Yard!Owners
        /\ \A b, n : b # c /\ <<b, n>> \in exempt => <<b, n>> \in exempt'
        /\ q.excused => \A n \in Yard!Owners : <<c, n>> \in exempt'
    BY <1>11 DEF Yard!LookedOver, Yard!OfBox, YardInv, YardOK
  <2>4. ASSUME ~q.excused
        PROVE  c \in Yard!Registered /\ \A n \in Yard!MaskTargets(c) : Settled(c, n)'
    <3>1. c \in Yard!Registered /\ Yard!MaskTargets(c) \subseteq q.names
      BY <1>1, <1>5, <2>4 DEF ByItself, AloneSeen, UpPcs
    <3> QED BY <3>1, <2>1 DEF Settled, Yard!Told
  <2>5. MasksInv'
    BY <1>2, <1>3, <1>4, <2>1, <2>2, <2>3, <2>4, MasksOfBox
  <2>6. YardOK'
    BY <1>4, <1>8, <2>1, <2>2, <2>3 DEF YardInv, YardOK, Yard!Owners, BoxTypes
  <2> QED BY <1>8, <1>9, <2>5, <2>6 DEF YardInv
<1> QED BY <1>6, <1>10, <1>11

-----------------------------------------------------------------------------
(* Adding and unregistering.                                               *)
LEMMA AddGitStep ==
  ASSUME YardInv, NEW s \in Sessions, Yard!AddGit(s)
  PROVE  YardInv'
<1> DEFINE q == session[s]  r == session'[s]
<1>1. q.pc = "git" /\ IsCommand(q) /\ WorkSeen(q) /\ (ByItself(s) => AloneSeen(q))
  BY AtPc DEF Yard!AddGit
<1>2. q.n \in Names /\ \A b, n : ~Owes(q, b, n)
  BY <1>1 DEF Owes, WorkSeen, AddPcs
<1>3. UNCHANGED <<work, reg, box, told, exempt, items, parked, archived, slot, lost>>
  BY DEF Yard!AddGit, Yard!hostVars, Yard!slotVars, Yard!countVars, Yard!boxVars
<1>4. CASE Yard!End(s) /\ tree' = tree
  <2>1. OnlyMoves(s) /\ IsCommand(r) /\ r.pc = "idle"
    BY <1>4, CommandEnds DEF YardInv
  <2>2. WorkSeen(session[s])' /\ ~ByItself(s)'
    BY <2>1 DEF WorkSeen, AddPcs, RemovePcs, LeftPcs, ByItself
  <2>3. UNCHANGED MaskVars
    BY <1>3, <1>4 DEF MaskVars
  <2> QED BY <1>1, <1>2, <1>3, <2>1, <2>2, <2>3, StepsAside DEF YardInv, YardOK, WorkInv
<1>5. CASE /\ tree[q.n] = "none" /\ tree' = [tree EXCEPT ![q.n] = "unfilled"]
           /\ Yard!Step(s, "checkout")
  <2>1. GoesTo(s, "checkout")
    <3>1. "checkout" \in CommandPcs
      BY DEF CommandPcs, AddPcs
    <3> QED BY <3>1, <1>5, CommandSteps DEF YardInv
  <2>2. tree'[q.n] = "unfilled" /\ \A n \in Names : n # q.n => tree'[n] = tree[n]
    BY <1>2, <1>5 DEF YardInv, YardOK
  <2>3. WorkSeen(session[s])' /\ (ByItself(s)' => ByItself(s) /\ AloneSeen(session[s])')
    BY <1>1, <2>1, <2>2
       DEF GoesTo, WorkSeen, AloneSeen, AddPcs, RemovePcs, LeftPcs, UpPcs, ByItself
  <2>4. OneAlone' /\ CommandsOK' /\ DOMAIN session' = Sessions
        /\ \A t \in Sessions : IsCommand(session'[t])
    BY <1>1, <1>3, <2>1, <2>3, OneMoves DEF GoesTo
  <2>5. MasksInv'
    <3>1. Yard!Registered' = Yard!Registered
      BY <1>3 DEF Yard!Registered
    <3>2. ASSUME NEW b, NEW n \in Yard!MaskTargets(b)'
          PROVE  n \in Yard!MaskTargets(b) \/ Owes(session[s], b, n)'
      <4>1. n \in Yard!Registered /\ n # b /\ (n = Main \/ (n \in Names /\ tree'[n] # "none"))
        BY <3>1 DEF Yard!MaskTargets, Yard!Here, Yard!Registered, YardInv, YardOK
      <4>2. CASE n = q.n
        BY <2>1, <4>2 DEF GoesTo, Owes
      <4>3. CASE n # q.n
        BY <2>2, <4>1, <4>3 DEF Yard!MaskTargets, Yard!Here
      <4> QED BY <4>2, <4>3
    <3>3. \A b, n : Settled(b, n)' = Settled(b, n)
      BY <1>3 DEF Settled
    <3>4. \A b \in Yard!Owners \ Yard!Registered :
            box'[b].state = "up" => \A n \in Yard!Owners : <<b, n>> \in exempt'
      BY <1>3 DEF YardInv, MasksInv
    <3> QED BY <1>2, <1>3, <2>1, <3>1, <3>2, <3>3, <3>4, MasksGo DEF GoesTo
  <2>6. YardOK'
    BY <1>3, <1>5, <2>4 DEF YardInv, YardOK, Yard!Owners, YardTypes
  <2>7. WorkInv'
    BY <1>3, <1>5, <2>2 DEF YardInv, WorkInv
  <2> QED BY <2>4, <2>5, <2>6, <2>7 DEF YardInv
<1> QED BY <1>4, <1>5 DEF Yard!AddGit

(* A checkout that is registered is what its own box is promised from, and *)
(* what the others are.                                                    *)
LEMMA MasksRegistered ==
  ASSUME YardInv, NEW s \in Sessions, OnlyMoves(s), NEW c \in Names, reg' = reg \cup {c},
         UNCHANGED <<tree, box, told, exempt>>,
         \A b, n : Owes(session[s], b, n) => Owes(session[s], b, n)',
         \A b \in Yard!Owners : Owes(session[s], b, c)'
  PROVE  MasksInv'
<1>1. Yard!Registered' = Yard!Registered \cup {c} /\ Yard!Registered' \subseteq Yard!Owners
  BY DEF Yard!Registered, Yard!Owners, YardInv, YardOK
<1>2. \A b : Yard!MaskTargets(b)' \subseteq Yard!MaskTargets(b) \cup {c}
  BY <1>1 DEF Yard!MaskTargets, Yard!Here
<1>3. \A b, n : Settled(b, n)' = Settled(b, n)
  BY DEF Settled
<1>4. ASSUME NEW b \in Yard!Registered', box'[b].state = "up", NEW n \in Yard!MaskTargets(b)'
      PROVE  \/ Settled(b, n)' \/ Owes(session[s], b, n)'
             \/ /\ b \in Yard!Registered /\ box[b].state = "up" /\ n \in Yard!MaskTargets(b)
                /\ Settled(b, n) => Settled(b, n)'
                /\ Owes(session[s], b, n) => Owes(session[s], b, n)' \/ Settled(b, n)'
  <2>1. b \in Yard!Owners /\ n \in Yard!Owners
    BY <1>1 DEF Yard!MaskTargets
  <2>2. CASE b \notin Yard!Registered
    BY <1>4, <2>1, <2>2 DEF YardInv, MasksInv, Settled
  <2>3. CASE n = c
    BY <2>1, <2>3
  <2>4. CASE b \in Yard!Registered /\ n # c
    BY <1>2, <1>3, <1>4, <2>4
  <2> QED BY <2>2, <2>3, <2>4
<1>5. \A b \in Yard!Owners \ Yard!Registered' :
        box'[b].state = "up" => \A n \in Yard!Owners : <<b, n>> \in exempt'
  BY <1>1 DEF YardInv, MasksInv
<1> QED BY <1>4, <1>5, MasksGo

LEMMA AddRegisterStep ==
  ASSUME YardInv, NEW s \in Sessions, Yard!AddRegister(s)
  PROVE  YardInv'
<1> DEFINE q == session[s]  r == session'[s]
<1>1. q.pc = "register" /\ IsCommand(q) /\ WorkSeen(q) /\ (ByItself(s) => AloneSeen(q))
  BY AtPc DEF Yard!AddRegister
<1>2. q.n \in Names
  BY <1>1 DEF WorkSeen, AddPcs
<1>3. UNCHANGED <<tree, work, box, told, exempt, items, parked, archived, slot, lost>>
  BY DEF Yard!AddRegister, Yard!treeVars, Yard!slotVars, Yard!countVars, Yard!boxVars
<1>31. OnlyMoves(s) /\ IsCommand(r) /\ (r.pc = "idle" \/ GoesTo(s, "adopt"))
  <2>1. "adopt" \in CommandPcs
    BY DEF CommandPcs, AddPcs
  <2>2. CASE Yard!End(s)
    BY <2>2, CommandEnds DEF YardInv
  <2>3. CASE Yard!Step(s, "adopt")
    BY <2>1, <2>3, CommandSteps DEF YardInv, GoesTo
  <2> QED BY <2>2, <2>3 DEF Yard!AddRegister
<1>32. WorkSeen(session[s])' /\ (ByItself(s)' => ByItself(s) /\ AloneSeen(session[s])')
  BY <1>1, <1>31 DEF GoesTo, WorkSeen, AloneSeen, AddPcs, RemovePcs, LeftPcs, UpPcs, ByItself
<1>33. OneAlone' /\ CommandsOK' /\ DOMAIN session' = Sessions
       /\ \A t \in Sessions : IsCommand(session'[t])
  BY <1>1, <1>3, <1>31, <1>32, OneMoves
<1>34. WorkInv'
  BY <1>3 DEF YardInv, WorkInv
<1>4. CASE Yard!End(s) /\ reg' = reg /\ tree[q.n] = "none"
  <2>1. Yard!Registered' = Yard!Registered /\ \A b : Yard!MaskTargets(b)' = Yard!MaskTargets(b)
    BY <1>3, <1>4 DEF Yard!Registered, Yard!MaskTargets, Yard!Here
  <2>2. \A b, n : Settled(b, n)' = Settled(b, n)
    BY <1>3 DEF Settled
  <2>3. \A b : \A n \in Yard!MaskTargets(b) : ~Owes(q, b, n)
    BY <1>2, <1>4, MainAssumption DEF Owes, Yard!MaskTargets, Yard!Here
  <2>4. MasksInv'
    BY <1>3, <1>31, <2>1, <2>2, <2>3, MasksStay
  <2>5. YardOK'
    BY <1>3, <1>33, <1>4 DEF YardInv, YardOK, Yard!Owners
  <2> QED BY <1>33, <1>34, <2>4, <2>5 DEF YardInv
<1>5. CASE Yard!Step(s, "adopt") /\ reg' = reg \cup {q.n}
  <2>1. GoesTo(s, "adopt")
    <3>1. "adopt" \in CommandPcs
      BY DEF CommandPcs, AddPcs
    <3> QED BY <3>1, <1>5, CommandSteps DEF YardInv
  <2>2. PICK c \in Names : c = q.n
    BY <1>2
  <2>3. /\ \A b, n : Owes(session[s], b, n) => Owes(session[s], b, n)'
        /\ \A b : Owes(session[s], b, c)'
    BY <1>1, <2>1, <2>2 DEF Owes, GoesTo
  <2>4. MasksInv'
    BY <1>3, <1>31, <1>5, <2>2, <2>3, MasksRegistered
  <2>5. YardOK'
    BY <1>2, <1>3, <1>33, <1>5 DEF YardInv, YardOK, Yard!Owners
  <2> QED BY <1>33, <1>34, <2>4, <2>5 DEF YardInv
<1> QED BY <1>4, <1>5 DEF Yard!AddRegister

LEMMA AddSayStep ==
  ASSUME YardInv, NEW s \in Sessions, Yard!AddSay(s)
  PROVE  YardInv'
<1> DEFINE q == session[s]  r == session'[s]
           none == [b \in Yard!Owners |-> {}]
           shown == [b \in Yard!Owners |-> box[b].live]
           recorded == [b \in Yard!Owners |-> box[b].baked]
<1>1. q.pc \in {"say", "sayfresh"} /\ IsCommand(q) /\ WorkSeen(q) /\ DOMAIN session = Sessions
  BY DEF Yard!AddSay, Yard!At, YardInv, YardOK, CommandsOK
<1>2. q.n \in Names
  BY <1>1 DEF WorkSeen, AddPcs
<1>3. UNCHANGED <<tree, reg, work, box, told, items, parked, archived, slot, lost>>
  BY DEF Yard!AddSay, Yard!treeVars, Yard!hostVars, Yard!slotVars, Yard!countVars
<1>4. PICK late :
        /\ session' = [session EXCEPT ![s].pc = "inject", ![s].names = late]
        /\ \/ late = Yard!Late(q.n, none) /\ exempt' = exempt
           \/ late = Yard!Late(q.n, shown) /\ exempt' = exempt
           \/ /\ late = Yard!Late(q.n, recorded)
              /\ exempt' = exempt \cup (Yard!OfName(q.n) \cap UNION {Yard!Believed(b) : b \in Yard!Owners})
  BY DEF Yard!AddSay
<1>5. late \subseteq Yard!Owners
  BY <1>4 DEF Yard!Late, Yard!Registered, Yard!Owners, YardInv, YardOK
<1>6. OnlyMoves(s) /\ IsCommand(r) /\ r.pc = "inject" /\ r.n = q.n /\ r.excused = q.excused
      /\ r.names = late
  BY <1>1, <1>4 DEF OnlyMoves, IsCommand, CommandPcs, AddPcs
<1>7. exempt \subseteq exempt' /\ exempt' \subseteq Yard!Owners \X Yard!Owners
  BY <1>2, <1>4 DEF Yard!OfName, YardInv, YardOK, Yard!Owners
<1>8. ASSUME NEW b \in Yard!Registered, box[b].state = "up", NEW n \in Yard!MaskTargets(b),
             Owes(q, b, n)
      PROVE  Owes(session[s], b, n)' \/ Settled(b, n)'
  <2>1. n = q.n /\ b # n /\ b \in Yard!Owners /\ n \in Yard!Owners
    BY <1>8 DEF Owes, Yard!MaskTargets, Yard!Registered, Yard!Owners, YardInv, YardOK
  <2>2. CASE late = Yard!Late(q.n, none)
    BY <1>6, <1>8, <2>1, <2>2 DEF Yard!Late, Owes
  <2>3. CASE late = Yard!Late(q.n, shown)
    BY <1>3, <1>6, <1>8, <2>1, <2>3 DEF Yard!Late, Owes, Settled
  <2>4. CASE /\ late = Yard!Late(q.n, recorded)
             /\ exempt' = exempt \cup (Yard!OfName(q.n) \cap UNION {Yard!Believed(e) : e \in Yard!Owners})
    <3>1. n \in box[b].baked \/ b \in late
      BY <1>8, <2>1, <2>4 DEF Yard!Late
    <3>2. CASE b \in late
      BY <1>6, <2>1, <3>2 DEF Owes
    <3>3. CASE n \in box[b].live
      BY <1>3, <3>3 DEF Settled
    <3>4. CASE n \in box[b].baked \ box[b].live
      <4>1. <<b, n>> \in Yard!Believed(b) /\ <<b, n>> \in Yard!OfName(q.n)
        BY <2>1, <3>4 DEF Yard!Believed, Yard!OfName
      <4>2. <<b, n>> \in exempt'
        BY <2>1, <2>4, <4>1
      <4> QED BY <4>2 DEF Settled
    <3> QED BY <3>1, <3>2, <3>3, <3>4
  <2> QED BY <1>4, <2>2, <2>3, <2>4
<1>9. MasksInv'
  <2>1. Yard!Registered' = Yard!Registered /\ \A b : Yard!MaskTargets(b)' = Yard!MaskTargets(b)
    BY <1>3 DEF Yard!Registered, Yard!MaskTargets, Yard!Here
  <2>2. \A b, n : Settled(b, n) => Settled(b, n)'
    BY <1>3, <1>7 DEF Settled
  <2> QED BY <1>3, <1>6, <1>7, <1>8, <2>1, <2>2, MasksStay
<1>10. WorkSeen(session[s])' /\ (ByItself(s)' => ByItself(s) /\ AloneSeen(session[s])')
  BY <1>1, <1>2, <1>5, <1>6
     DEF WorkSeen, AloneSeen, AddPcs, RemovePcs, LeftPcs, UpPcs, ByItself, Yard!Owners
<1>11. OneAlone' /\ CommandsOK' /\ DOMAIN session' = Sessions
       /\ \A t \in Sessions : IsCommand(session'[t])
  BY <1>1, <1>3, <1>6, <1>10, OneMoves
<1>12. YardOK' /\ WorkInv'
  BY <1>3, <1>7, <1>11 DEF YardInv, YardOK, WorkInv, Yard!Owners
<1> QED BY <1>9, <1>11, <1>12 DEF YardInv

LEMMA AddInjectStep ==
  ASSUME YardInv, NEW s \in Sessions, Yard!AddInject(s)
  PROVE  YardInv'
<1> DEFINE q == session[s]  r == session'[s]
<1>1. q.pc = "inject" /\ IsCommand(q) /\ WorkSeen(q) /\ (ByItself(s) => AloneSeen(q))
      /\ DOMAIN session = Sessions
  BY AtPc DEF Yard!AddInject
<1>2. q.n \in Names /\ q.names \subseteq Yard!Owners
  BY <1>1 DEF WorkSeen, AddPcs
<1>3. UNCHANGED <<tree, reg, work, items, parked, archived, slot, lost>>
  BY DEF Yard!AddInject, Yard!treeVars, Yard!hostVars, Yard!slotVars, Yard!countVars
<1>4. Yard!Registered' = Yard!Registered /\ \A b : Yard!MaskTargets(b)' = Yard!MaskTargets(b)
  BY <1>3 DEF Yard!Registered, Yard!MaskTargets, Yard!Here
<1>5. CASE /\ q.names = {} /\ Yard!End(s) /\ UNCHANGED <<box, told>>
           /\ exempt' = IF q.excused THEN exempt \cup Yard!OfName(q.n) ELSE exempt
  <2>1. OnlyMoves(s) /\ IsCommand(r) /\ r.pc = "idle"
    BY <1>5, CommandEnds DEF YardInv
  <2>2. WorkSeen(session[s])' /\ ~ByItself(s)'
    BY <2>1 DEF WorkSeen, AddPcs, RemovePcs, LeftPcs, ByItself
  <2>3. exempt \subseteq exempt' /\ exempt' \subseteq Yard!Owners \X Yard!Owners
    BY <1>2, <1>5 DEF Yard!OfName, YardInv, YardOK, Yard!Owners
  <2>4. \A b, n : Settled(b, n) => Settled(b, n)'
    BY <1>5, <2>3 DEF Settled
  <2>5. \A b \in Yard!Owners : \A n : Owes(q, b, n) => Settled(b, n)'
    BY <1>1, <1>5 DEF Owes, Settled, Yard!OfName
  <2>6. Yard!Registered \subseteq Yard!Owners
    BY DEF Yard!Registered, Yard!Owners, YardInv, YardOK
  <2>7. MasksInv'
    BY <1>4, <1>5, <2>1, <2>3, <2>4, <2>5, <2>6, MasksStay
  <2>8. OneAlone' /\ CommandsOK' /\ DOMAIN session' = Sessions
        /\ \A t \in Sessions : IsCommand(session'[t])
    BY <1>1, <1>3, <2>1, <2>2, OneMoves
  <2>9. YardOK' /\ WorkInv'
    BY <1>3, <1>5, <2>3, <2>8 DEF YardInv, YardOK, WorkInv, Yard!Owners
  <2> QED BY <2>7, <2>8, <2>9 DEF YardInv
<1>6. ASSUME NEW c \in q.names,
             session' = [session EXCEPT ![s].names = @ \ {c}], exempt' = exempt,
             \/ box' = Yard!Injected(c, {q.n}) /\ told' = told
             \/ told' = Yard!Told(c, {q.n}) /\ box' = box
      PROVE  YardInv'
  <2>0. c \in Yard!Owners
    BY <1>2
  <2>1. /\ OnlyMoves(s) /\ IsCommand(r) /\ r.pc = "inject" /\ r.n = q.n
        /\ r.excused = q.excused /\ r.names = q.names \ {c}
    BY <1>1, <1>6 DEF OnlyMoves, IsCommand
  <2>2. WorkSeen(session[s])' /\ (ByItself(s)' => ByItself(s) /\ AloneSeen(session[s])')
    BY <1>1, <1>2, <2>1
       DEF WorkSeen, AloneSeen, AddPcs, RemovePcs, LeftPcs, UpPcs, ByItself, Yard!Owners
  <2>3. q.n \in Yard!Owners
    BY <1>2 DEF Yard!Owners
  <2>4. /\ box' \in [Yard!Owners -> BoxTypes]
        /\ \A b \in Yard!Owners : box'[b].state = box[b].state /\ box[b].live \subseteq box'[b].live
        /\ told \subseteq told' /\ told' \subseteq Yard!Owners \X Yard!Owners
        /\ Settled(c, q.n)'
    <3>1. box \in [Yard!Owners -> BoxTypes] /\ told \subseteq Yard!Owners \X Yard!Owners
      BY DEF YardInv, YardOK
    <3>0. PICK n \in Yard!Owners : n = q.n
      BY <2>3
    <3>2. CASE box' = Yard!Injected(c, {q.n}) /\ told' = told
      <4>1. box' = [box EXCEPT ![c].live = @ \cup {n}]
        BY <3>0, <3>2 DEF Yard!Injected
      <4>2. box' \in [Yard!Owners -> BoxTypes]
        BY <2>0, <3>1, <4>1 DEF BoxTypes
      <4>3. ASSUME NEW b \in Yard!Owners
            PROVE  box'[b].state = box[b].state /\ box[b].live \subseteq box'[b].live
        <5>1. box[b] \in BoxTypes
          BY <3>1
        <5> QED BY <3>1, <4>1, <5>1 DEF BoxTypes
      <4>4. n \in box'[c].live
        <5>1. box[c] \in BoxTypes
          BY <2>0, <3>1
        <5> QED BY <2>0, <3>1, <4>1, <5>1 DEF BoxTypes
      <4> QED BY <2>1, <3>0, <3>1, <3>2, <4>2, <4>3, <4>4 DEF Settled
    <3>3. CASE told' = Yard!Told(c, {q.n}) /\ box' = box
      <4>1. told' = told \cup {<<c, n>>}
        BY <3>0, <3>3 DEF Yard!Told
      <4>2. <<c, n>> \in Yard!Owners \X Yard!Owners
        BY <2>0
      <4>3. told \subseteq told' /\ told' \subseteq Yard!Owners \X Yard!Owners
        BY <3>1, <4>1, <4>2
      <4>4. Settled(c, q.n)'
        BY <2>1, <3>0, <4>1 DEF Settled
      <4> QED BY <3>1, <3>3, <4>3, <4>4
    <3> QED BY <1>6, <3>2, <3>3
  <2>5. \A b \in Yard!Owners : \A n : Settled(b, n) => Settled(b, n)'
    BY <1>6, <2>4 DEF Settled
  <2>6. \A b, n : Owes(q, b, n) => Owes(session[s], b, n)' \/ Settled(b, n)'
    BY <1>1, <2>1, <2>4 DEF Owes
  <2>7. Yard!Registered \subseteq Yard!Owners
    BY DEF Yard!Registered, Yard!Owners, YardInv, YardOK
  <2>8. MasksInv'
    BY <1>4, <1>6, <2>1, <2>4, <2>5, <2>6, <2>7, MasksStay
  <2>9. OneAlone' /\ CommandsOK' /\ DOMAIN session' = Sessions
        /\ \A t \in Sessions : IsCommand(session'[t])
    BY <1>1, <1>3, <2>1, <2>2, OneMoves
  <2>10. YardOK' /\ WorkInv'
    BY <1>3, <1>6, <2>4, <2>9 DEF YardInv, YardOK, WorkInv, Yard!Owners, BoxTypes
  <2> QED BY <2>8, <2>9, <2>10 DEF YardInv
<1> QED BY <1>5, <1>6 DEF Yard!AddInject

LEMMA RemLocalStep ==
  ASSUME YardInv, NEW s \in Sessions, Yard!RemLocal(s)
  PROVE  YardInv'
<1> DEFINE q == session[s]  r == session'[s]
<1>1. q.pc \in {"local", "leftlocal"} /\ IsCommand(q) /\ WorkSeen(q)
      /\ (ByItself(s) => AloneSeen(q))
  BY DEF Yard!RemLocal, Yard!At, YardInv, YardOK, CommandsOK
<1>2. q.n \in Names /\ \A b, n : ~Owes(q, b, n)
  BY <1>1 DEF WorkSeen, RemovePcs, LeftPcs, Owes
<1>3. UNCHANGED <<tree, work, box, told, items, parked, archived, slot, lost>>
  BY DEF Yard!RemLocal, Yard!treeVars, Yard!slotVars, Yard!countVars
<1>4. /\ OnlyMoves(s) /\ IsCommand(r)
      /\ \/ r.pc = "idle"
         \/ q.pc = "local" /\ GoesTo(s, "slot")
         \/ q.pc = "leftlocal" /\ GoesTo(s, "leftsync")
         \/ q.pc = "leftlocal" /\ GoesTo(s, "leftvols")
  <2>1. \/ Yard!End(s)
        \/ q.pc = "local" /\ Yard!Step(s, "slot")
        \/ q.pc = "leftlocal" /\ Yard!Step(s, "leftsync")
        \/ q.pc = "leftlocal" /\ Yard!Step(s, "leftvols")
    BY <1>1 DEF Yard!RemLocal, Yard!At
  <2>2. "slot" \in CommandPcs /\ "leftsync" \in CommandPcs /\ "leftvols" \in CommandPcs
    BY DEF CommandPcs, RemovePcs, LeftPcs
  <2>3. CASE Yard!End(s)
    BY <2>3, CommandEnds DEF YardInv
  <2>4. CASE q.pc = "local" /\ Yard!Step(s, "slot")
    BY <2>2, <2>4, CommandSteps DEF YardInv, GoesTo
  <2>5. CASE q.pc = "leftlocal" /\ Yard!Step(s, "leftsync")
    BY <2>2, <2>5, CommandSteps DEF YardInv, GoesTo
  <2>6. CASE q.pc = "leftlocal" /\ Yard!Step(s, "leftvols")
    BY <2>2, <2>6, CommandSteps DEF YardInv, GoesTo
  <2> QED BY <2>1, <2>3, <2>4, <2>5, <2>6
<1>5. WorkSeen(session[s])' /\ (ByItself(s)' => ByItself(s) /\ AloneSeen(session[s])')
  BY <1>1, <1>3, <1>4 DEF GoesTo, WorkSeen, AloneSeen, AddPcs, RemovePcs, LeftPcs, UpPcs, ByItself
<1>6. OneAlone' /\ CommandsOK' /\ DOMAIN session' = Sessions
      /\ \A t \in Sessions : IsCommand(session'[t])
  BY <1>1, <1>3, <1>4, <1>5, OneMoves
<1>7. /\ exempt \subseteq exempt' /\ exempt' \subseteq Yard!Owners \X Yard!Owners
      /\ box[q.n].state = "up" => \A n \in Yard!Owners : <<q.n, n>> \in exempt'
  BY <1>2 DEF Yard!RemLocal, Yard!OfBox, YardInv, YardOK, Yard!Owners
<1>8. MasksInv'
  <2>1. Yard!Registered' \subseteq Yard!Registered /\ Yard!Registered \ Yard!Registered' \subseteq {q.n}
    BY DEF Yard!RemLocal, Yard!Registered
  <2>2. \A b : Yard!MaskTargets(b)' \subseteq Yard!MaskTargets(b)
    BY <1>3, <2>1 DEF Yard!MaskTargets, Yard!Here
  <2>3. \A b, n : Settled(b, n) => Settled(b, n)'
    BY <1>3, <1>7 DEF Settled
  <2>4. ASSUME NEW b \in Yard!Owners \ Yard!Registered', box'[b].state = "up"
        PROVE  \A n \in Yard!Owners : <<b, n>> \in exempt'
    <3>1. CASE b = q.n
      BY <1>3, <1>7, <2>4, <3>1
    <3>2. CASE b # q.n
      BY <1>3, <1>7, <2>1, <2>4, <3>2 DEF YardInv, MasksInv
    <3> QED BY <3>1, <3>2
  <2> QED BY <1>2, <1>3, <1>4, <2>1, <2>2, <2>3, <2>4, MasksGo
<1>9. YardOK' /\ WorkInv'
  <2>1. reg' \subseteq Names
    BY DEF Yard!RemLocal, YardInv, YardOK
  <2> QED BY <1>3, <1>6, <1>7, <2>1 DEF YardInv, YardOK, WorkInv, Yard!Owners
<1> QED BY <1>6, <1>8, <1>9 DEF YardInv

-----------------------------------------------------------------------------
(* The start of a command: it is alone, or no one is.                      *)
LEMMA CommandStarts ==
  ASSUME YardInv, NEW s \in Sessions, NEW p \in CommandPcs, NEW n \in Yard!Owners, NEW init,
         IsCommand(init), p # "idle", Yard!Start(s, p, n, init)
  PROVE  /\ session[s].pc = "idle" /\ DOMAIN session' = Sessions
         /\ \A t \in Sessions : IsCommand(session'[t])
         /\ session'[s] = [init EXCEPT !.pc = p, !.n = n, !.excused = Yard!Busy # {}]
         /\ OneAlone'
         /\ \A t \in Sessions : t # s =>
              /\ ~ByItself(t)' /\ session'[t].n = session[t].n /\ session'[t].pc = session[t].pc
              /\ session'[t].names = session[t].names /\ session'[t].asof = session[t].asof
              /\ session'[t].discard = session[t].discard
              /\ session'[t].orphaned = session[t].orphaned
              /\ session[t].excused => session'[t].excused
<1> DEFINE new == [init EXCEPT !.pc = p, !.n = n, !.excused = Yard!Busy # {}]
<1>1. /\ session[s].pc = "idle"
      /\ session' = [t \in Sessions |->
           IF t = s THEN new
           ELSE IF t \in Yard!Busy THEN [session[t] EXCEPT !.excused = TRUE] ELSE session[t]]
  BY DEF Yard!Start, Yard!At
<1>2. IsCommand(new) /\ new.pc = p /\ new.excused = (Yard!Busy # {})
  BY DEF IsCommand
<1> HIDE DEF new
<1>3. session'[s] = new
  BY <1>1
<1>4. ASSUME NEW t \in Sessions, t # s
      PROVE  /\ IsCommand(session'[t])
             /\ ~ByItself(t)' /\ session'[t].n = session[t].n /\ session'[t].pc = session[t].pc
             /\ session'[t].names = session[t].names /\ session'[t].asof = session[t].asof
             /\ session'[t].discard = session[t].discard
             /\ session'[t].orphaned = session[t].orphaned
             /\ session[t].excused => session'[t].excused
  <2>1. IsCommand(session[t])
    BY DEF YardInv, YardOK
  <2>2. CASE t \in Yard!Busy
    <3>1. session'[t] = [session[t] EXCEPT !.excused = TRUE]
      BY <1>1, <1>4, <2>2
    <3> QED BY <3>1, <2>1 DEF IsCommand, ByItself
  <2>3. CASE t \notin Yard!Busy
    <3>1. session'[t] = session[t] /\ session[t].pc = "idle"
      BY <1>1, <1>4, <2>3 DEF Yard!Busy, Yard!At
    <3> QED BY <3>1, <2>1 DEF ByItself
  <2> QED BY <2>2, <2>3
<1>5. OneAlone'
  <2> SUFFICES ASSUME NEW t \in Sessions, NEW u \in Sessions, ByItself(t)', u # t
               PROVE  session'[u].pc = "idle"
    BY DEF OneAlone
  <2>1. t = s
    BY <1>4
  <2>2. Yard!Busy = {}
    BY <1>2, <1>3, <2>1 DEF ByItself
  <2>3. session[u].pc = "idle"
    BY <2>2 DEF Yard!Busy, Yard!At
  <2> QED BY <1>4, <2>1, <2>3
<1> QED BY <1>1, <1>2, <1>3, <1>4, <1>5 DEF new

LEMMA StartedFields ==
  ASSUME YardInv, NEW s \in Sessions, NEW p \in CommandPcs, NEW n \in Yard!Owners, NEW init,
         IsCommand(init), Yard!Start(s, p, n, init)
  PROVE  /\ session'[s].pc = p /\ session'[s].n = n
         /\ session'[s].unsynced = init.unsynced
BY DEF Yard!Start, IsCommand

LEMMA OthersStill ==
  ASSUME YardInv, NEW t \in Sessions,
         session'[t].n = session[t].n, session'[t].pc = session[t].pc,
         session'[t].names = session[t].names, session'[t].asof = session[t].asof,
         session'[t].discard = session[t].discard,
         session'[t].orphaned = session[t].orphaned,
         UNCHANGED <<work, items, parked>>
  PROVE  WorkSeen(session[t])'
<1>1. WorkSeen(session[t])
  BY DEF YardInv, CommandsOK
<1>2. Yard!Owners' = Yard!Owners
  BY DEF Yard!Owners
<1> QED BY <1>1, <1>2 DEF WorkSeen

LEMMA StartAside ==
  ASSUME YardInv, NEW s \in Sessions, NEW p \in CommandPcs, NEW n \in Yard!Owners, NEW init,
         IsCommand(init), p # "idle", Yard!Start(s, p, n, init),
         UNCHANGED MaskVars, UNCHANGED <<work, items, parked, archived, slot, lost>>,
         WorkSeen(session[s])', ByItself(s)' => AloneSeen(session[s])'
  PROVE  YardInv'
<1>1. /\ session[s].pc = "idle" /\ DOMAIN session' = Sessions
      /\ \A t \in Sessions : IsCommand(session'[t])
      /\ OneAlone'
      /\ \A t \in Sessions : t # s =>
              /\ ~ByItself(t)' /\ session'[t].n = session[t].n /\ session'[t].pc = session[t].pc
              /\ session'[t].names = session[t].names /\ session'[t].asof = session[t].asof
              /\ session'[t].discard = session[t].discard
              /\ session'[t].orphaned = session[t].orphaned
              /\ session[t].excused => session'[t].excused
  BY CommandStarts
<1>2. CommandsOK'
  <2>1. \A t \in Sessions : t # s => WorkSeen(session[t])' /\ ~ByItself(t)'
    BY <1>1, OthersStill
  <2> QED BY <2>1 DEF CommandsOK
<1>3. MasksInv'
  <2>1. Yard!Registered' = Yard!Registered /\ \A b : Yard!MaskTargets(b)' = Yard!MaskTargets(b)
    BY DEF MaskVars, Yard!Registered, Yard!MaskTargets, Yard!Here
  <2>2. \A b, m : Settled(b, m)' = Settled(b, m)
    BY DEF MaskVars, Settled
  <2>3. \A t \in Sessions : \A b, m : Owes(session[t], b, m) => Owes(session[t], b, m)'
    BY <1>1 DEF Owes
  <2>4. box' = box /\ exempt' = exempt /\ Yard!Owners' = Yard!Owners
    BY DEF MaskVars, Yard!Owners
  <2> QED BY <2>1, <2>2, <2>3, <2>4 DEF MasksInv, YardInv
<1>4. YardOK' /\ WorkInv'
  BY <1>1 DEF YardInv, YardOK, WorkInv, MaskVars, Yard!Owners
<1> QED BY <1>1, <1>2, <1>3, <1>4 DEF YardInv

LEMMA IdleIsCommand == IsCommand(Yard!Idle)
BY DEF IsCommand, Yard!Idle, CommandPcs, Yard!Owners

LEMMA UpStartStep ==
  ASSUME YardInv, NEW s \in Sessions, NEW b \in Yard!Owners, Yard!UpStart(s, b)
  PROVE  YardInv'
<1>1. PICK p \in CommandPcs : p = "up"
  BY DEF CommandPcs, UpPcs
<1>2. PICK init : init = Yard!Idle
  OBVIOUS
<1>3. IsCommand(init) /\ p # "idle" /\ Yard!Start(s, p, b, init) /\ b \in Yard!Registered
  BY <1>1, <1>2, IdleIsCommand DEF Yard!UpStart
<1>4. UNCHANGED MaskVars /\ UNCHANGED <<work, items, parked, archived, slot, lost>>
  BY DEF Yard!UpStart, MaskVars, Yard!treeVars, Yard!hostVars, Yard!slotVars, Yard!boxVars
<1>5. session'[s].pc = p /\ session'[s].n = b /\ session'[s].unsynced = init.unsynced
  BY <1>3, StartedFields
<1>6. session'[s].pc = "up" /\ session'[s].n = b
  BY <1>1, <1>5
<1>7. Yard!Registered' = Yard!Registered
  BY <1>4 DEF MaskVars, Yard!Registered
<1>8. WorkSeen(session[s])' /\ AloneSeen(session[s])'
  BY <1>3, <1>6, <1>7 DEF WorkSeen, AloneSeen, AddPcs, RemovePcs, LeftPcs
<1> QED BY <1>3, <1>4, <1>8, StartAside

LEMMA DownStartStep ==
  ASSUME YardInv, NEW s \in Sessions, NEW b \in Yard!Owners, Yard!DownStart(s, b)
  PROVE  YardInv'
<1>1. PICK p \in CommandPcs : p = "down"
  BY DEF CommandPcs
<1>2. PICK init : init = Yard!Idle
  OBVIOUS
<1>3. IsCommand(init) /\ p # "idle" /\ Yard!Start(s, p, b, init)
  BY <1>1, <1>2, IdleIsCommand DEF Yard!DownStart
<1>4. UNCHANGED MaskVars /\ UNCHANGED <<work, items, parked, archived, slot, lost>>
  BY DEF Yard!DownStart, MaskVars, Yard!treeVars, Yard!hostVars, Yard!slotVars, Yard!boxVars
<1>5. session'[s].pc = p /\ session'[s].n = b /\ session'[s].unsynced = init.unsynced
  BY <1>3, StartedFields
<1>6. session'[s].pc = "down"
  BY <1>1, <1>5
<1>8. WorkSeen(session[s])' /\ AloneSeen(session[s])'
  BY <1>6 DEF WorkSeen, AloneSeen, AddPcs, RemovePcs, LeftPcs, UpPcs
<1> QED BY <1>3, <1>4, <1>8, StartAside

LEMMA AddNewStep ==
  ASSUME YardInv, NEW s \in Sessions, NEW c \in Names, Yard!AddNew(s, c)
  PROVE  YardInv'
<1>1. PICK p \in CommandPcs : p = "git"
  BY DEF CommandPcs, AddPcs
<1>2. PICK init : init = Yard!Idle
  OBVIOUS
<1>3. IsCommand(init) /\ p # "idle" /\ Yard!Start(s, p, c, init) /\ c \in Yard!Owners
  BY <1>1, <1>2, IdleIsCommand DEF Yard!AddNew, Yard!Owners
<1>4. UNCHANGED MaskVars /\ UNCHANGED <<work, items, parked, archived, slot, lost>>
  BY DEF Yard!AddNew, MaskVars, Yard!treeVars, Yard!slotVars, Yard!boxVars
<1>5. session'[s].pc = p /\ session'[s].n = c /\ session'[s].unsynced = init.unsynced
  BY <1>3, StartedFields
<1>6. session'[s].pc = "git" /\ session'[s].n = c
  BY <1>1, <1>5
<1>8. WorkSeen(session[s])' /\ AloneSeen(session[s])'
  BY <1>6 DEF WorkSeen, AloneSeen, AddPcs, RemovePcs, LeftPcs, UpPcs
<1> QED BY <1>3, <1>4, <1>8, StartAside

LEMMA RemStartStep ==
  ASSUME YardInv, NEW s \in Sessions, NEW c \in Names,
         NEW force \in BOOLEAN, NEW discard \in BOOLEAN, Yard!RemStart(s, c, force, discard)
  PROVE  YardInv'
<1>1. PICK p \in CommandPcs : p = "remdown"
  BY DEF CommandPcs, RemovePcs
<1>2. PICK init : init = [Yard!Idle EXCEPT !.force = force, !.discard = discard,
                                           !.orphaned = tree[c] = "orphan"]
  OBVIOUS
<1>20. PICK i : i = Yard!Idle
  OBVIOUS
<1>21. IsCommand(init)
  <2>1. IsCommand(i) /\ init = [i EXCEPT !.force = force, !.discard = discard,
                                         !.orphaned = tree[c] = "orphan"]
    BY <1>2, <1>20, IdleIsCommand
  <2> QED BY <2>1 DEF IsCommand
<1>3. p # "idle" /\ Yard!Start(s, p, c, init) /\ c \in Yard!Owners
  BY <1>1, <1>2 DEF Yard!RemStart, Yard!Owners
<1>4. UNCHANGED MaskVars /\ UNCHANGED <<work, items, parked, archived, slot, lost>>
  BY DEF Yard!RemStart, MaskVars, Yard!treeVars, Yard!hostVars, Yard!slotVars, Yard!boxVars
<1>5. session'[s].pc = p /\ session'[s].n = c /\ session'[s].unsynced = init.unsynced
  BY <1>21, <1>3, StartedFields
<1>6. session'[s].pc = "remdown" /\ session'[s].n = c
  BY <1>1, <1>5
<1>8. WorkSeen(session[s])' /\ AloneSeen(session[s])'
  BY <1>6 DEF WorkSeen, AloneSeen, AddPcs, RemovePcs, LeftPcs, UpPcs
<1> QED BY <1>21, <1>3, <1>4, <1>8, StartAside

LEMMA RemLeftoversStep ==
  ASSUME YardInv, NEW s \in Sessions, NEW c \in Names, NEW force \in BOOLEAN,
         Yard!RemLeftovers(s, c, force)
  PROVE  YardInv'
<1>1. PICK p : p = IF c \in reg \cup localstate THEN "leftlocal"
                   ELSE IF slot[c] # {} THEN "leftsync" ELSE "leftvols"
  OBVIOUS
<1>11. p \in CommandPcs /\ p # "idle" /\ p \in LeftPcs /\ p # "leftslot"
  BY <1>1 DEF CommandPcs, LeftPcs
<1>2. PICK init : init = [Yard!Idle EXCEPT !.force = force, !.unsynced = box[c].state = "up"]
  OBVIOUS
<1>20. PICK i : i = Yard!Idle
  OBVIOUS
<1>21. IsCommand(init) /\ init.unsynced = (box[c].state = "up")
  <2>1. IsCommand(i) /\ init = [i EXCEPT !.force = force, !.unsynced = box[c].state = "up"]
    BY <1>2, <1>20, IdleIsCommand
  <2> QED BY <2>1 DEF IsCommand
<1>3. Yard!Start(s, p, c, init) /\ c \in Yard!Owners
  BY <1>1, <1>2 DEF Yard!RemLeftovers, Yard!Owners
<1>4. UNCHANGED MaskVars /\ UNCHANGED <<work, items, parked, archived, slot, lost>>
  BY DEF Yard!RemLeftovers, MaskVars, Yard!treeVars, Yard!hostVars, Yard!slotVars, Yard!boxVars
<1>5. session'[s].pc = p /\ session'[s].n = c /\ session'[s].unsynced = init.unsynced
  BY <1>11, <1>21, <1>3, StartedFields
<1>6. /\ session'[s].pc = p /\ session'[s].n = c
      /\ session'[s].unsynced = (box[c].state = "up")
  BY <1>21, <1>5
<1>7. box' = box
  BY <1>4 DEF MaskVars
<1>8. WorkSeen(session[s])' /\ AloneSeen(session[s])'
  BY <1>11, <1>6, <1>7 DEF WorkSeen, AloneSeen, AddPcs, RemovePcs, LeftPcs, UpPcs
<1> QED BY <1>11, <1>21, <1>3, <1>4, <1>8, StartAside

LEMMA AddExistingStep ==
  ASSUME YardInv, NEW s \in Sessions, NEW c \in Names, Yard!AddExisting(s, c)
  PROVE  YardInv'
<1>1. PICK p \in CommandPcs : p = "say"
  BY DEF CommandPcs, AddPcs
<1>2. PICK init : init = Yard!Idle
  OBVIOUS
<1>3. IsCommand(init) /\ p # "idle" /\ Yard!Start(s, p, c, init) /\ c \in Yard!Owners
  BY <1>1, <1>2, IdleIsCommand DEF Yard!AddExisting, Yard!Owners
<1>4. /\ UNCHANGED <<tree, box, told, exempt, work, items, parked, archived, slot, lost>>
      /\ reg' = reg \cup {c}
  BY DEF Yard!AddExisting, Yard!treeVars, Yard!slotVars, Yard!boxVars
<1>5. /\ session[s].pc = "idle" /\ DOMAIN session' = Sessions
      /\ \A t \in Sessions : IsCommand(session'[t])
      /\ session'[s] = [init EXCEPT !.pc = p, !.n = c, !.excused = Yard!Busy # {}]
      /\ OneAlone'
      /\ \A t \in Sessions : t # s =>
              /\ ~ByItself(t)' /\ session'[t].n = session[t].n /\ session'[t].pc = session[t].pc
              /\ session'[t].names = session[t].names /\ session'[t].asof = session[t].asof
              /\ session'[t].discard = session[t].discard
              /\ session'[t].orphaned = session[t].orphaned
              /\ session[t].excused => session'[t].excused
  BY <1>3, CommandStarts
<1>6. session'[s].pc = "say" /\ session'[s].n = c
  BY <1>1, <1>3, <1>5 DEF IsCommand
<1>7. WorkSeen(session[s])' /\ AloneSeen(session[s])'
  BY <1>6 DEF WorkSeen, AloneSeen, AddPcs, RemovePcs, LeftPcs, UpPcs
<1>8. CommandsOK'
  <2>1. \A t \in Sessions : t # s => WorkSeen(session[t])' /\ ~ByItself(t)'
    BY <1>4, <1>5, OthersStill
  <2> QED BY <1>7, <2>1 DEF CommandsOK
<1>9. MasksInv'
  <2>1. Yard!Registered' = Yard!Registered \cup {c} /\ Yard!Registered' \subseteq Yard!Owners
        /\ Yard!Owners' = Yard!Owners
    BY <1>4 DEF Yard!Registered, Yard!Owners, YardInv, YardOK
  <2>2. \A b : Yard!MaskTargets(b)' \subseteq Yard!MaskTargets(b) \cup {c}
    BY <1>4, <2>1 DEF Yard!MaskTargets, Yard!Here
  <2>3. \A b, n : Settled(b, n)' = Settled(b, n)
    BY <1>4 DEF Settled
  <2>4. \A t \in Sessions : \A b, n : Owes(session[t], b, n) => Owes(session[t], b, n)'
    BY <1>5 DEF Owes
  <2>5. \A b : Owes(session[s], b, c)'
    BY <1>6 DEF Owes
  <2>6. ASSUME NEW b \in Yard!Registered', box'[b].state = "up", NEW n \in Yard!MaskTargets(b)'
        PROVE  Settled(b, n)' \/ \E t \in Sessions : Owes(session[t], b, n)'
    <3>1. b \in Yard!Owners /\ n \in Yard!Owners
      BY <2>1 DEF Yard!MaskTargets
    <3>2. CASE b \notin Yard!Registered
      BY <1>4, <2>3, <2>6, <3>1, <3>2 DEF YardInv, MasksInv, Settled
    <3>3. CASE n = c
      BY <2>5, <3>3
    <3>4. CASE b \in Yard!Registered /\ n # c
      <4>1. n \in Yard!MaskTargets(b) /\ box[b].state = "up"
        BY <1>4, <2>2, <2>6, <3>4
      <4>2. Settled(b, n) \/ \E t \in Sessions : Owes(session[t], b, n)
        BY <3>4, <4>1 DEF YardInv, MasksInv
      <4> QED BY <2>3, <2>4, <4>2
    <3> QED BY <3>2, <3>3, <3>4
  <2>7. \A b \in Yard!Owners \ Yard!Registered' :
          box'[b].state = "up" => \A n \in Yard!Owners : <<b, n>> \in exempt'
    BY <1>4, <2>1 DEF YardInv, MasksInv
  <2> QED BY <2>1, <2>6, <2>7 DEF MasksInv
<1>10. YardOK' /\ WorkInv'
  BY <1>4, <1>5 DEF YardInv, YardOK, WorkInv, Yard!Owners
<1> QED BY <1>5, <1>8, <1>9, <1>10 DEF YardInv

-----------------------------------------------------------------------------
(* What happens around the commands.                                       *)
LEMMA AroundAside ==
  ASSUME YardInv, UNCHANGED <<session, reg, parked>>,
         YardOK', WorkInv', MasksInv',
         items' >= items,
         \A n \in Names : \A i \in work'[n] : i \in work[n] \/ (i \in Nat /\ i > items),
         \A s \in Sessions : ByItself(s) => AloneSeen(session[s])'
  PROVE  YardInv'
<1>1. OneAlone'
  BY DEF YardInv, OneAlone, ByItself
<1>2. ASSUME NEW s \in Sessions PROVE WorkSeen(session[s])'
  <2> PICK q : q = session[s]
    OBVIOUS
  <2>1. session'[s] = q
    OBVIOUS
  <2>2. IsCommand(q) /\ WorkSeen(q)
    BY DEF YardInv, YardOK, CommandsOK
  <2>3. q.pc \in {"park", "gitrm"} => q.n \in Names
    BY <2>2 DEF WorkSeen, RemovePcs
  <2>4. items \in Nat /\ items' \in Nat /\ YardOK
    BY DEF YardInv, YardOK
  <2>5. WorkSeen(q)'
    BY <2>2, <2>3, <2>4, OthersKnow
  <2> QED BY <2>1, <2>5
<1>3. CommandsOK'
  BY <1>2 DEF CommandsOK, ByItself
<1> QED BY <1>1, <1>3 DEF YardInv

LEMMA MasksAround ==
  ASSUME YardInv, UNCHANGED <<session, reg, told>>, exempt \subseteq exempt',
         \A n \in Names : (tree'[n] # "none") = (tree[n] # "none"),
         \A b \in Yard!Owners : box'[b].state = "up" =>
           /\ box[b].state = "up"
           /\ box'[b].live = box[b].live \/ \A n \in Yard!Owners : <<b, n>> \in exempt'
  PROVE  MasksInv'
<1>1. /\ Yard!Registered' = Yard!Registered /\ Yard!Registered \subseteq Yard!Owners
      /\ Yard!Owners' = Yard!Owners
  BY DEF Yard!Registered, Yard!Owners, YardInv, YardOK
<1>2. \A b : Yard!MaskTargets(b)' = Yard!MaskTargets(b)
  <2>1. \A n \in Yard!Registered : Yard!Here(n)' = Yard!Here(n)
    BY DEF Yard!Here, Yard!Registered, YardInv, YardOK
  <2> QED BY <1>1, <2>1 DEF Yard!MaskTargets
<1>3. ASSUME NEW b \in Yard!Registered, box'[b].state = "up", NEW n \in Yard!MaskTargets(b)
      PROVE  Settled(b, n)' \/ \E t \in Sessions : Owes(session[t], b, n)'
  <2>1. b \in Yard!Owners /\ n \in Yard!Owners
    BY <1>1 DEF Yard!MaskTargets
  <2>2. Settled(b, n) \/ \E t \in Sessions : Owes(session[t], b, n)
    BY <1>3, <2>1 DEF YardInv, MasksInv
  <2>3. Settled(b, n) => Settled(b, n)'
    BY <1>3, <2>1 DEF Settled
  <2>4. \A t \in Sessions : Owes(session[t], b, n) => Owes(session[t], b, n)'
    BY DEF Owes
  <2> QED BY <2>2, <2>3, <2>4
<1>4. \A b \in Yard!Owners \ Yard!Registered :
        box'[b].state = "up" => \A n \in Yard!Owners : <<b, n>> \in exempt'
  BY DEF YardInv, MasksInv
<1> QED BY <1>1, <1>2, <1>3, <1>4 DEF MasksInv

LEMMA BoxStopsStep ==
  ASSUME YardInv, NEW c \in Yard!Owners, Yard!BoxStops(c) \/ Yard!BoxRestarts(c)
  PROVE  YardInv'
<1>1. UNCHANGED <<session, tree, work, reg, told, items, parked, archived, slot, lost>>
  BY DEF Yard!BoxStops, Yard!BoxRestarts, Yard!treeVars, Yard!hostVars, Yard!slotVars,
         Yard!countVars
<1>2. /\ box' \in [Yard!Owners -> BoxTypes]
      /\ \A b \in Yard!Owners : b # c => box'[b] = box[b]
      /\ \/ box'[c].state = "stopped"
         \/ box[c].state = "up" /\ \A n \in Yard!Owners : <<c, n>> \in exempt'
  <2>1. box \in [Yard!Owners -> BoxTypes] /\ box[c] \in BoxTypes
    BY BoxFields DEF YardInv, YardOK
  <2>2. CASE Yard!BoxStops(c)
    <3>1. box' = [box EXCEPT ![c].state = "stopped"]
      BY <2>2 DEF Yard!BoxStops
    <3> QED BY <2>1, <3>1 DEF BoxTypes
  <2>3. CASE Yard!BoxRestarts(c)
    <3>1. box' = [box EXCEPT ![c].live = box[c].baked] /\ box[c].state = "up"
      BY <2>3 DEF Yard!BoxRestarts
    <3>2. \A n \in Yard!Owners : <<c, n>> \in exempt'
      BY <2>3 DEF Yard!BoxRestarts, Yard!OfBox
    <3> QED BY <2>1, <3>1, <3>2 DEF BoxTypes
  <2> QED BY <2>2, <2>3
<1>3. exempt \subseteq exempt' /\ exempt' \subseteq Yard!Owners \X Yard!Owners
  BY DEF Yard!BoxStops, Yard!BoxRestarts, Yard!OfBox, YardInv, YardOK
<1>4. \A b \in Yard!Owners : box'[b].state = "up" =>
        /\ box[b].state = "up"
        /\ box'[b].live = box[b].live \/ \A n \in Yard!Owners : <<b, n>> \in exempt'
  BY <1>2
<1>5. MasksInv'
  BY <1>1, <1>3, <1>4, MasksAround
<1>6. YardOK' /\ WorkInv'
  BY <1>1, <1>2, <1>3 DEF YardInv, YardOK, WorkInv, Yard!Owners, BoxTypes
<1>7. ASSUME NEW s \in Sessions, ByItself(s) PROVE AloneSeen(session[s])'
  <2>1. AloneSeen(session[s]) /\ session[s].n \in Yard!Owners
    BY <1>7 DEF YardInv, CommandsOK, YardOK, IsCommand
  <2>2. Yard!Registered' = Yard!Registered /\ \A b : Yard!MaskTargets(b)' = Yard!MaskTargets(b)
    BY <1>1 DEF Yard!Registered, Yard!MaskTargets, Yard!Here
  <2> QED BY <1>1, <1>4, <2>1, <2>2 DEF AloneSeen
<1>8. /\ items' >= items /\ \A n \in Names : \A i \in work'[n] : i \in work[n] \/ (i \in Nat /\ i > items)
  BY <1>1 DEF YardInv, YardOK
<1> QED BY <1>1, <1>5, <1>6, <1>7, <1>8, AroundAside

(* Whatever leaves the boxes and the checkouts where they are.             *)
LEMMA YardWorldStep ==
  ASSUME YardInv, UNCHANGED <<session, reg, box, told, exempt, parked, lost>>,
         tree' \in [Names -> YardTypes],
         \A n \in Names : /\ (tree'[n] = "none") = (tree[n] = "none")
                          /\ (tree'[n] = "unfilled") = (tree[n] = "unfilled"),
         work' \in [Names -> SUBSET Nat], slot' \in [Names -> SUBSET Nat],
         archived' \subseteq Nat, archived \subseteq archived', items' \in Nat, items' >= items,
         \A n \in Names : tree[n] \in {"none", "unfilled"} => work'[n] \subseteq work[n],
         \A n \in Names : \A i \in work'[n] : i \in work[n] \/ i > items,
         \A n \in Names : slot'[n] = slot[n] \/ box[n].state = "up"
  PROVE  YardInv'
<1>1. MasksInv'
  BY MasksAround
<1>2. YardOK' /\ WorkInv'
  BY DEF YardInv, YardOK, WorkInv, Yard!Owners
<1>3. ASSUME NEW s \in Sessions, ByItself(s) PROVE AloneSeen(session[s])'
  <2>1. /\ AloneSeen(session[s]) /\ WorkSeen(session[s]) /\ session'[s] = session[s]
        /\ box' = box
    BY <1>3 DEF YardInv, CommandsOK
  <2>2. Yard!Registered' = Yard!Registered
    BY DEF Yard!Registered
  <2>3. \A b : Yard!MaskTargets(b)' = Yard!MaskTargets(b)
    BY <2>2 DEF Yard!MaskTargets, Yard!Here, Yard!Registered, YardInv, YardOK
  <2>4. session[s].pc = "checkout" => tree'[session[s].n] = "unfilled"
    BY <2>1 DEF WorkSeen, AloneSeen, AddPcs
  <2>5. ASSUME session[s].pc \in {"check", "park", "gitrm", "local", "slot", "leftslot"},
               ~session[s].unsynced
        PROVE  slot'[session[s].n] \subseteq archived'
    <3>1. session[s].n \in Names
      BY <2>1, <2>5 DEF WorkSeen, RemovePcs, LeftPcs
    <3>2. box[session[s].n].state # "up" /\ slot[session[s].n] \subseteq archived
      BY <2>1, <2>5 DEF AloneSeen, RemovePcs, LeftPcs
    <3> QED BY <3>1, <3>2
  <2> QED BY <2>1, <2>2, <2>3, <2>4, <2>5 DEF AloneSeen
<1>4. \A n \in Names : \A i \in work'[n] : i \in work[n] \/ (i \in Nat /\ i > items)
  OBVIOUS
<1> QED BY <1>1, <1>2, <1>3, <1>4, AroundAside

LEMMA YardAroundStep ==
  ASSUME YardInv, NEW n \in Names,
         \/ Yard!Sweep(n) \/ Yard!WriteWork(n) \/ Yard!Commit(n) \/ Yard!Speak(n)
         \/ Yard!LoseTrack(n)
  PROVE  YardInv'
<1>0. /\ tree \in [Names -> YardTypes] /\ work \in [Names -> SUBSET Nat]
      /\ slot \in [Names -> SUBSET Nat] /\ archived \subseteq Nat /\ items \in Nat
  BY DEF YardInv, YardOK
<1>1. UNCHANGED <<session, reg, box, told, exempt, parked, lost>>
  BY DEF Yard!Sweep, Yard!WriteWork, Yard!Commit, Yard!Speak, Yard!LoseTrack, Yard!treeVars,
         Yard!hostVars, Yard!boxVars
<1>2. CASE Yard!Sweep(n)
  <2>1. UNCHANGED <<tree, work, slot, items>> /\ archived' = archived \cup slot[n]
    BY <1>2 DEF Yard!Sweep, Yard!Archive, Yard!Mirrored, Yard!treeVars, Yard!countVars
  <2>11. archived' = archived \cup slot[n] /\ slot[n] \subseteq Nat /\ items' = items
    BY <1>0, <2>1
  <2>2. archived' \subseteq Nat /\ archived \subseteq archived'
    BY <1>0, <2>11, Zenon
  <2>3. items' \in Nat /\ items' >= items
    BY <1>0, <2>11
  <2> QED BY <1>0, <1>1, <2>1, <2>2, <2>3, YardWorldStep
<1>3. CASE Yard!WriteWork(n)
  <2>1. /\ UNCHANGED <<tree, slot, archived>> /\ items' = items + 1 /\ tree[n] = "whole"
        /\ work' = [work EXCEPT ![n] = @ \cup {items + 1}]
    BY <1>3 DEF Yard!WriteWork, Yard!NewItem, Yard!slotVars
  <2>2. work' \in [Names -> SUBSET Nat] /\ items' \in Nat /\ items' >= items
    BY <1>0, <2>1
  <2>3. \A m \in Names : \A i \in work'[m] : i \in work[m] \/ i > items
    BY <1>0, <2>1
  <2>4. \A m \in Names : tree[m] \in {"none", "unfilled"} => work'[m] \subseteq work[m]
    BY <1>0, <2>1
  <2> QED BY <1>0, <1>1, <2>1, <2>2, <2>3, <2>4, YardWorldStep
<1>4. CASE Yard!Commit(n)
  <2>1. UNCHANGED <<tree, slot, archived, items>> /\ work' = [work EXCEPT ![n] = {}]
    BY <1>4 DEF Yard!Commit, Yard!slotVars, Yard!countVars
  <2>2. work' \in [Names -> SUBSET Nat] /\ \A m \in Names : work'[m] \subseteq work[m]
    BY <1>0, <2>1
  <2> QED BY <1>0, <1>1, <2>1, <2>2, YardWorldStep
<1>5. CASE Yard!Speak(n)
  <2>1. /\ UNCHANGED <<tree, work, archived>> /\ items' = items + 1 /\ box[n].state = "up"
        /\ slot' = [slot EXCEPT ![n] = @ \cup {items + 1}]
    BY <1>5 DEF Yard!Speak, Yard!NewItem, Yard!treeVars
  <2>2. slot' \in [Names -> SUBSET Nat] /\ items' \in Nat /\ items' >= items
        /\ \A m \in Names : slot'[m] = slot[m] \/ box[m].state = "up"
    BY <1>0, <2>1
  <2> QED BY <1>0, <1>1, <2>1, <2>2, YardWorldStep
<1>6. CASE Yard!LoseTrack(n)
  <2>1. /\ UNCHANGED <<work, slot, archived, items>> /\ tree[n] = "whole"
        /\ tree' = [tree EXCEPT ![n] = "orphan"]
    BY <1>6 DEF Yard!LoseTrack, Yard!slotVars, Yard!countVars
  <2>2. tree' \in [Names -> YardTypes]
        /\ \A m \in Names : /\ (tree'[m] = "none") = (tree[m] = "none")
                            /\ (tree'[m] = "unfilled") = (tree[m] = "unfilled")
    BY <1>0, <2>1 DEF YardTypes
  <2> QED BY <1>0, <1>1, <2>1, <2>2, YardWorldStep
<1> QED BY <1>2, <1>3, <1>4, <1>5, <1>6

-----------------------------------------------------------------------------
LEMMA YardInit == Yard!Init => YardInv
<1> SUFFICES ASSUME Yard!Init PROVE YardInv
  OBVIOUS
<1>1. \A s \in Sessions : session[s] = Yard!Idle /\ session[s].pc = "idle"
  BY DEF Yard!Init, Yard!Idle
<1>2. \A b \in Yard!Owners : box[b] = Yard!NoBox
  BY DEF Yard!Init
<1>3. Yard!NoBox \in BoxTypes /\ Yard!NoBox.state # "up"
  BY DEF Yard!NoBox, BoxTypes
<1>4. YardOK
  BY <1>1, <1>3, IdleIsCommand DEF Yard!Init, YardOK, YardTypes, Yard!Owners
<1>5. OneAlone /\ CommandsOK
  BY <1>1 DEF OneAlone, CommandsOK, ByItself, WorkSeen, AddPcs, RemovePcs, LeftPcs
<1>6. Yard!Registered \subseteq Yard!Owners
  BY DEF Yard!Init, Yard!Registered, Yard!Owners
<1>7. MasksInv
  BY <1>2, <1>3, <1>6 DEF MasksInv
<1>8. WorkInv
  BY DEF Yard!Init, WorkInv
<1> QED BY <1>4, <1>5, <1>7, <1>8 DEF YardInv

LEMMA YardNext == YardInv /\ [Yard!Next]_(Yard!vars) => YardInv'
<1> SUFFICES ASSUME YardInv, [Yard!Next]_(Yard!vars) PROVE YardInv'
  OBVIOUS
<1>1. ASSUME NEW s \in Sessions, Yard!Command(s) PROVE YardInv'
  BY <1>1, UpStartStep, DownStartStep, AddExistingStep, AddNewStep, RemStartStep,
     RemLeftoversStep, Zenon DEF Yard!Command
<1>2. ASSUME NEW s \in Sessions, Yard!Up(s) PROVE YardInv'
  BY <1>2, UpRunningStep, UpBuildStep, UpMasksStep, UpRunStep DEF Yard!Up
<1>3. ASSUME NEW s \in Sessions, Yard!Down(s) PROVE YardInv'
  BY <1>3, DownSyncStep, DownRmStep DEF Yard!Down
<1>4. ASSUME NEW s \in Sessions, Yard!Add(s) PROVE YardInv'
  BY <1>4, AddGitStep, AddCheckoutStep, AddRegisterStep, AddAdoptStep, AddSayStep,
     AddInjectStep DEF Yard!Add
<1>5. ASSUME NEW s \in Sessions, Yard!Remove(s) PROVE YardInv'
  BY <1>5, RemVolsStep, RemSyncStep, RemCheckStep, RemParkStep, RemGitStep, RemOrphanStep,
     RemLocalStep, RemSlotStep, RemLeftVolsStep DEF Yard!Remove
<1>6. ASSUME Yard!Around PROVE YardInv'
  BY <1>6, BoxStopsStep, YardAroundStep, Zenon DEF Yard!Around
<1>7. CASE UNCHANGED Yard!vars
  <2>1. UNCHANGED <<tree, work, parked, reg, slot, archived, box, told, session, items, exempt, lost>>
    BY <1>7 DEF Yard!vars
  <2>2. /\ tree \in [Names -> YardTypes] /\ work \in [Names -> SUBSET Nat]
        /\ slot \in [Names -> SUBSET Nat] /\ archived \subseteq Nat /\ items \in Nat
    BY DEF YardInv, YardOK
  <2> QED BY <2>1, <2>2, YardWorldStep
<1> QED BY <1>1, <1>2, <1>3, <1>4, <1>5, <1>6, <1>7, KillStep DEF Yard!Next

(* A box that runs masks every other registered checkout, or the operator  *)
(* was told, in every state between commands, however many worktrees,      *)
(* terminals, commands and failures there are.                             *)
THEOREM MasksAreOverAll == Yard!Spec => []MasksOrSaid
<1>1. YardInv => MasksOrSaid
  <2> SUFFICES ASSUME YardInv, Yard!Busy = {}, NEW b \in Yard!Registered, box[b].state = "up",
                      NEW n \in Yard!MaskTargets(b)
               PROVE  n \in box[b].live \/ <<b, n>> \in told \/ <<b, n>> \in exempt
    BY DEF MasksOrSaid, Yard!MasksOrSaid
  <2>1. \A s \in Sessions : session[s].pc = "idle"
    BY DEF Yard!Busy, Yard!At
  <2>2. \A s \in Sessions : ~Owes(session[s], b, n)
    BY <2>1 DEF Owes
  <2> QED BY <2>2 DEF YardInv, MasksInv, Settled
<1> QED BY <1>1, YardInit, YardNext, PTL DEF Yard!Spec

(* No removal deletes work or transcripts that are in no other place, and  *)
(* no undone `add` does, but those that were asked for, or ran beside      *)
(* another command.                                                        *)
THEOREM RemovalsKeepTheWork == Yard!Spec => []NothingLostUnasked
<1>1. YardInv => NothingLostUnasked
  BY DEF YardInv, WorkInv, NothingLostUnasked, Yard!NothingLostUnasked
<1> QED BY <1>1, YardInit, YardNext, PTL DEF Yard!Spec

-----------------------------------------------------------------------------
(* The verbs on the compose stack.  What a verb that is still alone has    *)
(* reached is a matter of what its command saw and of the containers as    *)
(* they are: c stands for those.                                           *)
StackStates == {"none", "running", "stopped", "crashed"}
StackMakers == StackProviders \cup {""}
StackContainers ==
  [at : StackStates, hash : StackModes \cup {"base", ""}, by : StackMakers]
StackPcs == {"none", "look", "isup", "pick", "foreign", "build", "sweep", "strand", "clear",
             "compose", "orphans", "reap", "posture", "force", "done"}
StackVerbTypes ==
  [pc : StackPcs, kind : {"", "up", "reconcile", "heal", "down"}, conf : StackModes \cup {""},
   by : StackMakers, extra : SUBSET {StackProfile[s] : s \in StackServices},
   doomed : SUBSET StackServices, wanted : SUBSET StackServices,
   before : [StackServices -> StackContainers], alone : BOOLEAN, ok : BOOLEAN]
StackTypes ==
  /\ ctr \in [StackServices -> StackContainers]
  /\ conf \in StackModes /\ provider \in StackProviders
  /\ verb \in [StackCallers -> StackVerbTypes]

SeenIn(c, by) == {s \in Stack!Present(c) : c[s].by = by}
ForeignIn(c, by) == {s \in Stack!Present(c) : c[s].by # by}
CrashedIn(c, by) == {s \in SeenIn(c, by) : c[s].at = "crashed"}
ChangedIn(c, k, rendered, by) ==
  {s \in rendered \cap SeenIn(c, by) : c[s].hash # Stack!Hash(k, s)}
StrandedIn(c, k, rendered, by) ==
  LET changed == ChangedIn(c, k, rendered, by)
      down == Stack!TakenDown(changed, rendered)
  IN  (down \cap SeenIn(c, by)) \ (changed \cup {s \in down : c[s].at = "running"})

(* The verb is one that is to leave the whole stack running, and what of   *)
(* it ran is rendered, but for what the provider could not see.            *)
Wholesale(v) ==
  /\ v.kind \in {"up", "reconcile"} /\ v.wanted = {}
  /\ v.kind = "reconcile" => ~(Stack!Running(v.before) \subseteq StackManaged)
KeepsTheRest(v) ==
  \A s \in Stack!Running(v.before) :
    \/ s \in Stack!Rendered(v.conf, v.extra)
    \/ StackProfile[s] # "" /\ v.before[s].by # v.by
Ours(v, c) == Wholesale(v) /\ KeepsTheRest(v) /\ ForeignIn(c, v.by) = {}
RunsAsRendered(v, c) ==
  \A s \in Stack!Rendered(v.conf, v.extra) :
    c[s] = Stack!Container("running", Stack!Hash(v.conf, s), v.by)
ModesOwn(v, c) ==
  /\ v.kind = "reconcile" /\ Stack!Running(v.before) \subseteq StackManaged
  /\ v.wanted \subseteq StackManaged
  /\ Stack!Running(c) \subseteq Stack!Running(v.before) \cup Stack!WithDependencies(StackManaged)

(* What of it a verb that is done has to show.                             *)
Delivers(v, c) ==
  /\ v.kind = "up" \/ (v.kind = "reconcile" /\ v.wanted = {}
                       /\ ~(Stack!Running(v.before) \subseteq StackManaged)) =>
       v.ok /\ KeepsTheRest(v) /\ RunsAsRendered(v, c)
  /\ v.kind = "reconcile" /\ Stack!Running(v.before) \subseteq StackManaged =>
       Stack!Running(c) \subseteq Stack!Running(v.before) \cup Stack!WithDependencies(StackManaged)
  /\ v.kind = "heal" =>
       \A s \in StackServices : v.before[s].at \in {"stopped", "none"} => c[s] = v.before[s]
  /\ v.kind = "down" => Stack!Present(c) = {}

ReadyToCompose(v, c) ==
  \/ v.kind = "down" /\ ForeignIn(c, v.by) = {}
  \/ /\ Ours(v, c)
     /\ v.by = "podman" => StrandedIn(c, v.conf, Stack!Rendered(v.conf, v.extra), v.by) = {}
  \/ ModesOwn(v, c) /\ v.wanted # {}

VerbOK(v, c) ==
  /\ v.pc \in {"isup", "look", "posture", "pick", "force"} => v.before = c
  /\ v.pc = "isup" => v.kind = "reconcile" /\ v.wanted = {}
  /\ v.pc = "look" => Wholesale(v)
  /\ v.pc = "build" => Wholesale(v) /\ KeepsTheRest(v)
  /\ v.pc \in {"foreign", "sweep"} => v.kind = "down" \/ (Wholesale(v) /\ KeepsTheRest(v))
  /\ v.pc = "sweep" => v.doomed = ForeignIn(c, v.by)
  /\ v.pc \in {"strand", "clear"} => Ours(v, c)
  /\ v.pc = "clear" =>
       v.doomed = IF v.by = "podman"
                  THEN StrandedIn(c, v.conf, Stack!Rendered(v.conf, v.extra), v.by) ELSE {}
  /\ v.pc = "posture" => ModesOwn(v, c) /\ v.wanted = {}
  /\ v.pc = "compose" => ReadyToCompose(v, c)
  /\ v.pc \in {"orphans", "reap"} =>
       Wholesale(v) /\ KeepsTheRest(v) /\ v.ok /\ RunsAsRendered(v, c)
  /\ v.pc = "reap" => v.doomed \cap Stack!Rendered(v.conf, v.extra) = {}
  /\ v.pc \in {"pick", "force"} => v.kind = "heal"
  /\ v.pc = "force" => v.wanted \subseteq Stack!Running(c) \cup CrashedIn(c, v.by)
  /\ v.pc = "done" => Delivers(v, c)

StackInv == StackTypes /\ \A p \in StackCallers : verb[p].alone => VerbOK(verb[p], ctr)

-----------------------------------------------------------------------------
(* What depends on a set, found level by level: the function that finds it *)
(* exists, by a least number of levels for which it would not.             *)
LEMMA LeastOfNaturals ==
  ASSUME NEW T \in SUBSET Nat, T # {}
  PROVE \E x \in T : \A y \in T : x <= y
<1> DEFINE R == {ss \in Nat \X Nat : ss[1] < ss[2]}
<1>1. IsWellFoundedOn(R, Nat)
  BY NatLessThanWellFounded DEF OpToRel
<1> HIDE DEF R
<1>2. PICK x \in T : \A y \in T : ~(<<y, x>> \in R)
  BY <1>1, WFMin
<1>3. \A y \in T : ~(y < x)
  BY <1>2 DEF R
<1> QED
  BY <1>3

Dependents(r) == {s \in StackServices : StackDeps[s] \cap r # {}}
Levels(of, k, g) ==
  g = [n \in 0..k |-> IF n = 0 THEN of ELSE g[n - 1] \cup Dependents(g[n - 1])]

LEMMA LevelsExist ==
  ASSUME NEW of, NEW k \in Nat
  PROVE  \E g : Levels(of, k, g)
<1> DEFINE T == {j \in Nat : ~ \E g : Levels(of, j, g)}
<1> SUFFICES ASSUME T # {} PROVE FALSE
  OBVIOUS
<1>1. PICK j \in T : \A i \in T : j <= i
  BY LeastOfNaturals
<1>2. CASE j = 0
  <2> DEFINE g == [n \in 0..0 |-> of]
  <2>1. Levels(of, 0, g)
    BY DEF Levels
  <2> QED BY <1>1, <1>2, <2>1
<1>3. CASE j # 0
  <2>1. j - 1 \in Nat /\ j \in Nat
    BY <1>1, <1>3
  <2>2. PICK g : Levels(of, j - 1, g)
    BY <1>1, <2>1
  <2> DEFINE e == [n \in 0..j |-> IF n = j THEN g[j - 1] \cup Dependents(g[j - 1]) ELSE g[n]]
  <2>3. \A n \in 0..(j - 1) : g[n] = IF n = 0 THEN of ELSE g[n - 1] \cup Dependents(g[n - 1])
    BY <2>2, Zenon DEF Levels
  <2>4. ASSUME NEW n \in 0..j
        PROVE  e[n] = IF n = 0 THEN of ELSE e[n - 1] \cup Dependents(e[n - 1])
    <3>1. CASE n = 0
      <4>1. 0 \in 0..(j - 1) /\ e[0] = g[0]
        BY <1>3, <2>1
      <4> QED BY <3>1, <4>1, <2>3, Zenon
    <3>2. CASE n # 0
      <4>1. e[n - 1] = g[n - 1]
        BY <3>2, <2>1
      <4>2. n = j \/ n \in 0..(j - 1)
        BY <2>1
      <4> QED BY <4>1, <4>2, <3>2, <2>3
    <3> QED BY <3>1, <3>2
  <2>5. Levels(of, j, e)
    <3> HIDE DEF e
    <3>1. e = [n \in 0..j |-> e[n]]
      BY DEF e
    <3> QED BY <2>4, <3>1 DEF Levels
  <2> QED BY <1>1, <2>5
<1> QED BY <1>2, <1>3

(* A set that needs nothing outside it is not downstream of what is        *)
(* outside it.                                                             *)
LEMMA NothingDownstream ==
  ASSUME NEW r \in SUBSET StackServices, \A s \in r : StackDeps[s] \subseteq r,
         NEW of, of \cap r = {}
  PROVE  Stack!Downstream(of) \cap r = {}
<1> DEFINE N == Stack!Cardinality(StackServices)
           Reach == CHOOSE g : g = [n \in 0..N |->
             IF n = 0 THEN of
             ELSE g[n - 1] \cup {s \in StackServices : StackDeps[s] \cap g[n - 1] # {}}]
<1>1. N \in Nat
  <2>1. Stack!Cardinality(StackServices) = Cardinality(StackServices)
    BY DEF Stack!Cardinality, Cardinality, Stack!IsFiniteSet, IsFiniteSet
  <2> QED BY <2>1, StackAssumption, FS_CardinalityType
<1>2. Levels(of, N, Reach)
  <2>1. \E g : Levels(of, N, g)
    BY <1>1, LevelsExist
  <2> QED BY <2>1, Zenon DEF Levels, Dependents
<1>3. \A n \in 0..N : Reach[n] = IF n = 0 THEN of ELSE Reach[n - 1] \cup Dependents(Reach[n - 1])
  BY <1>2, Zenon DEF Levels
<1>4. Stack!Downstream(of) = {s \in StackServices : \E d \in StackDeps[s] : d \in Reach[N]}
  BY DEF Stack!Downstream
<1> HIDE DEF Reach, N
<1>5. \A n \in 0..N : Reach[n] \cap r = {}
  <2> DEFINE T == {n \in 0..N : Reach[n] \cap r # {}}
  <2> SUFFICES ASSUME T # {} PROVE FALSE
    OBVIOUS
  <2>1. T \in SUBSET Nat
    BY <1>1
  <2>2. PICK n \in T : \A i \in T : n <= i
    BY <2>1, LeastOfNaturals
  <2>3. n # 0
    BY <1>1, <1>3, <2>2
  <2>4. n - 1 \in 0..N /\ n - 1 \notin T
    BY <1>1, <2>2, <2>3
  <2>5. Reach[n - 1] \cap r = {}
    BY <2>4
  <2>6. Dependents(Reach[n - 1]) \cap r = {}
    BY <2>5 DEF Dependents
  <2> QED BY <1>3, <2>2, <2>3, <2>5, <2>6
<1>6. Reach[N] \cap r = {}
  BY <1>1, <1>5
<1> QED BY <1>4, <1>6

LEMMA EmptyDownstream == Stack!Downstream({}) = {}
<1>1. \A s \in StackServices : StackDeps[s] \subseteq StackServices
  BY StackAssumption
<1>2. Stack!Downstream({}) \cap StackServices = {}
  BY <1>1, NothingDownstream
<1> QED BY <1>2 DEF Stack!Downstream

(* What is rendered needs nothing that is not.                             *)
LEMMA RenderedIsWhole ==
  ASSUME NEW k, NEW extra
  PROVE  Stack!WithDependencies(Stack!Rendered(k, extra)) = Stack!Rendered(k, extra)
<1> DEFINE r == Stack!Rendered(k, extra)
<1>1. r \subseteq StackServices /\ \A s \in r : StackDeps[s] \subseteq r
  BY StackAssumption DEF Stack!Rendered
<1>2. ASSUME NEW s \in StackServices, s \notin r PROVE Stack!Downstream({s}) \cap r = {}
  <2> HIDE DEF r
  <2>1. {s} \cap r = {}
    BY <1>2
  <2> QED BY <1>1, <2>1, NothingDownstream
<1> HIDE DEF r
<1>3. Stack!WithDependencies(r) = r
  BY <1>1, <1>2 DEF Stack!WithDependencies
<1> QED BY <1>3 DEF r

-----------------------------------------------------------------------------
(* What a provider sees, and the containers a command leaves, by their     *)
(* types.                                                                  *)
LEMMA AsTheContainersAre ==
  ASSUME NEW by
  PROVE  /\ Stack!Seen(by) = SeenIn(ctr, by)
         /\ Stack!Foreign(by) = ForeignIn(ctr, by)
         /\ Stack!Crashed(by) = CrashedIn(ctr, by)
         /\ \A k, r : Stack!Changed(k, r, by) = ChangedIn(ctr, k, r, by)
BY DEF Stack!Seen, SeenIn, Stack!Foreign, ForeignIn, Stack!Crashed, CrashedIn, Stack!Changed,
       ChangedIn

LEMMA StrandedAsTheyAre ==
  ASSUME NEW k, NEW r, NEW by
  PROVE  Stack!Stranded(k, r, by) = StrandedIn(ctr, k, r, by)
<1> DEFINE changed == ChangedIn(ctr, k, r, by)
           down == Stack!TakenDown(changed, r)
<1>1. Stack!Changed(k, r, by) = changed /\ Stack!Seen(by) = SeenIn(ctr, by)
  BY AsTheContainersAre
<1>2. \A s \in SeenIn(ctr, by) : s \in Stack!Present(ctr)
  BY DEF SeenIn
<1>3. Stack!Recreated(changed, r) = changed \cup (down \cap {s \in Stack!Present(ctr) : ctr[s].at = "running"})
  BY DEF Stack!Recreated
<1>4. Stack!Stranded(k, r, by) = (down \cap SeenIn(ctr, by)) \ Stack!Recreated(changed, r)
  BY <1>1 DEF Stack!Stranded
<1>5. StrandedIn(ctr, k, r, by) = (down \cap SeenIn(ctr, by)) \ (changed \cup {s \in down : ctr[s].at = "running"})
  BY DEF StrandedIn
<1> HIDE DEF changed, down
<1> QED BY <1>2, <1>3, <1>4, <1>5

LEMMA StackValues ==
  /\ Stack!None \in StackContainers
  /\ \A gone : \A c \in [StackServices -> StackContainers] :
       [s \in StackServices |-> IF s \in gone THEN Stack!None ELSE c[s]]
         \in [StackServices -> StackContainers]
  /\ \A k \in StackModes, s, by \in StackMakers :
       Stack!Container("running", Stack!Hash(k, s), by) \in StackContainers
  /\ \A b \in StackContainers, at \in StackStates : [b EXCEPT !.at = at] \in StackContainers
BY DEF Stack!None, StackContainers, StackStates, StackMakers, Stack!Container, Stack!Hash

LEMMA NoVerbType == Stack!NoVerb \in StackVerbTypes
<1>1. [s \in StackServices |-> Stack!None] \in [StackServices -> StackContainers]
  BY StackValues
<1> QED BY <1>1 DEF Stack!NoVerb, StackVerbTypes, StackPcs, StackMakers

(* Where a verb has come to.                                               *)
LEMMA SameVerbLeftBehind ==
  ASSUME NEW v \in StackVerbTypes, NEW b \in BOOLEAN
  PROVE  [v EXCEPT !.alone = b] \in StackVerbTypes
BY DEF StackVerbTypes

LEMMA VerbGoes ==
  ASSUME StackInv, NEW p \in StackCallers, NEW v \in StackVerbTypes,
         NEW c \in [StackServices -> StackContainers], Stack!Goes(p, v, c),
         v.alone => VerbOK(v, c)
  PROVE  StackInv'
<1>1. /\ ctr' = c /\ UNCHANGED <<conf, provider>>
      /\ verb' = [q \in StackCallers |->
                   IF q = p THEN v ELSE [verb[q] EXCEPT !.alone = @ /\ c = ctr]]
  BY DEF Stack!Goes
<1>2. ASSUME NEW q \in StackCallers, q # p
      PROVE  verb'[q] \in StackVerbTypes /\ (verb'[q].alone => verb'[q] = verb[q] /\ c = ctr)
  <2>1. verb[q] \in StackVerbTypes /\ verb'[q] = [verb[q] EXCEPT !.alone = @ /\ c = ctr]
    BY <1>1, <1>2 DEF StackInv, StackTypes
  <2>2. verb[q].alone \in BOOLEAN
    BY <2>1 DEF StackVerbTypes
  <2>3. CASE c = ctr
    <3>1. verb'[q] = verb[q]
      BY <2>1, <2>2, <2>3 DEF StackVerbTypes
    <3> QED BY <2>1, <2>3, <3>1
  <2>4. CASE c # ctr
    <3>1. verb'[q] = [verb[q] EXCEPT !.alone = FALSE]
      BY <2>1, <2>4 DEF StackVerbTypes
    <3> QED BY <2>1, <3>1, SameVerbLeftBehind DEF StackVerbTypes
  <2> QED BY <2>3, <2>4
<1>3. verb'[p] = v
  BY <1>1
<1>4. verb' \in [StackCallers -> StackVerbTypes]
  <2>1. verb' = [q \in StackCallers |-> verb'[q]]
    BY <1>1
  <2> QED BY <1>2, <1>3, <2>1
<1>5. StackTypes'
  BY <1>1, <1>4 DEF StackInv, StackTypes
<1>6. ASSUME NEW q \in StackCallers, verb'[q].alone
      PROVE  VerbOK(verb'[q], ctr')
  <2>1. CASE q = p
    BY <1>1, <1>3, <1>6, <2>1
  <2>2. CASE q # p
    <3>1. verb'[q] = verb[q] /\ ctr' = ctr
      BY <1>1, <1>2, <1>6, <2>2
    <3> QED BY <1>6, <3>1 DEF StackInv
  <2> QED BY <2>1, <2>2
<1> QED BY <1>5, <1>6 DEF StackInv

LEMMA VerbIs ==
  ASSUME StackInv, NEW p \in StackCallers
  PROVE  /\ verb[p] \in StackVerbTypes /\ ctr \in [StackServices -> StackContainers]
         /\ verb[p].alone => VerbOK(verb[p], ctr)
BY DEF StackInv, StackTypes

(* A step that touches no container, and one that fails.                   *)
LEMMA VerbSteps ==
  ASSUME StackInv, NEW p \in StackCallers, NEW v \in StackVerbTypes, Stack!Steps(p, v),
         v.alone => VerbOK(v, ctr)
  PROVE  StackInv'
<1>1. Stack!Goes(p, v, ctr) /\ ctr \in [StackServices -> StackContainers]
  BY DEF Stack!Steps, StackInv, StackTypes
<1> QED BY <1>1, VerbGoes

LEMMA VerbSpoilt ==
  ASSUME StackInv, NEW p \in StackCallers, NEW v \in StackVerbTypes,
         NEW c \in [StackServices -> StackContainers], Stack!Goes(p, Stack!Spoilt(v), c)
  PROVE  StackInv'
<1>1. Stack!Spoilt(v) \in StackVerbTypes /\ ~Stack!Spoilt(v).alone
  BY SameVerbLeftBehind DEF Stack!Spoilt, StackVerbTypes
<1> QED BY <1>1, VerbGoes

(* A verb moved on to another of its commands.                             *)
LEMMA MovedOn ==
  ASSUME NEW v \in StackVerbTypes, NEW pc \in StackPcs
  PROVE  /\ [v EXCEPT !.pc = pc] \in StackVerbTypes /\ [v EXCEPT !.pc = pc].pc = pc
         /\ \A c : /\ Wholesale([v EXCEPT !.pc = pc]) = Wholesale(v)
                   /\ KeepsTheRest([v EXCEPT !.pc = pc]) = KeepsTheRest(v)
                   /\ Ours([v EXCEPT !.pc = pc], c) = Ours(v, c)
                   /\ ModesOwn([v EXCEPT !.pc = pc], c) = ModesOwn(v, c)
                   /\ RunsAsRendered([v EXCEPT !.pc = pc], c) = RunsAsRendered(v, c)
                   /\ Delivers([v EXCEPT !.pc = pc], c) = Delivers(v, c)
BY DEF StackVerbTypes, Wholesale, KeepsTheRest, Ours, ModesOwn, RunsAsRendered, Delivers

-----------------------------------------------------------------------------
(* The commands, one after the other.                                      *)
LEMMA IsUpStep ==
  ASSUME StackInv, NEW p \in StackCallers, Stack!IsUp(p)
  PROVE  StackInv'
<1> DEFINE v == verb[p]
           w == [v EXCEPT !.pc = "posture"]
           l == [v EXCEPT !.pc = "look"]
<1>1. /\ v \in StackVerbTypes /\ v.pc = "isup" /\ (v.alone => VerbOK(v, ctr))
      /\ ctr \in [StackServices -> StackContainers]
  BY VerbIs DEF Stack!IsUp, Stack!At
<1>2. w \in StackVerbTypes /\ l \in StackVerbTypes /\ w.pc = "posture" /\ l.pc = "look"
  BY <1>1 DEF StackVerbTypes, StackPcs
<1>3. /\ w.alone = v.alone /\ w.before = v.before /\ w.kind = v.kind /\ w.wanted = v.wanted
      /\ l.alone = v.alone /\ l.before = v.before /\ l.kind = v.kind /\ l.wanted = v.wanted
  BY <1>1 DEF StackVerbTypes
<1>4. v.alone => v.before = ctr /\ v.kind = "reconcile" /\ v.wanted = {}
  BY <1>1 DEF VerbOK
<1>5. \/ Stack!Running(ctr) \subseteq StackManaged /\ Stack!Steps(p, w)
      \/ ~(Stack!Running(ctr) \subseteq StackManaged) /\ Stack!Steps(p, l)
      \/ Stack!Goes(p, Stack!Spoilt(w), ctr)
  BY DEF Stack!IsUp
<1> HIDE DEF v, w, l
<1>6. CASE Stack!Running(ctr) \subseteq StackManaged /\ Stack!Steps(p, w)
  <2>1. w.alone => VerbOK(w, ctr)
    BY <1>2, <1>3, <1>4, <1>6 DEF VerbOK, ModesOwn
  <2> QED BY <1>2, <1>6, <2>1, VerbSteps
<1>7. CASE ~(Stack!Running(ctr) \subseteq StackManaged) /\ Stack!Steps(p, l)
  <2>1. l.alone => VerbOK(l, ctr)
    BY <1>2, <1>3, <1>4, <1>7 DEF VerbOK, Wholesale
  <2> QED BY <1>2, <1>7, <2>1, VerbSteps
<1>8. CASE Stack!Goes(p, Stack!Spoilt(w), ctr)
  BY <1>1, <1>2, <1>8, VerbSpoilt
<1> QED BY <1>5, <1>6, <1>7, <1>8

(* What the provider sees running is rendered: a profile that is not       *)
(* enabled is one of the extra ones.                                       *)
LEMMA LookStep ==
  ASSUME StackInv, NEW p \in StackCallers, Stack!Look(p)
  PROVE  StackInv'
<1> DEFINE v == verb[p]
           next == IF v.kind = "up" THEN "build" ELSE "foreign"
           extra == Stack!Extra(v.conf, Stack!Running(ctr) \cap Stack!Seen(v.by))
           w == [v EXCEPT !.pc = next, !.extra = extra]
           l == [v EXCEPT !.pc = next]
<1>1. /\ v \in StackVerbTypes /\ v.pc = "look" /\ (v.alone => VerbOK(v, ctr))
      /\ ctr \in [StackServices -> StackContainers]
  BY VerbIs DEF Stack!Look, Stack!At
<1>2. \/ Stack!Steps(p, w)
      \/ Stack!Goes(p, Stack!Spoilt(l), ctr)
  BY DEF Stack!Look
<1>3. extra \in SUBSET {StackProfile[s] : s \in StackServices}
  BY DEF Stack!Extra, Stack!Running
<1>4. next \in StackPcs /\ next = IF v.kind = "up" THEN "build" ELSE "foreign"
  BY DEF StackPcs
<1>5. ASSUME NEW s \in Stack!Running(ctr), ctr[s].by = v.by
      PROVE  StackProfile[s] \in {""} \cup StackEnabled[v.conf] \cup extra
  <2>1. s \in StackServices /\ ctr[s].at = "running"
    BY <1>5 DEF Stack!Running
  <2>2. ctr[s] # Stack!None
    <3>1. Stack!None.at = "none"
      BY DEF Stack!None
    <3> QED BY <2>1, <3>1
  <2>3. s \in Stack!Running(ctr) \cap Stack!Seen(v.by)
    BY <1>5, <2>1, <2>2 DEF Stack!Seen, Stack!Present
  <2> HIDE DEF v
  <2> QED BY <2>3 DEF Stack!Extra
<1> HIDE DEF extra, next
<1>6. /\ w \in StackVerbTypes /\ w.pc = next /\ w.alone = v.alone /\ w.before = v.before
      /\ w.kind = v.kind /\ w.wanted = v.wanted /\ w.extra = extra /\ w.conf = v.conf
      /\ w.by = v.by /\ l \in StackVerbTypes
  BY <1>1, <1>3, <1>4 DEF StackVerbTypes
<1> HIDE DEF v, w, l
<1>7. CASE Stack!Steps(p, w)
  <2>1. ASSUME w.alone PROVE VerbOK(w, ctr)
    <3>1. Wholesale(v) /\ v.before = ctr
      BY <1>1, <1>6, <2>1 DEF VerbOK
    <3>2. Wholesale(w)
      BY <1>6, <3>1 DEF Wholesale
    <3>3. KeepsTheRest(w)
      BY <1>5, <1>6, <3>1 DEF KeepsTheRest, Stack!Rendered, Stack!Running
    <3> QED BY <3>2, <3>3, <1>4, <1>6 DEF VerbOK
  <2> QED BY <1>6, <1>7, <2>1, VerbSteps
<1>8. CASE Stack!Goes(p, Stack!Spoilt(l), ctr)
  BY <1>1, <1>6, <1>8, VerbSpoilt
<1> QED BY <1>2, <1>7, <1>8

LEMMA StackBuildStep ==
  ASSUME StackInv, NEW p \in StackCallers, Stack!Build(p)
  PROVE  StackInv'
<1> DEFINE v == verb[p]
           w == [v EXCEPT !.pc = "foreign"]
           l == [v EXCEPT !.pc = "done", !.ok = FALSE]
<1>1. /\ v \in StackVerbTypes /\ v.pc = "build" /\ (v.alone => VerbOK(v, ctr))
      /\ ctr \in [StackServices -> StackContainers]
  BY VerbIs DEF Stack!Build, Stack!At
<1>2. Stack!Steps(p, w) \/ Stack!Goes(p, Stack!Spoilt(l), ctr)
  BY DEF Stack!Build
<1>3. /\ w \in StackVerbTypes /\ l \in StackVerbTypes /\ w.pc = "foreign" /\ w.alone = v.alone
      /\ w.kind = v.kind /\ w.wanted = v.wanted /\ w.before = v.before /\ w.conf = v.conf
      /\ w.extra = v.extra /\ w.by = v.by
  BY <1>1 DEF StackVerbTypes, StackPcs
<1> HIDE DEF v, w, l
<1>4. w.alone => VerbOK(w, ctr)
  <2>1. Wholesale(w) = Wholesale(v) /\ KeepsTheRest(w) = KeepsTheRest(v)
    BY <1>3 DEF Wholesale, KeepsTheRest
  <2> QED BY <1>1, <1>3, <2>1 DEF VerbOK
<1> QED BY <1>1, <1>2, <1>3, <1>4, VerbSteps, VerbSpoilt

LEMMA ListForeignStep ==
  ASSUME StackInv, NEW p \in StackCallers, Stack!ListForeign(p)
  PROVE  StackInv'
<1> DEFINE v == verb[p]
           w == [v EXCEPT !.pc = "sweep", !.doomed = Stack!Foreign(v.by)]
           l == [v EXCEPT !.pc = "sweep"]
<1>1. /\ v \in StackVerbTypes /\ v.pc = "foreign" /\ (v.alone => VerbOK(v, ctr))
      /\ ctr \in [StackServices -> StackContainers]
  BY VerbIs DEF Stack!ListForeign, Stack!At
<1>2. Stack!Steps(p, w) \/ Stack!Goes(p, Stack!Spoilt(l), ctr)
  BY DEF Stack!ListForeign
<1>3. Stack!Foreign(v.by) = ForeignIn(ctr, v.by) /\ Stack!Foreign(v.by) \in SUBSET StackServices
  BY AsTheContainersAre DEF Stack!Foreign, Stack!Present
<1>4. /\ w \in StackVerbTypes /\ l \in StackVerbTypes /\ w.pc = "sweep" /\ w.alone = v.alone
      /\ w.doomed = ForeignIn(ctr, w.by) /\ w.kind = v.kind /\ w.wanted = v.wanted
      /\ w.before = v.before /\ w.conf = v.conf /\ w.extra = v.extra /\ w.by = v.by
  BY <1>1, <1>3 DEF StackVerbTypes, StackPcs
<1> HIDE DEF v, w, l
<1>5. Wholesale(w) = Wholesale(v) /\ KeepsTheRest(w) = KeepsTheRest(v)
  BY <1>4 DEF Wholesale, KeepsTheRest
<1>6. w.alone => VerbOK(w, ctr)
  BY <1>1, <1>4, <1>5 DEF VerbOK
<1> QED BY <1>1, <1>2, <1>4, <1>6, VerbSteps, VerbSpoilt

(* The containers of another provider are gone, all of them.               *)
LEMMA StackSweepStep ==
  ASSUME StackInv, NEW p \in StackCallers, Stack!Sweep(p)
  PROVE  StackInv'
<1> DEFINE v == verb[p]
           gone == {s \in v.doomed : ctr[s].by # v.by}
           next == IF v.kind = "down" THEN "compose" ELSE "strand"
           w == [v EXCEPT !.pc = next, !.doomed = {}]
           c == [s \in StackServices |-> IF s \in gone THEN Stack!None ELSE ctr[s]]
<1>1. /\ v \in StackVerbTypes /\ v.pc = "sweep" /\ (v.alone => VerbOK(v, ctr))
      /\ ctr \in [StackServices -> StackContainers]
  BY VerbIs DEF Stack!Sweep, Stack!At
<1>2. Stack!Goes(p, w, c)
  BY DEF Stack!Sweep
<1>3. /\ w \in StackVerbTypes /\ w.pc = next /\ w.alone = v.alone /\ w.kind = v.kind
      /\ w.wanted = v.wanted /\ w.before = v.before /\ w.conf = v.conf /\ w.extra = v.extra
      /\ w.by = v.by /\ (w.kind = "down" => next = "compose") /\ (w.kind # "down" => next = "strand")
  BY <1>1 DEF StackVerbTypes, StackPcs
<1>4. c \in [StackServices -> StackContainers]
  BY <1>1, StackValues
<1>5. v.doomed = ForeignIn(ctr, v.by) => ForeignIn(c, v.by) = {}
  BY <1>1 DEF ForeignIn, Stack!Present
<1> HIDE DEF v, w, c, gone, next
<1>6. Wholesale(w) = Wholesale(v) /\ KeepsTheRest(w) = KeepsTheRest(v)
  BY <1>3 DEF Wholesale, KeepsTheRest
<1>7. ASSUME w.alone PROVE VerbOK(w, c)
  <2>1. /\ ForeignIn(c, w.by) = {}
        /\ v.kind = "down" \/ (Wholesale(v) /\ KeepsTheRest(v))
    BY <1>1, <1>3, <1>5, <1>7 DEF VerbOK
  <2>2. CASE w.kind = "down"
    BY <1>3, <2>1, <2>2 DEF VerbOK, ReadyToCompose
  <2>3. CASE w.kind # "down"
    BY <1>3, <1>6, <2>1, <2>3 DEF VerbOK, Ours
  <2> QED BY <2>2, <2>3
<1> QED BY <1>2, <1>3, <1>4, <1>7, VerbGoes

(* The dependents that would be stranded, once cleared away, strand no     *)
(* others.                                                                 *)
LEMMA ClearedStrandNoMore ==
  ASSUME NEW c \in [StackServices -> StackContainers], NEW k, NEW r, NEW by
  PROVE  LET gone == StrandedIn(c, k, r, by)
             after == [s \in StackServices |-> IF s \in gone THEN Stack!None ELSE c[s]]
         IN  StrandedIn(after, k, r, by) = {}
<1> DEFINE gone == StrandedIn(c, k, r, by)
           after == [s \in StackServices |-> IF s \in gone THEN Stack!None ELSE c[s]]
           changed == ChangedIn(c, k, r, by)
           down == Stack!TakenDown(changed, r)
<1>1. gone = (down \cap SeenIn(c, by)) \ (changed \cup {s \in down : c[s].at = "running"})
  BY DEF StrandedIn
<1>2. \A s \in StackServices : after[s] = IF s \in gone THEN Stack!None ELSE c[s]
  OBVIOUS
<1>3. \A s : s \in changed => s \in r /\ s \in SeenIn(c, by) /\ c[s].hash # Stack!Hash(k, s)
             /\ s \notin gone
  BY <1>1 DEF ChangedIn
<1> HIDE DEF after, gone
<1>4. \A s : s \in SeenIn(after, by) <=> s \in SeenIn(c, by) /\ s \notin gone
  BY <1>2 DEF SeenIn, Stack!Present
<1>5. \A s \in SeenIn(c, by) : s \in StackServices
  BY DEF SeenIn, Stack!Present
<1>6. ChangedIn(after, k, r, by) = changed
  BY <1>2, <1>3, <1>4, <1>5 DEF ChangedIn
<1>7. StrandedIn(after, k, r, by)
        = (down \cap SeenIn(after, by)) \ (changed \cup {s \in down : after[s].at = "running"})
  BY <1>6 DEF StrandedIn
<1> HIDE DEF changed, down
<1>8. StrandedIn(after, k, r, by) = {}
  BY <1>1, <1>2, <1>4, <1>5, <1>7
<1> QED BY <1>8 DEF after, gone

LEMMA ListStrandedStep ==
  ASSUME StackInv, NEW p \in StackCallers, Stack!ListStranded(p)
  PROVE  StackInv'
<1> DEFINE v == verb[p]
           rendered == Stack!Rendered(v.conf, v.extra)
           found == IF v.by = "podman" THEN StrandedIn(ctr, v.conf, rendered, v.by) ELSE {}
           w == [v EXCEPT !.pc = "clear", !.doomed = found]
           l == [v EXCEPT !.pc = "clear"]
<1>1. /\ v \in StackVerbTypes /\ v.pc = "strand" /\ (v.alone => VerbOK(v, ctr))
      /\ ctr \in [StackServices -> StackContainers]
  BY VerbIs DEF Stack!ListStranded, Stack!At
<1>2. Stack!Steps(p, w) \/ Stack!Goes(p, Stack!Spoilt(l), ctr)
  BY StrandedAsTheyAre DEF Stack!ListStranded
<1>3. found \in SUBSET StackServices
  BY DEF StrandedIn, SeenIn, Stack!Present
<1> HIDE DEF found
<1>4. /\ w \in StackVerbTypes /\ l \in StackVerbTypes /\ w.pc = "clear" /\ w.alone = v.alone
      /\ w.doomed = found /\ w.kind = v.kind /\ w.wanted = v.wanted
      /\ w.before = v.before /\ w.conf = v.conf /\ w.extra = v.extra /\ w.by = v.by
  BY <1>1, <1>3 DEF StackVerbTypes, StackPcs
<1>5. found = IF w.by = "podman" THEN StrandedIn(ctr, w.conf, Stack!Rendered(w.conf, w.extra), w.by) ELSE {}
  BY <1>4 DEF found
<1> HIDE DEF v, w, l
<1>6. Wholesale(w) = Wholesale(v) /\ KeepsTheRest(w) = KeepsTheRest(v)
  BY <1>4 DEF Wholesale, KeepsTheRest
<1>7. w.alone => VerbOK(w, ctr)
  BY <1>1, <1>4, <1>5, <1>6 DEF VerbOK, Ours
<1> QED BY <1>1, <1>2, <1>4, <1>7, VerbSteps, VerbSpoilt

LEMMA ClearStep ==
  ASSUME StackInv, NEW p \in StackCallers, Stack!Clear(p)
  PROVE  StackInv'
<1> DEFINE v == verb[p]
           w == [v EXCEPT !.pc = "compose", !.doomed = {}]
           c == [s \in StackServices |-> IF s \in v.doomed THEN Stack!None ELSE ctr[s]]
<1>1. /\ v \in StackVerbTypes /\ v.pc = "clear" /\ (v.alone => VerbOK(v, ctr))
      /\ ctr \in [StackServices -> StackContainers]
  BY VerbIs DEF Stack!Clear, Stack!At
<1>2. Stack!Goes(p, w, c)
  BY DEF Stack!Clear
<1>3. /\ w \in StackVerbTypes /\ w.pc = "compose" /\ w.alone = v.alone /\ w.kind = v.kind
      /\ w.wanted = v.wanted /\ w.before = v.before /\ w.conf = v.conf /\ w.extra = v.extra
      /\ w.by = v.by
  BY <1>1 DEF StackVerbTypes, StackPcs
<1>4. c \in [StackServices -> StackContainers]
  BY <1>1, StackValues
<1>5. ForeignIn(ctr, v.by) = {} => ForeignIn(c, v.by) = {}
  BY <1>1 DEF ForeignIn, Stack!Present
<1>6. v.doomed = StrandedIn(ctr, v.conf, Stack!Rendered(v.conf, v.extra), v.by) =>
        StrandedIn(c, v.conf, Stack!Rendered(v.conf, v.extra), v.by) = {}
  BY <1>1, ClearedStrandNoMore
<1> HIDE DEF v, w, c
<1>7. Wholesale(w) = Wholesale(v) /\ KeepsTheRest(w) = KeepsTheRest(v)
  BY <1>3 DEF Wholesale, KeepsTheRest
<1>8. ASSUME w.alone PROVE VerbOK(w, c)
  <2>1. Ours(v, ctr) /\ (v.by = "podman" =>
          v.doomed = StrandedIn(ctr, v.conf, Stack!Rendered(v.conf, v.extra), v.by))
    BY <1>1, <1>3, <1>8 DEF VerbOK
  <2>2. Ours(w, c)
    BY <2>1, <1>3, <1>5, <1>7 DEF Ours
  <2>3. ReadyToCompose(w, c)
    BY <2>1, <2>2, <1>3, <1>6 DEF ReadyToCompose
  <2> QED BY <1>3, <2>3 DEF VerbOK
<1> QED BY <1>2, <1>3, <1>4, <1>8, VerbGoes

LEMMA ListOrphansStep ==
  ASSUME StackInv, NEW p \in StackCallers, Stack!ListOrphans(p)
  PROVE  StackInv'
<1> DEFINE v == verb[p]
           orphans == Stack!Present(ctr) \ Stack!Rendered(v.conf, v.extra)
           w == [v EXCEPT !.pc = "reap", !.doomed = orphans]
           l == [v EXCEPT !.pc = "done"]
<1>1. /\ v \in StackVerbTypes /\ v.pc = "orphans" /\ (v.alone => VerbOK(v, ctr))
      /\ ctr \in [StackServices -> StackContainers]
  BY VerbIs DEF Stack!ListOrphans, Stack!At
<1>2. Stack!Steps(p, w) \/ Stack!Goes(p, Stack!Spoilt(l), ctr)
  BY DEF Stack!ListOrphans
<1>3. orphans \in SUBSET StackServices /\ orphans \cap Stack!Rendered(v.conf, v.extra) = {}
  BY DEF Stack!Present
<1> HIDE DEF orphans
<1>4. /\ w \in StackVerbTypes /\ l \in StackVerbTypes /\ w.pc = "reap" /\ w.alone = v.alone
      /\ w.doomed = orphans /\ w.kind = v.kind /\ w.wanted = v.wanted /\ w.ok = v.ok
      /\ w.before = v.before /\ w.conf = v.conf /\ w.extra = v.extra /\ w.by = v.by
  BY <1>1, <1>3 DEF StackVerbTypes, StackPcs
<1>5. w.doomed \cap Stack!Rendered(w.conf, w.extra) = {}
  BY <1>3, <1>4
<1> HIDE DEF v, w, l
<1>6. /\ Wholesale(w) = Wholesale(v) /\ KeepsTheRest(w) = KeepsTheRest(v)
      /\ RunsAsRendered(w, ctr) = RunsAsRendered(v, ctr)
  BY <1>4 DEF Wholesale, KeepsTheRest, RunsAsRendered
<1>7. w.alone => VerbOK(w, ctr)
  BY <1>1, <1>4, <1>5, <1>6 DEF VerbOK
<1> QED BY <1>1, <1>2, <1>4, <1>7, VerbSteps, VerbSpoilt

LEMMA ReapStep ==
  ASSUME StackInv, NEW p \in StackCallers, Stack!Reap(p)
  PROVE  StackInv'
<1> DEFINE v == verb[p]
           w == [v EXCEPT !.pc = "done", !.doomed = {}]
           c == [s \in StackServices |-> IF s \in v.doomed THEN Stack!None ELSE ctr[s]]
<1>1. /\ v \in StackVerbTypes /\ v.pc = "reap" /\ (v.alone => VerbOK(v, ctr))
      /\ ctr \in [StackServices -> StackContainers]
  BY VerbIs DEF Stack!Reap, Stack!At
<1>2. Stack!Goes(p, w, c)
  BY DEF Stack!Reap
<1>3. /\ w \in StackVerbTypes /\ w.pc = "done" /\ w.alone = v.alone /\ w.kind = v.kind
      /\ w.wanted = v.wanted /\ w.before = v.before /\ w.conf = v.conf /\ w.extra = v.extra
      /\ w.by = v.by /\ w.ok = v.ok
  BY <1>1 DEF StackVerbTypes, StackPcs
<1>4. c \in [StackServices -> StackContainers]
  BY <1>1, StackValues
<1>5. v.doomed \cap Stack!Rendered(v.conf, v.extra) = {} /\ RunsAsRendered(v, ctr) => RunsAsRendered(v, c)
  BY <1>1 DEF RunsAsRendered, Stack!Rendered
<1> HIDE DEF v, w, c
<1>6. /\ Wholesale(w) = Wholesale(v) /\ KeepsTheRest(w) = KeepsTheRest(v)
      /\ RunsAsRendered(w, c) = RunsAsRendered(v, c)
  BY <1>3 DEF Wholesale, KeepsTheRest, RunsAsRendered
<1>7. ASSUME w.alone PROVE VerbOK(w, c)
  <2>1. Wholesale(w) /\ KeepsTheRest(w) /\ w.ok /\ RunsAsRendered(w, c)
    BY <1>1, <1>3, <1>5, <1>6, <1>7 DEF VerbOK
  <2>2. Delivers(w, c)
    BY <2>1 DEF Delivers, Wholesale
  <2> QED BY <1>3, <2>2 DEF VerbOK
<1> QED BY <1>2, <1>3, <1>4, <1>7, VerbGoes

LEMMA PostureStep ==
  ASSUME StackInv, NEW p \in StackCallers, Stack!Posture(p)
  PROVE  StackInv'
<1> DEFINE v == verb[p]
           wanted == StackManaged \cap Stack!Rendered(v.conf, {})
           stale == (StackManaged \cap Stack!Running(ctr)) \ wanted
           next == IF wanted = {} THEN "done" ELSE "compose"
           w == [v EXCEPT !.pc = next, !.wanted = wanted]
           c == [s \in StackServices |-> IF s \in stale THEN Stack!None ELSE ctr[s]]
<1>1. /\ v \in StackVerbTypes /\ v.pc = "posture" /\ (v.alone => VerbOK(v, ctr))
      /\ ctr \in [StackServices -> StackContainers]
  BY VerbIs DEF Stack!Posture, Stack!At
<1>2. Stack!Goes(p, w, c)
  BY DEF Stack!Posture
<1>3. wanted \subseteq StackManaged /\ wanted \in SUBSET StackServices
  BY DEF Stack!Rendered
<1>4. c \in [StackServices -> StackContainers]
  BY <1>1, StackValues
<1>5. Stack!Running(c) \subseteq Stack!Running(ctr)
  <2>1. Stack!None.at = "none"
    BY DEF Stack!None
  <2> QED BY <2>1 DEF Stack!Running
<1>6. /\ next \in StackPcs
      /\ (next = "done" /\ wanted = {}) \/ (next = "compose" /\ wanted # {})
  <2> HIDE DEF wanted
  <2> QED BY DEF StackPcs
<1> HIDE DEF wanted, c, next
<1>7. /\ w \in StackVerbTypes /\ w.pc = next /\ w.alone = v.alone /\ w.kind = v.kind
      /\ w.wanted = wanted /\ w.before = v.before
  BY <1>1, <1>3, <1>6 DEF StackVerbTypes
<1> HIDE DEF v, w
<1>8. ASSUME w.alone PROVE VerbOK(w, c)
  <2>1. ModesOwn(v, ctr) /\ v.wanted = {} /\ v.before = ctr
    BY <1>1, <1>7, <1>8 DEF VerbOK
  <2>2. ModesOwn(w, c)
    BY <2>1, <1>3, <1>5, <1>7 DEF ModesOwn
  <2>3. ReadyToCompose(w, c) \/ w.wanted = {}
    BY <2>2 DEF ReadyToCompose
  <2>4. Delivers(w, c)
    BY <2>2 DEF ModesOwn, Delivers
  <2> QED BY <1>6, <1>7, <2>3, <2>4 DEF VerbOK
<1> QED BY <1>2, <1>4, <1>7, <1>8, VerbGoes

-----------------------------------------------------------------------------
(* What the compose client makes of the services it is given.              *)
LEMMA PlanIsOfTheNamed ==
  ASSUME NEW v, NEW services
  PROVE  LET plan == Stack!Plan(v, services) IN
         /\ plan.named = Stack!WithDependencies(services)
         /\ plan.down \subseteq plan.named /\ plan.made \subseteq plan.named
<1> DEFINE named == Stack!WithDependencies(services)
           changed == Stack!Changed(v.conf, named, v.by)
           taken == Stack!TakenDown(changed, named)
           again == IF v.by = "podman" THEN Stack!Recreated(changed, named) ELSE changed
<1>1. changed \subseteq named
  BY DEF Stack!Changed
<1>2. taken \subseteq named
  BY DEF Stack!TakenDown
<1>3. again \subseteq named
  BY <1>1, <1>2 DEF Stack!Recreated
<1>4. /\ Stack!Plan(v, services).named = named
      /\ Stack!Plan(v, services).down = IF v.by = "podman" THEN taken \cap Stack!Present(ctr) ELSE changed
      /\ Stack!Plan(v, services).made \subseteq (named \ Stack!Present(ctr)) \cup again
  BY DEF Stack!Plan
<1> HIDE DEF named, changed, taken, again
<1> QED BY <1>1, <1>2, <1>3, <1>4 DEF named

LEMMA UpType ==
  ASSUME NEW v \in StackVerbTypes, NEW plan,
         ctr \in [StackServices -> StackContainers]
  PROVE  Stack!Up(v, plan) \in [StackServices -> StackContainers]
<1>1. v.by \in StackMakers /\ v.conf \in StackModes \cup {""}
  BY DEF StackVerbTypes
<1>2. \A s : Stack!Container("running", Stack!Hash(v.conf, s), v.by) \in StackContainers
  BY <1>1 DEF StackContainers, Stack!Container, Stack!Hash, StackStates
<1>3. \A s \in StackServices : [ctr[s] EXCEPT !.at = "running"] \in StackContainers
  BY StackValues DEF StackStates
<1> QED BY <1>2, <1>3, StackValues DEF Stack!Up

(* Nothing but the named services, and what they need, is touched.         *)
LEMMA UpStartsTheNamed ==
  ASSUME NEW v, NEW services
  PROVE  Stack!Running(Stack!Up(v, Stack!Plan(v, services)))
           \subseteq Stack!Running(ctr) \cup Stack!WithDependencies(services)
<1> DEFINE plan == Stack!Plan(v, services)
<1>1. plan.named = Stack!WithDependencies(services) /\ plan.down \subseteq plan.named
      /\ plan.made \subseteq plan.named
  BY PlanIsOfTheNamed
<1> HIDE DEF plan
<1>2. \A s \in StackServices : s \notin plan.named => Stack!Up(v, plan)[s] = ctr[s]
  BY <1>1 DEF Stack!Up
<1>3. Stack!Running(Stack!Up(v, plan)) \subseteq Stack!Running(ctr) \cup Stack!WithDependencies(services)
  BY <1>1, <1>2 DEF Stack!Running
<1> QED BY <1>3 DEF plan

(* With no container of another provider, and no dependent to strand, the  *)
(* whole render comes up.                                                  *)
LEMMA UpBringsTheWhole ==
  ASSUME NEW v, ctr \in [StackServices -> StackContainers], v.wanted = {}, ForeignIn(ctr, v.by) = {},
         v.by = "podman" => StrandedIn(ctr, v.conf, Stack!Rendered(v.conf, v.extra), v.by) = {}
  PROVE  LET plan == Stack!Plan(v, Stack!Composed(v)) IN
         ~plan.taken /\ plan.ok /\ RunsAsRendered(v, Stack!Up(v, plan))
<1> DEFINE named == Stack!Rendered(v.conf, v.extra)
           changed == Stack!Changed(v.conf, named, v.by)
           dropped == Stack!TakenDown(changed, named)
           down == IF v.by = "podman" THEN dropped \cap Stack!Present(ctr) ELSE changed
           again == IF v.by = "podman" THEN Stack!Recreated(changed, named) ELSE changed
           wanting == (named \ Stack!Present(ctr)) \cup again
           plan == Stack!Plan(v, Stack!Composed(v))
<1>1. Stack!Composed(v) = named /\ Stack!WithDependencies(named) = named
  BY RenderedIsWhole DEF Stack!Composed
<1>2. /\ plan.named = named /\ plan.down = down
      /\ plan.made = wanting \ Stack!Downstream(down \ again)
      /\ plan.ok = (plan.made = wanting)
      /\ plan.taken = \E s \in named \cap Stack!Present(ctr) : ctr[s].by # v.by
  BY <1>1 DEF Stack!Plan
<1>3. /\ \A s \in Stack!Present(ctr) : ctr[s].by = v.by
      /\ SeenIn(ctr, v.by) = Stack!Present(ctr)
  BY DEF ForeignIn, SeenIn
<1>4. changed = ChangedIn(ctr, v.conf, named, v.by)
  BY AsTheContainersAre
<1>5. down \ again = {}
  <2>1. CASE v.by = "podman"
    <3>1. (dropped \cap SeenIn(ctr, v.by)) \ (changed \cup {s \in dropped : ctr[s].at = "running"}) = {}
      BY <1>4, <2>1 DEF StrandedIn
    <3>2. down = dropped \cap Stack!Present(ctr) /\ again = Stack!Recreated(changed, named)
      BY <2>1
    <3>3. Stack!Recreated(changed, named) = changed \cup (dropped \cap {s \in Stack!Present(ctr) : ctr[s].at = "running"})
      BY DEF Stack!Recreated
    <3> HIDE DEF changed, dropped, down, again
    <3> QED BY <3>1, <3>2, <3>3, <1>3
  <2>2. CASE v.by # "podman"
    BY <2>2
  <2> QED BY <2>1, <2>2
<1>6. /\ again \subseteq wanting /\ named \ Stack!Present(ctr) \subseteq wanting
      /\ changed \subseteq again
  BY DEF Stack!Recreated
<1>61. again \subseteq down
  <2>1. changed \subseteq named /\ changed \subseteq Stack!Present(ctr)
    BY <1>3, <1>4 DEF ChangedIn
  <2>2. changed \subseteq dropped
    BY <2>1 DEF Stack!TakenDown
  <2> HIDE DEF changed, dropped
  <2> QED BY <2>1, <2>2 DEF Stack!Recreated
<1>62. wanting \subseteq (named \ Stack!Present(ctr)) \cup down
  BY <1>61
<1>7. \A s \in named : s \in Stack!Present(ctr) /\ s \notin changed => ctr[s].hash = Stack!Hash(v.conf, s)
  BY <1>3, <1>4 DEF ChangedIn
<1>8. named \subseteq StackServices
  BY DEF Stack!Rendered
<1> HIDE DEF named, changed, dropped, down, again, wanting, plan
<1>9. plan.made = wanting /\ plan.ok /\ ~plan.taken
  BY <1>2, <1>3, <1>5, EmptyDownstream
<1>10. ASSUME NEW s \in named
       PROVE  Stack!Up(v, plan)[s] = Stack!Container("running", Stack!Hash(v.conf, s), v.by)
  <2>0. s \in StackServices
    BY <1>8, <1>10
  <2>1. CASE s \in plan.made
    <3>1. s \notin plan.down \ plan.made /\ s \notin (plan.named \cap Stack!Present(ctr)) \ plan.down
      BY <1>2, <1>9, <1>62, <2>1
    <3> QED BY <2>0, <2>1, <3>1 DEF Stack!Up
  <2>2. CASE s \notin plan.made
    <3>1. s \in Stack!Present(ctr) /\ s \notin plan.down /\ s \notin changed
      BY <1>2, <1>5, <1>6, <1>9, <1>10, <2>2
    <3>2. Stack!Up(v, plan)[s] = [ctr[s] EXCEPT !.at = "running"]
      BY <1>2, <1>10, <2>0, <2>2, <3>1 DEF Stack!Up
    <3>3. ctr[s].hash = Stack!Hash(v.conf, s) /\ ctr[s].by = v.by
      BY <1>3, <1>7, <1>10, <3>1
    <3>4. ctr[s] \in StackContainers
      BY <2>0
    <3> QED BY <3>2, <3>3, <3>4 DEF Stack!Container, StackContainers
  <2> QED BY <2>1, <2>2
<1>11. RunsAsRendered(v, Stack!Up(v, plan))
  BY <1>10 DEF RunsAsRendered, named
<1> QED BY <1>9, <1>11 DEF plan

LEMMA ComposeUpStep ==
  ASSUME StackInv, NEW p \in StackCallers, Stack!ComposeUp(p)
  PROVE  StackInv'
<1> DEFINE v == verb[p]
           next == IF v.kind = "reconcile" /\ v.wanted = {} THEN "orphans" ELSE "done"
           plan == Stack!Plan(v, Stack!Composed(v))
           came == Stack!Up(v, plan)
           l == [v EXCEPT !.pc = "done", !.ok = FALSE]
           w == [v EXCEPT !.ok = plan.ok, !.pc = IF plan.ok THEN next ELSE "done"]
           gone == {s \in plan.down : ~plan.taken}
           c == [s \in StackServices |-> IF s \in gone THEN Stack!None ELSE ctr[s]]
<1>1. /\ v \in StackVerbTypes /\ v.pc = "compose" /\ (v.alone => VerbOK(v, ctr))
      /\ ctr \in [StackServices -> StackContainers] /\ v.kind \in {"up", "reconcile"}
  BY VerbIs DEF Stack!ComposeUp, Stack!At
<1>2. \/ plan.taken /\ Stack!Steps(p, l)
      \/ ~plan.taken /\ Stack!Goes(p, w, came)
      \/ Stack!Goes(p, Stack!Spoilt(l), c)
  BY DEF Stack!ComposeUp
<1>3. plan.ok \in BOOLEAN
  BY DEF Stack!Plan
<1>4. came \in [StackServices -> StackContainers] /\ c \in [StackServices -> StackContainers]
  BY <1>1, UpType, StackValues
<1>5. next \in {"orphans", "done"}
      /\ (next = "orphans" => v.kind = "reconcile" /\ v.wanted = {})
      /\ (next = "done" => v.kind # "reconcile" \/ v.wanted # {})
  OBVIOUS
<1>6. Ours(v, ctr) /\ (v.by = "podman" => StrandedIn(ctr, v.conf, Stack!Rendered(v.conf, v.extra), v.by) = {})
        => ~plan.taken /\ plan.ok /\ RunsAsRendered(v, came)
  BY <1>1, UpBringsTheWhole DEF Ours, Wholesale
<1>7. v.wanted # {} /\ v.wanted \subseteq StackManaged
        => Stack!Running(came) \subseteq Stack!Running(ctr) \cup Stack!WithDependencies(StackManaged)
  <2>1. v.wanted # {} => Stack!Composed(v) = v.wanted
    BY DEF Stack!Composed
  <2>2. v.wanted \subseteq StackManaged =>
          Stack!WithDependencies(v.wanted) \subseteq Stack!WithDependencies(StackManaged)
    BY DEF Stack!WithDependencies
  <2> QED BY <2>1, <2>2, UpStartsTheNamed
<1> HIDE DEF next, plan, came, c
<1>8. /\ w \in StackVerbTypes /\ l \in StackVerbTypes /\ w.alone = v.alone /\ w.ok = plan.ok
      /\ w.pc = (IF plan.ok THEN next ELSE "done") /\ w.kind = v.kind /\ w.wanted = v.wanted
      /\ w.before = v.before /\ w.conf = v.conf /\ w.extra = v.extra /\ w.by = v.by
      /\ l.pc = "done" /\ l.alone = v.alone /\ l.kind = v.kind /\ l.wanted = v.wanted
      /\ l.before = v.before
  BY <1>1, <1>3, <1>5 DEF StackVerbTypes, StackPcs
<1> HIDE DEF v, w, l
<1>9. v.alone => \/ Ours(v, ctr) /\ ~plan.taken /\ plan.ok /\ RunsAsRendered(v, came)
                 \/ ModesOwn(v, ctr) /\ v.wanted # {}
  <2>1. v.alone => ReadyToCompose(v, ctr)
    BY <1>1 DEF VerbOK
  <2> QED BY <2>1, <1>1, <1>6 DEF ReadyToCompose
<1>10. CASE plan.taken /\ Stack!Steps(p, l)
  <2>1. ASSUME l.alone PROVE VerbOK(l, ctr)
    <3>1. ModesOwn(l, ctr) /\ l.wanted # {}
      BY <1>8, <1>9, <1>10, <2>1 DEF ModesOwn
    <3>2. Delivers(l, ctr)
      BY <3>1 DEF Delivers, ModesOwn
    <3> QED BY <1>8, <3>2 DEF VerbOK
  <2> QED BY <1>8, <1>10, <2>1, VerbSteps
<1>11. CASE ~plan.taken /\ Stack!Goes(p, w, came)
  <2>1. ASSUME w.alone PROVE VerbOK(w, came)
    <3>1. CASE Ours(v, ctr) /\ plan.ok /\ RunsAsRendered(v, came)
      <4>1. Wholesale(w) /\ KeepsTheRest(w) /\ w.ok /\ RunsAsRendered(w, came) /\ w.pc = next
        BY <1>8, <3>1 DEF Ours, Wholesale, KeepsTheRest, RunsAsRendered
      <4>2. Delivers(w, came)
        BY <4>1 DEF Delivers, Wholesale
      <4> QED BY <1>5, <4>1, <4>2 DEF VerbOK
    <3>2. CASE ModesOwn(v, ctr) /\ v.wanted # {}
      <4>1. w.pc = "done"
        BY <1>5, <1>8, <3>2 DEF ModesOwn
      <4>2. ModesOwn(w, came) /\ w.wanted # {}
        BY <1>7, <1>8, <3>2 DEF ModesOwn
      <4>3. Delivers(w, came)
        BY <4>2 DEF Delivers, ModesOwn
      <4> QED BY <4>1, <4>3 DEF VerbOK
    <3> QED BY <1>8, <1>9, <2>1, <3>1, <3>2
  <2> QED BY <1>4, <1>8, <1>11, <2>1, VerbGoes
<1>12. CASE Stack!Goes(p, Stack!Spoilt(l), c)
  BY <1>4, <1>8, <1>12, VerbSpoilt
<1> QED BY <1>2, <1>10, <1>11, <1>12

LEMMA ComposeDownStep ==
  ASSUME StackInv, NEW p \in StackCallers, Stack!ComposeDown(p)
  PROVE  StackInv'
<1> DEFINE v == verb[p]
           w == [v EXCEPT !.pc = "done"]
           c == [s \in StackServices |-> IF s \in Stack!Seen(v.by) THEN Stack!None ELSE ctr[s]]
<1>1. /\ v \in StackVerbTypes /\ v.pc = "compose" /\ (v.alone => VerbOK(v, ctr))
      /\ ctr \in [StackServices -> StackContainers] /\ v.kind = "down"
  BY VerbIs DEF Stack!ComposeDown, Stack!At
<1>2. Stack!Goes(p, w, c)
  BY DEF Stack!ComposeDown
<1>3. w \in StackVerbTypes /\ w.pc = "done" /\ w.alone = v.alone /\ w.kind = "down"
  BY <1>1 DEF StackVerbTypes, StackPcs
<1>4. c \in [StackServices -> StackContainers]
  BY <1>1, StackValues
<1>5. ForeignIn(ctr, v.by) = {} => Stack!Present(c) = {}
  BY DEF ForeignIn, Stack!Seen, Stack!Present
<1> HIDE DEF v, w, c
<1>6. ASSUME w.alone PROVE VerbOK(w, c)
  <2>1. ReadyToCompose(v, ctr)
    BY <1>1, <1>3, <1>6 DEF VerbOK
  <2>2. Stack!Present(c) = {}
    BY <2>1, <1>1, <1>5 DEF ReadyToCompose, Ours, Wholesale, ModesOwn
  <2> QED BY <1>3, <2>2 DEF VerbOK, Delivers
<1> QED BY <1>2, <1>3, <1>4, <1>6, VerbGoes

LEMMA PickStep ==
  ASSUME StackInv, NEW p \in StackCallers, Stack!Pick(p)
  PROVE  StackInv'
<1> DEFINE v == verb[p]
           ranHere == Stack!Running(ctr) \cap Stack!Seen(v.by)
           picked == v.wanted \cap (ranHere \cup Stack!Crashed(v.by))
           extra == Stack!Extra(v.conf, ranHere \cup (picked \cap Stack!Crashed(v.by)))
           wanted == picked \cap Stack!Rendered(v.conf, extra)
           next == IF wanted = {} THEN "done" ELSE "force"
           w == [v EXCEPT !.wanted = wanted, !.extra = extra, !.pc = next]
           l == [v EXCEPT !.pc = "done", !.ok = FALSE]
<1>1. /\ v \in StackVerbTypes /\ v.pc = "pick" /\ (v.alone => VerbOK(v, ctr))
      /\ ctr \in [StackServices -> StackContainers]
  BY VerbIs DEF Stack!Pick, Stack!At
<1>2. Stack!Steps(p, w) \/ Stack!Goes(p, Stack!Spoilt(l), ctr)
  BY DEF Stack!Pick
<1>3. extra \in SUBSET {StackProfile[s] : s \in StackServices}
  BY DEF Stack!Extra, Stack!Running, Stack!Crashed, Stack!Seen, Stack!Present
<1>4. /\ wanted \subseteq Stack!Running(ctr) \cup CrashedIn(ctr, v.by)
      /\ wanted \in SUBSET StackServices
  BY AsTheContainersAre DEF Stack!Rendered
<1>5. next \in {"done", "force"}
  OBVIOUS
<1> HIDE DEF wanted, extra, next
<1>6. /\ w \in StackVerbTypes /\ l \in StackVerbTypes /\ w.pc = next /\ w.alone = v.alone
      /\ w.kind = v.kind /\ w.wanted = wanted /\ w.before = v.before /\ w.by = v.by
  BY <1>1, <1>3, <1>4, <1>5 DEF StackVerbTypes, StackPcs
<1> HIDE DEF v, w, l
<1>7. ASSUME w.alone PROVE VerbOK(w, ctr)
  <2>1. w.before = ctr /\ w.kind = "heal"
    BY <1>1, <1>6, <1>7 DEF VerbOK
  <2>2. Delivers(w, ctr)
    BY <2>1 DEF Delivers
  <2> QED BY <1>4, <1>5, <1>6, <2>1, <2>2 DEF VerbOK
<1> QED BY <1>1, <1>2, <1>6, <1>7, VerbSteps, VerbSpoilt

LEMMA ForceStep ==
  ASSUME StackInv, NEW p \in StackCallers, Stack!Force(p)
  PROVE  StackInv'
<1> DEFINE v == verb[p]
           w == [v EXCEPT !.pc = "done"]
           l == [v EXCEPT !.pc = "done", !.ok = FALSE]
           c == [s \in StackServices |->
                  IF s \in v.wanted THEN Stack!Container("running", Stack!Hash(v.conf, s), v.by)
                  ELSE ctr[s]]
<1>1. /\ v \in StackVerbTypes /\ v.pc = "force" /\ (v.alone => VerbOK(v, ctr))
      /\ ctr \in [StackServices -> StackContainers]
  BY VerbIs DEF Stack!Force, Stack!At
<1>2. Stack!Steps(p, l) \/ Stack!Goes(p, w, c) \/ Stack!Goes(p, Stack!Spoilt(l), ctr)
  BY DEF Stack!Force
<1>3. c \in [StackServices -> StackContainers]
  <2>1. v.by \in StackMakers /\ v.conf \in StackModes \cup {""}
    BY <1>1 DEF StackVerbTypes
  <2> HIDE DEF v
  <2>2. \A s : Stack!Container("running", Stack!Hash(v.conf, s), v.by) \in StackContainers
    BY <2>1 DEF StackContainers, Stack!Container, Stack!Hash, StackStates
  <2> QED BY <1>1, <2>2
<1>4. \A s \in StackServices : s \notin v.wanted => c[s] = ctr[s]
  OBVIOUS
<1> HIDE DEF c
<1>5. /\ w \in StackVerbTypes /\ l \in StackVerbTypes /\ w.pc = "done" /\ w.alone = v.alone
      /\ w.kind = v.kind /\ w.before = v.before
      /\ l.pc = "done" /\ l.alone = v.alone /\ l.kind = v.kind /\ l.before = v.before
  BY <1>1 DEF StackVerbTypes, StackPcs
<1> HIDE DEF v, w, l
<1>6. v.alone => /\ v.before = ctr /\ v.kind = "heal"
                 /\ v.wanted \subseteq Stack!Running(ctr) \cup CrashedIn(ctr, v.by)
  BY <1>1 DEF VerbOK
<1>7. ASSUME w.alone PROVE VerbOK(w, c)
  <2>1. \A s \in v.wanted : ctr[s].at \in {"running", "crashed"}
    BY <1>5, <1>6, <1>7 DEF Stack!Running, CrashedIn
  <2>2. Delivers(w, c)
    BY <1>4, <1>5, <1>6, <1>7, <2>1 DEF Delivers
  <2> QED BY <1>5, <2>2 DEF VerbOK
<1>8. ASSUME l.alone PROVE VerbOK(l, ctr)
  BY <1>5, <1>6, <1>8 DEF VerbOK, Delivers
<1> QED BY <1>1, <1>2, <1>3, <1>5, <1>7, <1>8, VerbSteps, VerbGoes, VerbSpoilt

LEMMA FinishStep ==
  ASSUME StackInv, NEW p \in StackCallers, Stack!Finish(p)
  PROVE  StackInv'
<1>1. VerbOK(Stack!NoVerb, ctr) /\ Stack!NoVerb \in StackVerbTypes
  <2>1. Stack!NoVerb.pc = "none"
    BY DEF Stack!NoVerb
  <2> QED BY <2>1, NoVerbType DEF VerbOK
<1> QED BY <1>1, VerbSteps DEF Stack!Finish

(* A verb that begins has the containers before it.                        *)
LEMMA ResolveIs ==
  ASSUME StackTypes, NEW p, NEW kind \in {"up", "down", "heal", "reconcile"}
  PROVE  LET v == Stack!Resolve(p, kind) IN
         /\ v \in StackVerbTypes /\ v.kind = kind /\ v.before = ctr /\ v.wanted = {}
         /\ v.pc = CASE kind = "up" -> "look" [] kind = "reconcile" -> "isup"
                      [] kind = "heal" -> "pick" [] kind = "down" -> "foreign"
BY NoVerbType DEF Stack!Resolve, Stack!NoVerb, StackVerbTypes, StackTypes, StackPcs, StackMakers

LEMMA StackBeginStep ==
  ASSUME StackInv, NEW p \in StackCallers,
         Stack!Begin(p) \/ Stack!BeginHeal(p) \/ Stack!SetMode(p)
  PROVE  StackInv'
<1>0. StackTypes /\ UNCHANGED <<ctr, provider>>
  BY DEF StackInv, Stack!Begin, Stack!BeginHeal, Stack!SetMode
<1>1. conf' \in StackModes
  BY <1>0 DEF StackTypes, Stack!Begin, Stack!BeginHeal, Stack!SetMode
<1>2. PICK v \in StackVerbTypes :
        /\ v.before = ctr /\ v.pc \in {"look", "isup", "pick", "foreign"}
        /\ v.pc = "look" => v.kind = "up" /\ v.wanted = {}
        /\ v.pc = "isup" => v.kind = "reconcile" /\ v.wanted = {}
        /\ v.pc = "pick" => v.kind = "heal"
        /\ v.pc = "foreign" => v.kind = "down"
        /\ verb'[p] = v
        /\ \A q \in StackCallers : q # p => verb'[q] = verb[q] \/ verb'[q] = [verb[q] EXCEPT !.alone = FALSE]
        /\ verb' = [q \in StackCallers |-> verb'[q]]
  <2>1. CASE Stack!Begin(p)
    <3>1. PICK kind \in {"up", "down"} : verb' = [verb EXCEPT ![p] = Stack!Resolve(p, kind)]
      BY <2>1 DEF Stack!Begin
    <3> DEFINE v == Stack!Resolve(p, kind)
    <3>2. /\ v \in StackVerbTypes /\ v.kind = kind /\ v.before = ctr /\ v.wanted = {}
          /\ v.pc = IF kind = "up" THEN "look" ELSE "foreign"
      BY <1>0, <3>1, ResolveIs
    <3>3. verb'[p] = v /\ (\A q \in StackCallers : q # p => verb'[q] = verb[q])
          /\ verb' = [q \in StackCallers |-> verb'[q]]
      BY <1>0, <3>1 DEF StackTypes
    <3> HIDE DEF v
    <3> QED BY <3>1, <3>2, <3>3
  <2>2. CASE Stack!BeginHeal(p)
    <3>1. PICK s \in StackServices :
            verb' = [verb EXCEPT ![p] = [Stack!Resolve(p, "heal") EXCEPT !.wanted = {s}]]
      BY <2>2 DEF Stack!BeginHeal
    <3> DEFINE r == Stack!Resolve(p, "heal")
               v == [r EXCEPT !.wanted = {s}]
    <3>2. r \in StackVerbTypes /\ r.kind = "heal" /\ r.before = ctr /\ r.pc = "pick"
      BY <1>0, ResolveIs
    <3>3. verb'[p] = v /\ (\A q \in StackCallers : q # p => verb'[q] = verb[q])
          /\ verb' = [q \in StackCallers |-> verb'[q]]
      BY <1>0, <3>1 DEF StackTypes
    <3> HIDE DEF r
    <3>4. v \in StackVerbTypes /\ v.kind = "heal" /\ v.before = ctr /\ v.pc = "pick"
      BY <3>2 DEF StackVerbTypes
    <3> HIDE DEF v
    <3> QED BY <3>3, <3>4
  <2>3. CASE Stack!SetMode(p)
    <3>1. PICK k \in StackModes :
            verb' = [q \in StackCallers |->
              IF q = p THEN [Stack!Resolve(p, "reconcile") EXCEPT !.conf = k]
              ELSE [verb[q] EXCEPT !.alone = FALSE]]
      BY <2>3 DEF Stack!SetMode
    <3> DEFINE r == Stack!Resolve(p, "reconcile")
               v == [r EXCEPT !.conf = k]
    <3>2. r \in StackVerbTypes /\ r.kind = "reconcile" /\ r.before = ctr /\ r.pc = "isup" /\ r.wanted = {}
      BY <1>0, ResolveIs
    <3>3. verb'[p] = v /\ (\A q \in StackCallers : q # p => verb'[q] = [verb[q] EXCEPT !.alone = FALSE])
          /\ verb' = [q \in StackCallers |-> verb'[q]]
      BY <3>1
    <3> HIDE DEF r
    <3>4. v \in StackVerbTypes /\ v.kind = "reconcile" /\ v.before = ctr /\ v.pc = "isup" /\ v.wanted = {}
      BY <3>2 DEF StackVerbTypes
    <3> HIDE DEF v
    <3> QED BY <3>3, <3>4
  <2> QED BY <2>1, <2>2, <2>3
<1>3. VerbOK(v, ctr)
  BY <1>2 DEF VerbOK, Wholesale
<1>4. ASSUME NEW q \in StackCallers
      PROVE  verb'[q] \in StackVerbTypes /\ (verb'[q].alone => VerbOK(verb'[q], ctr))
  <2>1. CASE q = p
    BY <1>2, <1>3, <2>1
  <2>2. CASE verb'[q] = verb[q]
    BY <2>2, VerbIs
  <2>3. CASE verb'[q] = [verb[q] EXCEPT !.alone = FALSE]
    <3>1. verb[q] \in StackVerbTypes
      BY VerbIs
    <3>2. verb'[q] \in StackVerbTypes
      BY <2>3, <3>1, SameVerbLeftBehind
    <3>3. ~verb'[q].alone
      BY <2>3, <3>1 DEF StackVerbTypes
    <3> QED BY <3>2, <3>3
  <2> QED BY <1>2, <2>1, <2>2, <2>3
<1>5. verb' \in [StackCallers -> StackVerbTypes]
  <2>1. verb' = [q \in StackCallers |-> verb'[q]]
    BY <1>2
  <2> QED BY <1>4, <2>1
<1>6. StackTypes'
  BY <1>0, <1>1, <1>5 DEF StackTypes
<1> QED BY <1>0, <1>4, <1>6 DEF StackInv

(* Whatever disturbs the stack, no verb under way is alone any more.       *)
LEMMA DisturbedStep ==
  ASSUME StackInv, NEW c \in [StackServices -> StackContainers], Stack!Disturbs(c),
         conf' \in StackModes, provider' \in StackProviders
  PROVE  StackInv'
<1>1. ctr' = c /\ verb' = [q \in StackCallers |-> [verb[q] EXCEPT !.alone = FALSE]]
  BY DEF Stack!Disturbs
<1>2. ASSUME NEW q \in StackCallers
      PROVE  [verb[q] EXCEPT !.alone = FALSE] \in StackVerbTypes /\ ~[verb[q] EXCEPT !.alone = FALSE].alone
  <2>1. verb[q] \in StackVerbTypes
    BY VerbIs
  <2> QED BY <2>1, SameVerbLeftBehind DEF StackVerbTypes
<1>3. StackTypes'
  BY <1>1, <1>2 DEF StackTypes
<1>4. \A q \in StackCallers : ~verb'[q].alone
  BY <1>1, <1>2
<1> QED BY <1>3, <1>4 DEF StackInv

LEMMA StackWorldStep ==
  ASSUME StackInv, Stack!World
  PROVE  StackInv'
<1>1. /\ ctr \in [StackServices -> StackContainers]
      /\ conf \in StackModes /\ provider \in StackProviders
  BY DEF StackInv, StackTypes
<1>2. ASSUME NEW s \in StackServices, NEW at \in {"crashed", "stopped"},
             Stack!Becomes(s, [ctr[s] EXCEPT !.at = at])
      PROVE  StackInv'
  <2>1. [ctr[s] EXCEPT !.at = at] \in StackContainers
    BY <1>1, StackValues DEF StackStates
  <2> QED BY <1>1, <1>2, <2>1, DisturbedStep DEF Stack!Becomes
<1>3. CASE Stack!Crash
  BY <1>2, <1>3 DEF Stack!Crash, Stack!Running
<1>4. CASE Stack!DeveloperStops
  BY <1>2, <1>4 DEF Stack!DeveloperStops, Stack!Running
<1>5. CASE Stack!DeveloperStarts
  <2>1. PICK s \in StackServices : Stack!Becomes(s, Stack!Container("running", Stack!Hash(conf, s), provider))
    BY <1>5 DEF Stack!DeveloperStarts
  <2>2. Stack!Container("running", Stack!Hash(conf, s), provider) \in StackContainers
    BY <1>1 DEF StackMakers, StackContainers, StackStates, Stack!Container, Stack!Hash
  <2> QED BY <1>1, <2>1, <2>2, DisturbedStep DEF Stack!Becomes
<1>6. CASE Stack!VMRestarts
  <2> DEFINE c == [s \in StackServices |-> IF ctr[s] = Stack!None THEN Stack!None
                                         ELSE [ctr[s] EXCEPT !.at = "stopped"]]
  <2>1. \A s \in StackServices : [ctr[s] EXCEPT !.at = "stopped"] \in StackContainers
    BY <1>1, StackValues DEF StackStates
  <2>2. c \in [StackServices -> StackContainers]
    BY <2>1, StackValues
  <2>3. Stack!Disturbs(c) /\ UNCHANGED <<conf, provider>>
    BY <1>6 DEF Stack!VMRestarts
  <2> HIDE DEF c
  <2> QED BY <1>1, <2>2, <2>3, DisturbedStep
<1>7. CASE Stack!ProviderSwitched
  BY <1>1, <1>7, DisturbedStep DEF Stack!ProviderSwitched
<1>8. CASE Stack!Edit
  BY <1>1, <1>8, DisturbedStep DEF Stack!Edit
<1> QED BY <1>3, <1>4, <1>5, <1>6, <1>7, <1>8 DEF Stack!World

-----------------------------------------------------------------------------
LEMMA StackInit == Stack!Init => StackInv
<1> SUFFICES ASSUME Stack!Init PROVE StackInv
  OBVIOUS
<1>1. conf \in StackModes /\ provider \in StackProviders /\ verb = [p \in StackCallers |-> Stack!NoVerb]
  BY DEF Stack!Init
<1>2. ctr \in [StackServices -> StackContainers]
  <2>1. Stack!Container("running", "base", provider) \in StackContainers
    BY <1>1 DEF Stack!Container, StackContainers, StackStates, StackMakers
  <2> QED BY <2>1, StackValues DEF Stack!Init
<1>3. StackTypes
  BY <1>1, <1>2, NoVerbType DEF StackTypes
<1>4. Stack!NoVerb.pc = "none"
  BY DEF Stack!NoVerb
<1>5. VerbOK(Stack!NoVerb, ctr)
  BY <1>4 DEF VerbOK
<1> QED BY <1>1, <1>3, <1>5 DEF StackInv

LEMMA StackNext == StackInv /\ [Stack!Next]_(Stack!vars) => StackInv'
<1> SUFFICES ASSUME StackInv, [Stack!Next]_(Stack!vars) PROVE StackInv'
  OBVIOUS
<1>1. ASSUME NEW p \in StackCallers, Stack!Step(p) PROVE StackInv'
  BY <1>1, StackBeginStep, IsUpStep, LookStep, StackBuildStep, ListForeignStep, StackSweepStep,
     ListStrandedStep, ClearStep, ListOrphansStep, ReapStep, PostureStep, ComposeUpStep,
     ComposeDownStep, PickStep, ForceStep, FinishStep DEF Stack!Step
<1>2. CASE UNCHANGED Stack!vars
  <2>1. UNCHANGED <<ctr, conf, provider, verb>>
    BY <1>2 DEF Stack!vars
  <2> QED BY <2>1 DEF StackInv, StackTypes
<1> QED BY <1>1, <1>2, StackWorldStep DEF Stack!Next

(* A verb of the compose stack that nothing else happened to does what it  *)
(* is for, from whatever the verbs, crashes and switches of provider       *)
(* before it left behind: an up, or the reconcile of a stack that runs,    *)
(* ends with all that is rendered running as rendered, a reconcile of one  *)
(* that does not starts nothing, a heal nothing that was stopped, and a    *)
(* down leaves nothing; for any stack, and any number of callers.          *)
THEOREM VerbsDoAsAsked == Stack!Spec => []VerbsAsAsked
<1>1. ASSUME StackInv, NEW p \in StackCallers, Stack!Delivered(p)
      PROVE  Delivers(verb[p], ctr)
  BY <1>1 DEF StackInv, VerbOK, Stack!Delivered, Stack!At
<1>2. StackInv => VerbsAsAsked
  <2> SUFFICES ASSUME StackInv PROVE Stack!UpLeavesItRunning /\ Stack!NothingStartsUnasked
    BY DEF VerbsAsAsked, Stack!VerbsAsAsked
  <2>1. Stack!UpLeavesItRunning
    <3> SUFFICES ASSUME NEW p \in StackCallers, Stack!Delivered(p),
                        verb[p].kind = "up" \/ (verb[p].kind = "reconcile" /\ verb[p].wanted = {}
                          /\ ~(Stack!Running(verb[p].before) \subseteq StackManaged))
                 PROVE  /\ verb[p].ok
                        /\ \A s \in Stack!Rendered(verb[p].conf, verb[p].extra) : Stack!AsRendered(verb[p], s)
                        /\ \A s \in Stack!Running(verb[p].before) :
                             s \in Stack!Running(ctr) \/ (StackProfile[s] # "" /\ verb[p].before[s].by # verb[p].by)
      BY DEF Stack!UpLeavesItRunning
    <3>1. verb[p].ok /\ KeepsTheRest(verb[p]) /\ RunsAsRendered(verb[p], ctr)
      BY <1>1 DEF Delivers
    <3>2. ASSUME NEW s \in Stack!Rendered(verb[p].conf, verb[p].extra) PROVE s \in Stack!Running(ctr)
      <4>1. ctr[s] = Stack!Container("running", Stack!Hash(verb[p].conf, s), verb[p].by)
        BY <3>1 DEF RunsAsRendered
      <4>2. s \in StackServices
        BY DEF Stack!Rendered
      <4>3. ctr[s].at = "running"
        BY <4>1 DEF Stack!Container
      <4> QED BY <4>2, <4>3 DEF Stack!Running
    <3> QED BY <3>1, <3>2 DEF KeepsTheRest, RunsAsRendered, Stack!AsRendered
  <2>2. Stack!NothingStartsUnasked
    BY <1>1 DEF Stack!NothingStartsUnasked, Delivers
  <2> QED BY <2>1, <2>2
<1> QED BY <1>2, StackInit, StackNext, PTL DEF Stack!Spec

-----------------------------------------------------------------------------
(* The two indexes.  What a path holds, a tree, an index, an offer and a   *)
(* command of the box.                                                     *)
GitValues == GitContents \cup {0}
GitTrees == [GitPaths -> GitValues]
GitTreesOrNone == GitTrees \cup {Git!NoTree}
GitIndexes == [tree : GitTrees, stat : {0, 1}]
GitIndexesOrNone == GitIndexes \cup {Git!NoTree}
GitAsked == [GitPaths -> SUBSET (GitValues \cup {Git!Nothing})]
GitCommits ==
  [parent : Nat, tree : GitTrees, by : {"start", "box", "host"}, asked : GitAsked, synced : BOOLEAN]
GitStaged == [{"box", "host", "seed"} -> [GitPaths -> GitValues \cup {Git!Nothing}]]
GitOffers ==
  [kind : {"record", "refused", "proposed"}, head : Nat, of : Nat,
   base : GitIndexesOrNone, tree : GitTreesOrNone]
GitPcs ==
  {"idle", "seed", "heal", "reset", "share", "install", "installed", "mark", "again", "run", "ref",
   "build", "seal", "land", "finish", "post", "propose"}
GitCommands ==
  [pc : GitPcs, sub : GitSubs, cur : Nat, tries : Int, ok : BOOLEAN, old : Nat, new : Nat,
   tree : GitTreesOrNone, build : GitTreesOrNone, base : GitIndexesOrNone, of : Nat,
   held : GitTreesOrNone, back : {"idle", "again"}, skipped : BOOLEAN, asked : GitAsked]

(* What the branch has had at each path, wherever it has been.             *)
Shown == [p \in GitPaths |-> {commits[c].tree[p] : c \in past}]
World == [past |-> past, shown |-> Shown, made |-> Len(commits)]
Grew(w, v) ==
  /\ w.past \subseteq v.past /\ w.made <= v.made
  /\ \A p \in GitPaths : w.shown[p] \subseteq v.shown[p]

(* An index u in the place of t spares what the branch never had; either   *)
(* may come in the other's place.                                          *)
Spares(w, t, u) == \A p \in GitPaths : u[p] = t[p] \/ t[p] \in w.shown[p]
Swaps(w, t, u) == Spares(w, t, u) /\ Spares(w, u, t)

(* The commits, and where the branch has been and is thought to be.        *)
RefsOK ==
  /\ commits \in Seq(GitCommits)
  /\ \A c \in 1..Len(commits) : commits[c].parent \in 0..Len(commits)
  /\ past \subseteq 1..Len(commits) /\ head \in past
  /\ {seen, sync, rec} \subseteq past \cup {0}
  /\ op \in BOOLEAN

IndexesOK ==
  /\ idx \in GitIndexes /\ ix \in GitTreesOrNone /\ staged \in GitStaged
  /\ rec # 0 => ix # Git!NoTree

(* An offer is about a HEAD that was; what it proposes may be installed    *)
(* over what it was built from.                                            *)
GoodOffers(w) ==
  {o \in GitOffers :
     /\ o.head \in w.past
     /\ o.kind = "proposed" =>
          o.base \in GitIndexes /\ o.tree \in GitTrees /\ Swaps(w, o.base.tree, o.tree)}

GitPasses ==
  [pc : {"pass", "written", "note", "drop"}, left : Seq(GitOffers), head : Nat,
   done : BOOLEAN, kept : GitIndexesOrNone]
TickOK(w, k, l, i) ==
  \/ k = Git!NoPass
  \/ /\ k \in GitPasses /\ k.head \in w.past /\ k.left \in Seq(GoodOffers(w))
     /\ k.pc # "pass" => k.left # <<>>
     /\ k.pc = "written" =>
          l = "tick" /\ k.kept \in GitIndexes /\ Swaps(w, i.tree, k.kept.tree)

GitMakings ==
  [pc : {"committing"}, parent : Nat, tree : GitTrees, asked : GitAsked, synced : BOOLEAN]
HostOK(w, h, l) ==
  \/ h = Git!NoHost
  \/ h = [pc |-> "writing"] /\ l = "host"
  \/ h \in GitMakings /\ h.parent \in w.past
  \/ h \in [pc : {"operating"}, from : Nat]

(* What a command of the box holds, by how far it is, of the box's index x *)
(* and the shared index i under the lock l.                                *)
BeforeSeal == {"seed", "heal", "reset", "share", "again", "run", "ref", "build", "seal"}
Healing(w, c, l, i, x) ==
  /\ c.pc = "reset" => c.cur \in w.past /\ \A p \in GitPaths : x[p] \in w.shown[p]
  /\ c.pc \in {"install", "installed", "mark"} => c.of \in w.past
  /\ c.pc = "install" =>
       c.base \in GitIndexes /\ c.build \in GitTrees /\ Swaps(w, c.base.tree, c.build)
  /\ c.pc = "installed" =>
       l = BoxSession /\ c.base \in GitIndexes /\ Swaps(w, i.tree, c.base.tree)
Moving(w, c) ==
  /\ c.pc \in {"ref", "build", "seal", "land"} =>
       c.tree \in GitTrees /\ (c.sub # "commit" => c.new \in 1..w.made)
  /\ c.pc \in {"finish", "post", "propose"} => c.new \in w.past
SealedOK(w, c, l, i) ==
  /\ c.pc = "seal" =>
       /\ c.of \in w.past /\ c.base \in GitIndexes /\ c.build \in GitTrees
       /\ Spares(w, c.base.tree, c.build)
  /\ c.pc \in BeforeSeal \/ (c.pc \in {"install", "installed", "mark"} /\ c.back = "again") =>
       c.held = Git!NoTree
  /\ c.pc \in {"land", "finish"} /\ c.held # Git!NoTree =>
       l = BoxSession /\ Spares(w, i.tree, c.held)
CommandOK(w, c, l, i, x) ==
  \/ c = Git!NoCmd
  \/ /\ c \in GitCommands
     /\ {c.cur, c.old} \subseteq w.past \cup {0}
     /\ c.pc \notin {"idle", "seed"} => x # Git!NoTree
     /\ Healing(w, c, l, i, x) /\ Moving(w, c) /\ SealedOK(w, c, l, i)

TheCmd == cmd[BoxSession]
GitInv ==
  /\ RefsOK /\ IndexesOK
  /\ offers \in Seq(GoodOffers(World))
  /\ TickOK(World, tick, lock, idx)
  /\ HostOK(World, host, lock)
  /\ cmd \in [{BoxSession} -> GitCommands \cup {Git!NoCmd}]
  /\ CommandOK(World, TheCmd, lock, idx, ix)

(* What a step leaves of what only an index holds.                         *)
StepKeeps ==
  /\ ix # Git!NoTree /\ staged'["box"] = staged["box"] => Git!Kept("box", ix, ix')
  /\ staged'["host"] = staged["host"] => Git!Kept("host", idx.tree, idx'.tree)

-----------------------------------------------------------------------------
(* No tree is NoTree: there are paths.                                     *)
LEMMA TreesAreTrees == Git!NoTree \notin GitTrees /\ Git!NoTree \notin GitIndexes
<1>1. ASSUME Git!NoTree \in GitTrees PROVE FALSE
  <2>1. DOMAIN Git!NoTree = {}
    BY DEF Git!NoTree
  <2>2. DOMAIN Git!NoTree = GitPaths
    BY <1>1 DEF GitTrees
  <2> QED BY <2>1, <2>2, GitAssumption
<1>2. ASSUME Git!NoTree \in GitIndexes PROVE FALSE
  <2>1. DOMAIN Git!NoTree = {}
    BY DEF Git!NoTree
  <2>2. "tree" \in DOMAIN Git!NoTree
    BY <1>2 DEF GitIndexes
  <2> QED BY <2>1, <2>2
<1> QED BY <1>1, <1>2

(* The offers of a set, up to the k-th.                                    *)
OnlyUpTo(kept, k, g) ==
  g = [i \in 0..k |-> IF i = 0 THEN <<>>
                      ELSE IF offers[i] \in kept THEN Append(g[i - 1], offers[i]) ELSE g[i - 1]]
OnlyAt(kept, g, i) ==
  IF i = 0 THEN <<>>
  ELSE IF offers[i] \in kept THEN Append(g[i - 1], offers[i]) ELSE g[i - 1]

LEMMA OnlyExists ==
  ASSUME NEW kept, NEW k \in Nat
  PROVE  \E g : OnlyUpTo(kept, k, g)
<1> DEFINE T == {j \in Nat : ~ \E g : OnlyUpTo(kept, j, g)}
<1> SUFFICES ASSUME T # {} PROVE FALSE
  OBVIOUS
<1>1. PICK j \in T : \A i \in T : j <= i
  BY LeastOfNaturals
<1>2. CASE j = 0
  <2> DEFINE g == [i \in 0..0 |-> <<>>]
  <2>1. OnlyUpTo(kept, 0, g)
    BY DEF OnlyUpTo
  <2> QED BY <1>1, <1>2, <2>1
<1>3. CASE j # 0
  <2>1. j - 1 \in Nat /\ j \in Nat
    BY <1>1, <1>3
  <2>2. PICK g : OnlyUpTo(kept, j - 1, g)
    BY <1>1, <2>1
  <2> DEFINE e == [i \in 0..j |-> IF i = j THEN OnlyAt(kept, g, j) ELSE g[i]]
  <2>3. \A i \in 0..(j - 1) : g[i] = OnlyAt(kept, g, i)
    BY <2>2, Zenon DEF OnlyUpTo, OnlyAt
  <2>4. ASSUME NEW i \in 0..j PROVE e[i] = OnlyAt(kept, e, i)
    <3>1. CASE i = 0
      <4>1. 0 \in 0..(j - 1) /\ e[0] = g[0]
        BY <1>3, <2>1
      <4>2. g[0] = <<>>
        BY <4>1, <2>3 DEF OnlyAt
      <4> QED BY <3>1, <4>1, <4>2 DEF OnlyAt
    <3>2. CASE i # 0
      <4>1. e[i - 1] = g[i - 1]
        BY <3>2, <2>1
      <4>2. i = j \/ i \in 0..(j - 1)
        BY <2>1
      <4>3. e[i] = OnlyAt(kept, g, i)
        BY <4>2, <2>1, <2>3
      <4> QED BY <3>2, <4>1, <4>3, Zenon DEF OnlyAt
    <3> QED BY <3>1, <3>2
  <2>5. OnlyUpTo(kept, j, e)
    <3> HIDE DEF e
    <3>1. e = [i \in 0..j |-> e[i]]
      BY DEF e
    <3>2. [i \in 0..j |-> e[i]] = [i \in 0..j |-> OnlyAt(kept, e, i)]
      BY <2>4
    <3> QED BY <3>1, <3>2, Zenon DEF OnlyUpTo, OnlyAt
  <2> QED BY <1>1, <2>5
<1> QED BY <1>2, <1>3

(* What is left of the offers is of them.                                  *)
LEMMA OnlyOfOffers ==
  ASSUME NEW S, offers \in Seq(S), NEW kept
  PROVE  Git!Only(kept) \in Seq(S)
<1> DEFINE N == Len(offers)
           upTo == CHOOSE g : g = [i \in 0..Len(offers) |->
             IF i = 0 THEN <<>>
             ELSE IF offers[i] \in kept THEN Append(g[i - 1], offers[i]) ELSE g[i - 1]]
           T == {i \in 0..N : upTo[i] \notin Seq(S)}
<1>1. N \in Nat /\ \A i \in 1..N : offers[i] \in S
  OBVIOUS
<1>2. OnlyUpTo(kept, N, upTo)
  <2>1. \E g : OnlyUpTo(kept, N, g)
    BY <1>1, OnlyExists
  <2> QED BY <2>1, Zenon DEF OnlyUpTo
<1>3. \A i \in 0..N : upTo[i] = OnlyAt(kept, upTo, i)
  BY <1>2, Zenon DEF OnlyUpTo, OnlyAt
<1>4. Git!Only(kept) = upTo[N]
  BY DEF Git!Only
<1> HIDE DEF upTo, N
<1>5. T \in SUBSET Nat
  BY <1>1
<1>6. ASSUME T # {} PROVE FALSE
  <2>1. PICK i \in T : \A j \in T : i <= j
    <3> HIDE DEF T
    <3> QED BY <1>5, <1>6, LeastOfNaturals
  <2>2. i \in 0..N /\ upTo[i] \notin Seq(S)
    BY <2>1
  <2>3. i # 0
    <3>1. upTo[0] = <<>>
      BY <1>1, <1>3 DEF OnlyAt
    <3>2. <<>> \in Seq(S)
      OBVIOUS
    <3> QED BY <2>2, <3>1, <3>2
  <2>4. i - 1 \in 0..N /\ i \in 1..N /\ i - 1 < i
    BY <1>1, <2>2, <2>3
  <2>5. upTo[i - 1] \in Seq(S) /\ offers[i] \in S
    <3>1. i - 1 \notin T
      BY <1>5, <2>1, <2>4
    <3> QED BY <1>1, <2>4, <3>1
  <2> HIDE DEF T
  <2>6. Append(upTo[i - 1], offers[i]) \in Seq(S)
    BY <2>5
  <2>7. upTo[i] = IF offers[i] \in kept THEN Append(upTo[i - 1], offers[i]) ELSE upTo[i - 1]
    BY <1>3, <2>2, <2>3, Zenon DEF OnlyAt
  <2> QED BY <2>2, <2>5, <2>6, <2>7
<1> QED BY <1>1, <1>4, <1>6

(* An index that spares what the branch never had keeps what is staged.    *)
LEMMA SparesKept ==
  ASSUME NEW t, NEW u, NEW side, Spares(World, t, u)
  PROVE  Git!Kept(side, t, u)
<1> SUFFICES ASSUME NEW p \in GitPaths, \A c \in past : Git!Tree(c)[p] # t[p]
             PROVE  u[p] = t[p]
  BY DEF Git!Kept
<1>1. t[p] \notin World.shown[p]
  BY DEF World, Shown, Git!Tree
<1> QED BY <1>1 DEF Spares

LEMMA SparesItself == ASSUME NEW w, NEW t PROVE Spares(w, t, t)
BY DEF Spares

(* What it says of the world stays true of a world that grew.              *)
LEMMA SparesGrows ==
  ASSUME NEW w, NEW v, Grew(w, v), NEW t, NEW u
  PROVE  /\ Spares(w, t, u) => Spares(v, t, u)
         /\ Swaps(w, t, u) => Swaps(v, t, u)
BY DEF Spares, Swaps, Grew

LEMMA OffersGrow ==
  ASSUME NEW w, NEW v, Grew(w, v)
  PROVE  GoodOffers(w) \subseteq GoodOffers(v)
BY SparesGrows DEF GoodOffers, Grew

LEMMA SeqOfMore ==
  ASSUME NEW S, NEW T, S \subseteq T, NEW q \in Seq(S)
  PROVE  q \in Seq(T)
OBVIOUS

LEMMA TickGrows ==
  ASSUME NEW w, NEW v, Grew(w, v), NEW k, NEW l, NEW i, NEW m, NEW j,
         TickOK(w, k, l, i), l = "tick" => m = l /\ j = i
  PROVE  TickOK(v, k, m, j)
<1>1. CASE k = Git!NoPass
  BY <1>1 DEF TickOK
<1>2. CASE k # Git!NoPass
  <2>1. k.left \in Seq(GoodOffers(v))
    BY <1>2, OffersGrow, SeqOfMore DEF TickOK
  <2>2. k.head \in v.past
    BY <1>2 DEF TickOK, Grew
  <2>3. k.pc = "written" => m = "tick" /\ k.kept \in GitIndexes /\ Swaps(v, j.tree, k.kept.tree)
    BY <1>2, SparesGrows DEF TickOK
  <2> QED BY <1>2, <2>1, <2>2, <2>3 DEF TickOK
<1> QED BY <1>1, <1>2

LEMMA HostGrows ==
  ASSUME NEW w, NEW v, Grew(w, v), NEW h, NEW l, NEW m,
         HostOK(w, h, l), l = "host" => m = l
  PROVE  HostOK(v, h, m)
BY DEF HostOK, Grew

LEMMA CommandGrows ==
  ASSUME NEW w, NEW v, Grew(w, v), w.made \in Nat, v.made \in Nat,
         NEW c, NEW l, NEW i, NEW x, NEW m, NEW j,
         CommandOK(w, c, l, i, x), l = BoxSession => m = l /\ j = i
  PROVE  CommandOK(v, c, m, j, x)
<1>1. CASE c = Git!NoCmd
  BY <1>1 DEF CommandOK
<1>2. CASE c # Git!NoCmd
  <2>1. /\ c \in GitCommands /\ {c.cur, c.old} \subseteq v.past \cup {0}
        /\ c.pc \notin {"idle", "seed"} => x # Git!NoTree
    BY <1>2 DEF CommandOK, Grew
  <2>2. Healing(w, c, l, i, x) /\ Moving(w, c) /\ SealedOK(w, c, l, i)
    BY <1>2 DEF CommandOK
  <2>3. Healing(v, c, m, j, x)
    <3>1. c.pc = "reset" => c.cur \in v.past /\ \A p \in GitPaths : x[p] \in v.shown[p]
      BY <2>2 DEF Healing, Grew
    <3> QED BY <2>2, <3>1, SparesGrows DEF Healing, Grew
  <2>4. Moving(v, c)
    BY <2>2 DEF Moving, Grew
  <2>5. SealedOK(v, c, m, j)
    BY <2>2, SparesGrows DEF SealedOK, Grew
  <2> QED BY <2>1, <2>3, <2>4, <2>5 DEF CommandOK
<1> QED BY <1>1, <1>2

LEMMA WorldStays == ASSUME UNCHANGED <<commits, past>> PROVE World' = World /\ Grew(World, World')
<1>1. World' = World
  BY DEF World, Shown
<1>2. ASSUME NEW w PROVE w.made <= w.made => Grew(w, w)
  BY DEF Grew
<1> QED BY <1>1 DEF Grew, World

LEMMA WorldGrows ==
  ASSUME RefsOK, commits' \in Seq(GitCommits), past \subseteq past', Len(commits) <= Len(commits'),
         \A c \in past : commits'[c].tree = commits[c].tree
  PROVE  Grew(World, World')
<1>1. \A p \in GitPaths : Shown[p] \subseteq Shown'[p]
  BY DEF Shown
<1> QED BY <1>1 DEF Grew, World

(* Trees of commits, and what is made of them.                             *)
LEMMA TreesOfCommits ==
  ASSUME RefsOK
  PROVE  /\ \A c \in 1..Len(commits) : Git!Tree(c) \in GitTrees
         /\ \A c \in past : c \in 1..Len(commits) /\ \A p \in GitPaths : Git!Tree(c)[p] \in World.shown[p]
<1>1. \A c \in 1..Len(commits) : commits[c] \in GitCommits
  BY DEF RefsOK
<1>2. \A c \in 1..Len(commits) : Git!Tree(c) \in GitTrees
  BY <1>1 DEF GitCommits, Git!Tree
<1>3. \A c \in past : \A p \in GitPaths : Git!Tree(c)[p] \in World.shown[p]
  BY DEF World, Shown, Git!Tree
<1> QED BY <1>2, <1>3 DEF RefsOK

LEMMA PastIsNat ==
  ASSUME RefsOK
  PROVE  past \subseteq Nat /\ head \in Nat /\ seen \in Nat /\ sync \in Nat /\ rec \in Nat
<1>1. Len(commits) \in Nat
  BY DEF RefsOK
<1>2. past \subseteq Nat
  BY <1>1 DEF RefsOK
<1>3. head \in past /\ seen \in past \cup {0} /\ sync \in past \cup {0} /\ rec \in past \cup {0}
  BY DEF RefsOK
<1>4. 0 \in Nat
  OBVIOUS
<1> QED BY <1>2, <1>3, <1>4

LEMMA PurelyStaleIsShown ==
  ASSUME RefsOK, NEW r \in past \cup {0}, NEW t, Git!PurelyStale(r, t)
  PROVE  \A p \in GitPaths : t[p] \in World.shown[p]
<1>1. \E c \in past : t = Git!Tree(c)
  BY DEF Git!PurelyStale, Git!MatchesPastHead
<1> QED BY <1>1, TreesOfCommits

LEMMA CarriedSwaps ==
  ASSUME RefsOK, NEW r \in past, NEW h \in past, NEW t \in GitTrees
  PROVE  Git!Carried(r, h, t) \in GitTrees /\ Swaps(World, t, Git!Carried(r, h, t))
<1> DEFINE u == Git!Carried(r, h, t)
<1>1. \A p \in GitPaths : u[p] = IF p \in Git!StagedPaths(r, t) THEN t[p] ELSE Git!Tree(h)[p]
  BY DEF Git!Carried
<1>2. u \in GitTrees
  <2>1. Git!Tree(h) \in GitTrees
    BY TreesOfCommits
  <2> QED BY <2>1 DEF Git!Carried, GitTrees
<1>3. \A p \in GitPaths : p \notin Git!StagedPaths(r, t) => t[p] = Git!Tree(r)[p]
  BY DEF Git!StagedPaths
<1> HIDE DEF u
<1>4. Spares(World, t, u) /\ Spares(World, u, t)
  BY <1>1, <1>3, TreesOfCommits DEF Spares
<1> QED BY <1>2, <1>4 DEF Swaps, u

LEMMA VerdictOfJudged ==
  ASSUME NEW r, NEW h, NEW t
  PROVE  /\ Git!Judged(r, h, t) \in {"matches", "ff", "meant", "overlap", "carry"}
         /\ Git!Judged(r, h, t) = "ff" => Git!PurelyStale(r, t)
         /\ Git!Judged(r, h, t) = "carry" => r # 0
<1> DEFINE same == t = Git!Tree(h)
           stale == Git!PurelyStale(r, t)
<1>1. Git!Judged(r, h, t) =
        CASE same -> "matches"
          [] ~same /\ stale -> "ff"
          [] ~same /\ ~stale /\ r = 0 -> "meant"
          [] ~same /\ ~stale /\ r # 0 -> IF Git!OverlapsWith(r, h, t) THEN "overlap" ELSE "carry"
  BY DEF Git!Judged
<1> HIDE DEF same, stale
<1>2. CASE same
  BY <1>1, <1>2
<1>3. CASE ~same /\ stale
  BY <1>1, <1>3 DEF stale
<1>4. CASE ~same /\ ~stale /\ r = 0
  BY <1>1, <1>4
<1>5. CASE ~same /\ ~stale /\ r # 0
  BY <1>1, <1>5
<1> QED BY <1>2, <1>3, <1>4, <1>5

LEMMA HealedSwaps ==
  ASSUME RefsOK, NEW r \in past \cup {0}, NEW h \in past, NEW t \in GitTrees,
         Git!Judged(r, h, t) \in {"ff", "carry"}
  PROVE  Git!Healed(r, h, t) \in GitTrees /\ Swaps(World, t, Git!Healed(r, h, t))
<1>1. CASE Git!Judged(r, h, t) = "ff"
  <2>1. Git!Healed(r, h, t) = Git!Tree(h)
    BY <1>1 DEF Git!Healed
  <2>2. \A p \in GitPaths : t[p] \in World.shown[p] /\ Git!Tree(h)[p] \in World.shown[p]
    BY <1>1, VerdictOfJudged, PurelyStaleIsShown, TreesOfCommits
  <2> QED BY <2>1, <2>2, TreesOfCommits DEF Swaps, Spares
<1>2. CASE Git!Judged(r, h, t) = "carry"
  <2>1. r \in past
    BY <1>2, VerdictOfJudged
  <2> QED BY <1>2, <2>1, CarriedSwaps DEF Git!Healed
<1> QED BY <1>1, <1>2

LEMMA SealingSpares ==
  ASSUME RefsOK, NEW r \in past, NEW t \in GitTrees, NEW target \in GitTrees,
         Git!Sealing(r, t, target) # Git!NoTree
  PROVE  Git!Sealing(r, t, target) \in GitTrees /\ Spares(World, t, Git!Sealing(r, t, target))
<1> DEFINE mine == Git!StagedPaths(r, t)
           u == [p \in GitPaths |-> IF p \in mine THEN t[p] ELSE target[p]]
<1>1. Git!Sealing(r, t, target) = u
  BY DEF Git!Sealing
<1>2. u \in GitTrees
  BY DEF GitTrees
<1>3. \A p \in GitPaths : p \notin mine => t[p] = Git!Tree(r)[p]
  BY DEF Git!StagedPaths
<1>4. Spares(World, t, u)
  BY <1>3, TreesOfCommits DEF Spares
<1> QED BY <1>1, <1>2, <1>4

(* Whoever leaves a part alone, and the locks, leaves it as it should be.  *)
LEMMA TheOthers ==
  ASSUME GitInv, Grew(World, World'), RefsOK'
  PROVE  /\ offers' = offers => offers' \in Seq(GoodOffers(World'))
         /\ UNCHANGED tick /\ (lock = "tick" => UNCHANGED <<lock, idx>>) =>
              TickOK(World', tick', lock', idx')
         /\ UNCHANGED host /\ (lock = "host" => UNCHANGED lock) => HostOK(World', host', lock')
         /\ UNCHANGED <<cmd, ix>> /\ (lock = BoxSession => UNCHANGED <<lock, idx>>) =>
              CommandOK(World', TheCmd', lock', idx', ix')
<1>1. offers' = offers => offers' \in Seq(GoodOffers(World'))
  BY OffersGrow, SeqOfMore DEF GitInv
<1>2. World.made \in Nat /\ World'.made \in Nat
  BY DEF World, GitInv, RefsOK
<1>3. UNCHANGED tick /\ (lock = "tick" => UNCHANGED <<lock, idx>>) => TickOK(World', tick', lock', idx')
  BY TickGrows DEF GitInv
<1>4. UNCHANGED host /\ (lock = "host" => UNCHANGED lock) => HostOK(World', host', lock')
  BY HostGrows DEF GitInv
<1>5. UNCHANGED <<cmd, ix>> /\ (lock = BoxSession => UNCHANGED <<lock, idx>>) =>
        CommandOK(World', TheCmd', lock', idx', ix')
  <2> SUFFICES ASSUME UNCHANGED <<cmd, ix>>, lock = BoxSession => UNCHANGED <<lock, idx>>
               PROVE  CommandOK(World', TheCmd', lock', idx', ix')
    OBVIOUS
  <2>1. CommandOK(World, TheCmd, lock, idx, ix) /\ TheCmd' = TheCmd
    BY DEF GitInv, TheCmd
  <2>2. CommandOK(World', TheCmd, lock', idx', ix)
    BY <1>2, <2>1, CommandGrows
  <2> QED BY <2>1, <2>2
<1> QED BY <1>1, <1>3, <1>4, <1>5

LEMMA KeepsWhatItSpares ==
  ASSUME ix # Git!NoTree => Spares(World, ix, ix'), Spares(World, idx.tree, idx'.tree)
  PROVE  StepKeeps
BY SparesKept DEF StepKeeps

LEMMA KeepsUntouched == ASSUME ix' = ix, idx'.tree = idx.tree PROVE StepKeeps
BY SparesItself, KeepsWhatItSpares

(* A step of the box that does not move the branch.                        *)
LEMMA BoxSteps ==
  ASSUME GitInv, NEW w \in GitCommands \cup {Git!NoCmd}, cmd' = [cmd EXCEPT ![BoxSession] = w],
         UNCHANGED <<commits, head, past, op, host, tick>>,
         seen' \in past \cup {0}, sync' \in past \cup {0}, rec' \in past \cup {0},
         idx' \in GitIndexes, ix' \in GitTreesOrNone, staged' \in GitStaged,
         UNCHANGED <<ix, rec>> \/ ix' # Git!NoTree,
         offers' \in Seq(GoodOffers(World)),
         lock \in {"tick", "host"} => UNCHANGED <<lock, idx>>,
         CommandOK(World, w, lock', idx', ix')
  PROVE  GitInv'
<1>1. World' = World /\ Grew(World, World')
  BY WorldStays
<1>2. RefsOK'
  BY DEF GitInv, RefsOK
<1>3. TickOK(World', tick', lock', idx') /\ HostOK(World', host', lock')
  BY <1>1, <1>2, TheOthers
<1>4. cmd' \in [{BoxSession} -> GitCommands \cup {Git!NoCmd}] /\ TheCmd' = w
  BY DEF GitInv, TheCmd
<1> QED BY <1>1, <1>2, <1>3, <1>4 DEF GitInv, IndexesOK

LEMMA CommandIs ==
  ASSUME GitInv, NEW c, c = cmd[BoxSession], c.pc # "idle"
  PROVE  /\ c \in GitCommands /\ c.cur \in past \cup {0} /\ c.old \in past \cup {0}
         /\ c.pc # "seed" => ix # Git!NoTree /\ ix \in GitTrees
         /\ Healing(World, c, lock, idx, ix) /\ Moving(World, c) /\ SealedOK(World, c, lock, idx)
         /\ World.past = past /\ World.made = Len(commits)
<1>1. c # Git!NoCmd
  BY DEF Git!NoCmd
<1> QED BY <1>1 DEF GitInv, CommandOK, TheCmd, World, IndexesOK, GitTreesOrNone

LEMMA PcMoves ==
  ASSUME NEW c \in GitCommands, NEW pc \in GitPcs, NEW w, w = [c EXCEPT !.pc = pc]
  PROVE  /\ w \in GitCommands /\ w.pc = pc
         /\ w.sub = c.sub /\ w.cur = c.cur /\ w.tries = c.tries /\ w.ok = c.ok /\ w.old = c.old
         /\ w.new = c.new /\ w.tree = c.tree /\ w.build = c.build /\ w.base = c.base /\ w.of = c.of
         /\ w.held = c.held /\ w.back = c.back /\ w.asked = c.asked
BY DEF GitCommands

LEMMA NoCmdOK == ASSUME NEW w, NEW l, NEW i, NEW x PROVE CommandOK(w, Git!NoCmd, l, i, x)
BY DEF CommandOK

LEMMA StartStep ==
  ASSUME GitInv, NEW sub \in GitSubs, Git!Start(BoxSession, sub)
  PROVE  GitInv' /\ StepKeeps
<1> DEFINE w == [pc |-> IF ix = Git!NoTree THEN "seed" ELSE "heal", sub |-> sub, cur |-> 0,
                 tries |-> GitTries, ok |-> TRUE, old |-> 0, new |-> 0, tree |-> Git!NoTree,
                 build |-> Git!NoTree, base |-> Git!NoTree, of |-> 0, held |-> Git!NoTree,
                 back |-> "idle", skipped |-> FALSE, asked |-> [p \in GitPaths |-> {}]]
<1>1. /\ cmd' = [cmd EXCEPT ![BoxSession] = w] /\ seen' = head
      /\ UNCHANGED <<commits, head, past, op, host, tick, idx, lock, sync, offers, ix, rec, staged>>
  BY DEF Git!Start, Git!refs, Git!shared, Git!boxed, Git!ghosts
<1>2. w \in GitCommands
  <2>1. [p \in GitPaths |-> {}] \in GitAsked
    BY DEF GitAsked
  <2>2. Git!NoTree \in GitTreesOrNone /\ Git!NoTree \in GitIndexesOrNone
    BY DEF GitTreesOrNone, GitIndexesOrNone
  <2>3. GitTries \in Int
    BY GitAssumption
  <2>4. (IF ix = Git!NoTree THEN "seed" ELSE "heal") \in GitPcs
    BY DEF GitPcs
  <2> QED BY <2>1, <2>2, <2>3, <2>4 DEF GitCommands
<1>3. /\ w.pc \in {"seed", "heal"} /\ w.cur = 0 /\ w.old = 0 /\ w.held = Git!NoTree
      /\ (w.pc = "heal" => ix # Git!NoTree)
  OBVIOUS
<1> HIDE DEF w
<1>4. CommandOK(World, w, lock, idx, ix)
  BY <1>2, <1>3 DEF CommandOK, Healing, Moving, SealedOK
<1> QED BY <1>1, <1>2, <1>4, BoxSteps, KeepsUntouched DEF GitInv, RefsOK, IndexesOK

LEMMA SeedStep ==
  ASSUME GitInv, Git!Seed(BoxSession)
  PROVE  GitInv' /\ StepKeeps
<1> DEFINE c == cmd[BoxSession]
           w == [c EXCEPT !.pc = "heal"]
<1>1. /\ c.pc = "seed" /\ cmd' = [cmd EXCEPT ![BoxSession] = w]
      /\ ix' \in IF ix # Git!NoTree THEN {ix} ELSE {idx.tree, Git!Tree(head)}
      /\ UNCHANGED <<commits, head, past, seen, op, host, tick, idx, lock, sync, offers, rec, staged>>
  BY DEF Git!Seed, Git!Goto, Git!refs, Git!shared, Git!ghosts
<1>2. c.pc # "idle" /\ "heal" \in GitPcs /\ RefsOK /\ IndexesOK
  BY <1>1 DEF GitPcs, GitInv
<1> HIDE DEF c
<1>3. /\ c \in GitCommands /\ c.cur \in past \cup {0} /\ c.old \in past \cup {0}
      /\ SealedOK(World, c, lock, idx) /\ World.past = past
  BY <1>2, CommandIs DEF c
<1>4. /\ w \in GitCommands /\ w.pc = "heal" /\ w.cur = c.cur /\ w.old = c.old /\ w.held = c.held
  BY <1>2, <1>3, PcMoves
<1> HIDE DEF w
<1>5. ix' \in GitTrees
  <2>1. Git!Tree(head) \in GitTrees
    BY <1>2, TreesOfCommits DEF RefsOK
  <2> QED BY <1>1, <1>2, <2>1 DEF IndexesOK, GitIndexes, GitTreesOrNone
<1>6. CommandOK(World, w, lock', idx', ix')
  <2>1. c.held = Git!NoTree
    BY <1>1, <1>3 DEF SealedOK, BeforeSeal
  <2> QED BY <1>1, <1>3, <1>4, <1>5, <2>1, TreesAreTrees DEF CommandOK, Healing, Moving, SealedOK
<1>7. GitInv'
  BY <1>1, <1>2, <1>4, <1>5, <1>6, BoxSteps DEF GitInv, RefsOK, IndexesOK, GitTreesOrNone
<1>8. StepKeeps
  BY <1>1, SparesItself, KeepsWhatItSpares
<1> QED BY <1>7, <1>8

LEMMA HealStep ==
  ASSUME GitInv, Git!Heal(BoxSession)
  PROVE  GitInv' /\ StepKeeps
<1> DEFINE c == cmd[BoxSession]
           v == Git!Verdict(seen)
           w == [c EXCEPT !.cur = seen, !.ok = v # "overlap",
                          !.skipped = op /\ seen # 0 /\ rec # seen,
                          !.pc = IF v = "ff" THEN "reset" ELSE "share"]
<1>1. /\ c.pc = "heal" /\ cmd' = [cmd EXCEPT ![BoxSession] = w]
      /\ rec' = IF v \in {"matches", "meant", "carry"} THEN seen ELSE rec
      /\ ix' = IF v = "carry" THEN Git!Carried(rec, seen, ix) ELSE ix
      /\ staged' = IF v = "meant" THEN [staged EXCEPT !["seed"] = ix] ELSE staged
      /\ UNCHANGED <<commits, head, past, seen, op, host, tick, idx, lock, sync, offers>>
  <2> DEFINE now(u) ==
        /\ cmd' = [cmd EXCEPT ![BoxSession].cur = seen, ![BoxSession].ok = u # "overlap",
                              ![BoxSession].skipped = op /\ seen # 0 /\ rec # seen,
                              ![BoxSession].pc = IF u = "ff" THEN "reset" ELSE "share"]
        /\ rec' = IF u \in {"matches", "meant", "carry"} THEN seen ELSE rec
        /\ ix' = IF u = "carry" THEN Git!Carried(rec, seen, ix) ELSE ix
        /\ staged' = IF u = "meant" THEN [staged EXCEPT !["seed"] = ix] ELSE staged
  <2>1. \E u \in {v} : now(u)
    BY DEF Git!Heal
  <2>2. now(v)
    <3> HIDE DEF now, v
    <3> QED BY <2>1
  <2>3. cmd' = [cmd EXCEPT ![BoxSession] = w]
    <3> DEFINE skipped == op /\ seen # 0 /\ rec # seen
               ok == v # "overlap"
               to == IF v = "ff" THEN "reset" ELSE "share"
    <3>1. cmd' = [cmd EXCEPT ![BoxSession].cur = seen, ![BoxSession].ok = ok,
                             ![BoxSession].skipped = skipped, ![BoxSession].pc = to]
      BY <2>2
    <3>2. w = [c EXCEPT !.cur = seen, !.ok = ok, !.skipped = skipped, !.pc = to]
      OBVIOUS
    <3>3. BoxSession \in DOMAIN cmd
      BY DEF GitInv
    <3> HIDE DEF skipped, ok, to, v, w
    <3> QED BY <3>1, <3>2, <3>3
  <2> QED BY <2>2, <2>3 DEF Git!Heal, Git!refs, Git!shared
<1>2. c.pc # "idle" /\ RefsOK /\ IndexesOK
  BY <1>1 DEF GitInv
<1>3. v \in {"ff", "carry"} => seen \in past /\ Git!Judged(rec, seen, ix) = v
  <2>1. v \in {"ff", "carry"} => seen # 0 /\ Git!Judged(rec, seen, ix) = v
    BY DEF Git!Verdict
  <2> QED BY <1>2, <2>1 DEF RefsOK
<1> HIDE DEF c, v
<1>4. /\ c \in GitCommands /\ c.cur \in past \cup {0} /\ c.old \in past \cup {0}
      /\ ix # Git!NoTree /\ ix \in GitTrees
      /\ SealedOK(World, c, lock, idx) /\ World.past = past
  BY <1>1, <1>2, CommandIs DEF c
<1>5. /\ w \in GitCommands /\ w.pc = (IF v = "ff" THEN "reset" ELSE "share")
      /\ w.cur = seen /\ w.old = c.old /\ w.held = c.held
  <2> DEFINE skipped == op /\ seen # 0 /\ rec # seen
             ok == v # "overlap"
             to == IF v = "ff" THEN "reset" ELSE "share"
  <2>1. skipped \in BOOLEAN /\ ok \in BOOLEAN
    BY <1>2, Zenon DEF RefsOK
  <2>2. seen \in Nat
    BY <1>2, PastIsNat
  <2>3. to \in GitPcs
    BY DEF GitPcs
  <2> HIDE DEF skipped, ok, to
  <2>4. w = [c EXCEPT !.cur = seen, !.ok = ok, !.skipped = skipped, !.pc = to]
    BY DEF skipped, ok, to
  <2>5. /\ w \in GitCommands /\ w.pc = to /\ w.cur = seen /\ w.old = c.old /\ w.held = c.held
    <3> HIDE DEF w
    <3> QED BY <1>4, <2>1, <2>2, <2>3, <2>4 DEF GitCommands
  <2> HIDE DEF w
  <2> QED BY <2>5 DEF to
<1> HIDE DEF w
<1>6. ix' \in GitTrees /\ Spares(World, ix, ix')
  <2>1. CASE v = "carry"
    <3>1. rec \in past
      BY <1>2, <1>3, <2>1, VerdictOfJudged DEF RefsOK
    <3> QED BY <1>1, <1>2, <1>3, <1>4, <2>1, <3>1, CarriedSwaps DEF Swaps
  <2>2. CASE v # "carry"
    BY <1>1, <1>4, <2>2, SparesItself
  <2> QED BY <2>1, <2>2
<1>7. staged' \in GitStaged
  <2>1. ix \in [GitPaths -> GitValues \cup {Git!Nothing}]
    BY <1>4 DEF GitTrees
  <2> QED BY <1>1, <1>2, <2>1 DEF IndexesOK, GitStaged
<1>8. CommandOK(World, w, lock', idx', ix')
  <2>1. c.held = Git!NoTree
    BY <1>1, <1>4 DEF SealedOK, BeforeSeal
  <2>2. v = "ff" => ix' = ix /\ seen \in past /\ \A p \in GitPaths : ix[p] \in World.shown[p]
    <3> SUFFICES ASSUME v = "ff"
                 PROVE  ix' = ix /\ seen \in past /\ \A p \in GitPaths : ix[p] \in World.shown[p]
      OBVIOUS
    <3>1. ix' = ix /\ seen \in past
      BY <1>1, <1>3
    <3>2. Git!PurelyStale(rec, ix) /\ rec \in past \cup {0}
      BY <1>2, <1>3, VerdictOfJudged DEF RefsOK
    <3> QED BY <1>2, <3>1, <3>2, PurelyStaleIsShown
  <2> QED BY <1>2, <1>4, <1>5, <1>6, <2>1, <2>2, TreesAreTrees
          DEF CommandOK, Healing, Moving, SealedOK, RefsOK
<1>9. GitInv'
  BY <1>1, <1>2, <1>5, <1>6, <1>7, <1>8, BoxSteps, TreesAreTrees DEF GitInv, RefsOK, IndexesOK, GitTreesOrNone
<1> QED BY <1>1, <1>6, <1>9, SparesItself, KeepsWhatItSpares

LEMMA HealResetStep ==
  ASSUME GitInv, Git!HealReset(BoxSession)
  PROVE  GitInv' /\ StepKeeps
<1> DEFINE c == cmd[BoxSession]
           w == [c EXCEPT !.pc = "share"]
<1>1. /\ c.pc = "reset" /\ cmd' = [cmd EXCEPT ![BoxSession] = w]
      /\ ix' = Git!Tree(c.cur) /\ rec' = c.cur
      /\ UNCHANGED <<commits, head, past, seen, op, host, tick, idx, lock, sync, offers, staged>>
  BY DEF Git!HealReset, Git!Goto, Git!refs, Git!shared, Git!ghosts
<1>2. c.pc # "idle" /\ "share" \in GitPcs /\ RefsOK
  BY <1>1 DEF GitPcs, GitInv
<1> HIDE DEF c
<1>3. /\ c \in GitCommands /\ c.old \in past \cup {0} /\ Healing(World, c, lock, idx, ix)
      /\ SealedOK(World, c, lock, idx) /\ World.past = past
  BY <1>1, <1>2, CommandIs DEF c
<1>4. /\ w \in GitCommands /\ w.pc = "share" /\ w.cur = c.cur /\ w.old = c.old /\ w.held = c.held
  BY <1>2, <1>3, PcMoves
<1> HIDE DEF w
<1>5. c.cur \in past /\ ix' \in GitTrees /\ Spares(World, ix, ix')
  BY <1>1, <1>2, <1>3, TreesOfCommits DEF Healing, Spares
<1>6. CommandOK(World, w, lock', idx', ix')
  <2>1. c.held = Git!NoTree
    BY <1>1, <1>3 DEF SealedOK, BeforeSeal
  <2> QED BY <1>3, <1>4, <1>5, <2>1, TreesAreTrees DEF CommandOK, Healing, Moving, SealedOK
<1>7. GitInv'
  BY <1>1, <1>2, <1>4, <1>5, <1>6, BoxSteps, TreesAreTrees DEF GitInv, RefsOK, IndexesOK, GitTreesOrNone
<1> QED BY <1>1, <1>5, <1>7, SparesItself, KeepsWhatItSpares

(* What is offered is good, and so is what is left of the offers.          *)
LEMMA OffersLeft ==
  ASSUME NEW S, offers \in Seq(S)
  PROVE  /\ \A o : Git!Unlinked(o) \in Seq(S)
         /\ \A o \in S : Git!WithOffer(o) \in Seq(S)
<1>1. ASSUME NEW o PROVE Git!Unlinked(o) \in Seq(S)
  BY OnlyOfOffers DEF Git!Unlinked
<1>2. ASSUME NEW o \in S PROVE Git!WithOffer(o) \in Seq(S)
  <2>1. Git!Unlinked(o) \in Seq(S) /\ <<o>> \in Seq(S)
    BY <1>1
  <2> QED BY <2>1 DEF Git!WithOffer
<1> QED BY <1>1, <1>2

LEMMA NewOffers ==
  ASSUME RefsOK, NEW h \in past
  PROVE  /\ Git!Record(h) \in GoodOffers(World)
         /\ \A r \in past \cup {0}, b \in GitIndexes : Git!Refusal(r, h, b) \in GoodOffers(World)
         /\ \A b \in GitIndexes, t \in GitTrees :
              Swaps(World, b.tree, t) => Git!Proposal(h, b, t) \in GoodOffers(World)
<1>1. h \in Nat /\ past \cup {0} \subseteq Nat /\ World.past = past
  BY PastIsNat DEF World
<1>2. Git!NoTree \in GitTreesOrNone /\ Git!NoTree \in GitIndexesOrNone
      /\ GitTrees \subseteq GitTreesOrNone /\ GitIndexes \subseteq GitIndexesOrNone
  BY DEF GitTreesOrNone, GitIndexesOrNone
<1>3. Git!Record(h) \in GoodOffers(World)
  <2>1. Git!Record(h) \in GitOffers /\ Git!Record(h).head = h /\ Git!Record(h).kind = "record"
    BY <1>1, <1>2 DEF Git!Record, GitOffers
  <2> QED BY <1>1, <2>1 DEF GoodOffers
<1>4. ASSUME NEW r \in past \cup {0}, NEW b \in GitIndexes
      PROVE  Git!Refusal(r, h, b) \in GoodOffers(World)
  <2> DEFINE o == Git!Refusal(r, h, b)
  <2>1. o \in GitOffers /\ o.head = h /\ o.kind = "refused"
    BY <1>1, <1>2 DEF Git!Refusal, GitOffers
  <2> HIDE DEF o
  <2> QED BY <1>1, <2>1 DEF GoodOffers, o
<1>5. ASSUME NEW b \in GitIndexes, NEW t \in GitTrees, Swaps(World, b.tree, t)
      PROVE  Git!Proposal(h, b, t) \in GoodOffers(World)
  <2> DEFINE o == Git!Proposal(h, b, t)
  <2>1. o \in GitOffers /\ o.head = h /\ o.base = b /\ o.tree = t
    BY <1>1, <1>2 DEF Git!Proposal, GitOffers
  <2> HIDE DEF o
  <2>2. o \in GoodOffers(World)
    BY <1>1, <1>5, <2>1 DEF GoodOffers
  <2> QED BY <2>2 DEF o
<1> QED BY <1>3, <1>4, <1>5

LEMMA Proposes ==
  ASSUME GitInv, NEW c, c = cmd[BoxSession], c.pc \notin {"idle", "seed"}, NEW h \in past,
         NEW back \in {"idle", "again"}, back = "again" => c.held = Git!NoTree,
         Git!Propose(BoxSession, h, back)
  PROVE  /\ offers' \in Seq(GoodOffers(World))
         /\ \E w \in GitCommands : /\ cmd' = [cmd EXCEPT ![BoxSession] = w]
                                   /\ CommandOK(World, w, lock, idx, ix)
<1>1. /\ c \in GitCommands /\ c.cur \in past \cup {0} /\ c.old \in past \cup {0}
      /\ ix # Git!NoTree /\ World.past = past
  BY CommandIs
<1>2. RefsOK /\ idx \in GitIndexes /\ idx.tree \in GitTrees /\ offers \in Seq(GoodOffers(World))
      /\ sync \in past \cup {0}
  BY DEF GitInv, IndexesOK, GitIndexes, RefsOK
<1>3. ASSUME Git!Goto(BoxSession, back), offers' = offers
      PROVE  /\ offers' \in Seq(GoodOffers(World))
             /\ \E w \in GitCommands : /\ cmd' = [cmd EXCEPT ![BoxSession] = w]
                                       /\ CommandOK(World, w, lock, idx, ix)
  <2> DEFINE w == [c EXCEPT !.pc = back]
  <2>1. cmd' = [cmd EXCEPT ![BoxSession] = w]
    BY <1>3 DEF Git!Goto
  <2>2. w \in GitCommands /\ w.pc = back /\ w.cur = c.cur /\ w.old = c.old /\ w.held = c.held
    BY <1>1, PcMoves DEF GitPcs
  <2> HIDE DEF w
  <2>3. CommandOK(World, w, lock, idx, ix)
    BY <1>1, <2>2 DEF CommandOK, Healing, Moving, SealedOK, BeforeSeal
  <2> QED BY <1>2, <1>3, <2>1, <2>2, <2>3
<1>4. ASSUME ~(op \/ sync = h \/ Git!HasOffer(h, {"record", "refused"}))
      PROVE  /\ offers' \in Seq(GoodOffers(World))
             /\ \E w \in GitCommands : /\ cmd' = [cmd EXCEPT ![BoxSession] = w]
                                       /\ CommandOK(World, w, lock, idx, ix)
  <2> DEFINE v == Git!Judged(sync, h, idx.tree)
             to == IF v \in {"ff", "carry"} THEN "install" ELSE back
             build == IF v \in {"ff", "carry"} THEN Git!Healed(sync, h, idx.tree) ELSE Git!NoTree
             w == [c EXCEPT !.pc = to, !.build = build, !.base = idx, !.of = h, !.back = back]
             now(u) ==
               /\ offers' = CASE u \in {"matches", "meant"} -> Git!WithOffer(Git!Record(h))
                              [] u = "overlap" -> Git!WithOffer(Git!Refusal(sync, h, idx))
                              [] OTHER -> offers
               /\ cmd' = [cmd EXCEPT ![BoxSession].pc = IF u \in {"ff", "carry"} THEN "install" ELSE back,
                            ![BoxSession].build = IF u \in {"ff", "carry"} THEN Git!Healed(sync, h, idx.tree)
                                                  ELSE Git!NoTree,
                            ![BoxSession].base = idx, ![BoxSession].of = h, ![BoxSession].back = back]
  <2>1. now(v)
    <3>1. \E u \in {v} : now(u)
      BY <1>4 DEF Git!Propose
    <3> HIDE DEF now, v
    <3> QED BY <3>1
  <2>2. cmd' = [cmd EXCEPT ![BoxSession] = w]
    <3>1. cmd' = [cmd EXCEPT ![BoxSession].pc = to, ![BoxSession].build = build,
                             ![BoxSession].base = idx, ![BoxSession].of = h, ![BoxSession].back = back]
      BY <2>1
    <3>2. BoxSession \in DOMAIN cmd
      BY DEF GitInv
    <3> HIDE DEF to, build
    <3> QED BY <3>1, <3>2
  <2>3. v \in {"matches", "ff", "meant", "overlap", "carry"}
    BY VerdictOfJudged
  <2>4. v \in {"ff", "carry"} => build \in GitTrees /\ Swaps(World, idx.tree, build)
    BY <1>2, HealedSwaps
  <2>5. offers' = CASE v \in {"matches", "meant"} -> Git!WithOffer(Git!Record(h))
                    [] v = "overlap" -> Git!WithOffer(Git!Refusal(sync, h, idx))
                    [] OTHER -> offers
    BY <2>1
  <2>6. build \in GitTreesOrNone /\ (v \notin {"ff", "carry"} => build = Git!NoTree)
    BY <2>4 DEF GitTreesOrNone
  <2>7. to \in GitPcs /\ (v \in {"ff", "carry"} => to = "install") /\ (v \notin {"ff", "carry"} => to = back)
    BY DEF GitPcs
  <2> HIDE DEF v, now, to, build
  <2>8. offers' \in Seq(GoodOffers(World))
    <3>1. /\ Git!WithOffer(Git!Record(h)) \in Seq(GoodOffers(World))
          /\ Git!WithOffer(Git!Refusal(sync, h, idx)) \in Seq(GoodOffers(World))
      BY <1>2, NewOffers, OffersLeft
    <3>2. CASE v \in {"matches", "meant"}
      BY <2>5, <3>1, <3>2
    <3>3. CASE v = "overlap"
      BY <2>5, <3>1, <3>3
    <3>4. CASE v \in {"ff", "carry"}
      BY <1>2, <2>5, <3>4
    <3> QED BY <2>3, <3>2, <3>3, <3>4
  <2>9. /\ w \in GitCommands /\ w.pc = to /\ w.build = build /\ w.base = idx /\ w.of = h
        /\ w.back = back /\ w.cur = c.cur /\ w.old = c.old /\ w.held = c.held
    <3>1. h \in Nat /\ idx \in GitIndexesOrNone
      BY <1>2, PastIsNat DEF GitIndexesOrNone
    <3> QED BY <1>1, <2>6, <2>7, <3>1 DEF GitCommands
  <2> HIDE DEF w
  <2>10. CommandOK(World, w, lock, idx, ix)
    <3>1. CASE v \in {"ff", "carry"}
      <4>1. w.pc = "install"
        BY <2>7, <2>9, <3>1
      <4> QED BY <1>1, <1>2, <2>4, <2>9, <3>1, <4>1
              DEF CommandOK, Healing, Moving, SealedOK, BeforeSeal
    <3>2. CASE v \notin {"ff", "carry"}
      <4>1. w.pc = back
        BY <2>7, <2>9, <3>2
      <4> QED BY <1>1, <2>9, <4>1 DEF CommandOK, Healing, Moving, SealedOK, BeforeSeal
    <3> QED BY <3>1, <3>2
  <2> QED BY <2>2, <2>8, <2>9, <2>10
<1> QED BY <1>3, <1>4 DEF Git!Propose

LEMMA ShareStep ==
  ASSUME GitInv, Git!Share(BoxSession)
  PROVE  GitInv' /\ StepKeeps
<1> DEFINE c == cmd[BoxSession]
           w == [c EXCEPT !.pc = "again"]
<1>1. /\ c.pc = "share"
      /\ UNCHANGED <<commits, head, past, seen, op, host, tick, idx, lock, ix, rec, staged>>
  BY DEF Git!Share, Git!refs, Git!boxed, Git!ghosts
<1>2. /\ RefsOK /\ IndexesOK /\ offers \in Seq(GoodOffers(World)) /\ c.pc \notin {"idle", "seed"}
      /\ "again" \in GitPcs
  BY <1>1 DEF GitInv, GitPcs
<1>3. \/ /\ cmd' = [cmd EXCEPT ![BoxSession] = w]
         /\ \/ UNCHANGED <<sync, offers>>
            \/ sync' = c.cur /\ UNCHANGED offers
            \/ c.cur # 0 /\ offers' = Git!WithOffer(Git!Record(c.cur)) /\ UNCHANGED sync
      \/ c.cur # 0 /\ Git!Propose(BoxSession, c.cur, "again") /\ UNCHANGED sync
  BY DEF Git!Share, Git!Goto
<1> HIDE DEF c
<1>4. /\ c \in GitCommands /\ c.cur \in past \cup {0} /\ c.old \in past \cup {0}
      /\ ix # Git!NoTree /\ SealedOK(World, c, lock, idx) /\ World.past = past
  BY <1>2, CommandIs DEF c
<1>5. c.held = Git!NoTree
  BY <1>1, <1>4 DEF SealedOK, BeforeSeal
<1>6. ASSUME cmd' = [cmd EXCEPT ![BoxSession] = w], sync' \in past \cup {0},
             offers' \in Seq(GoodOffers(World))
      PROVE  GitInv'
  <2>1. w \in GitCommands /\ w.pc = "again" /\ w.cur = c.cur /\ w.old = c.old /\ w.held = c.held
    BY <1>2, <1>4, PcMoves
  <2> HIDE DEF w
  <2>2. CommandOK(World, w, lock, idx, ix)
    BY <1>4, <1>5, <2>1 DEF CommandOK, Healing, Moving, SealedOK
  <2> QED BY <1>1, <1>2, <1>6, <2>1, <2>2, BoxSteps DEF RefsOK, IndexesOK
<1>7. StepKeeps
  BY <1>1, KeepsUntouched
<1>8. CASE /\ cmd' = [cmd EXCEPT ![BoxSession] = w]
           /\ \/ UNCHANGED <<sync, offers>>
              \/ sync' = c.cur /\ UNCHANGED offers
              \/ c.cur # 0 /\ offers' = Git!WithOffer(Git!Record(c.cur)) /\ UNCHANGED sync
  <2>1. sync' \in past \cup {0}
    BY <1>2, <1>4, <1>8 DEF RefsOK
  <2>2. offers' \in Seq(GoodOffers(World))
    BY <1>2, <1>4, <1>8, NewOffers, OffersLeft
  <2> QED BY <1>6, <1>8, <1>7, <2>1, <2>2
<1>9. CASE c.cur # 0 /\ Git!Propose(BoxSession, c.cur, "again") /\ UNCHANGED sync
  <2>1. c.cur \in past /\ "again" \in {"idle", "again"}
    BY <1>4, <1>9
  <2>2. /\ offers' \in Seq(GoodOffers(World))
        /\ \E v \in GitCommands : /\ cmd' = [cmd EXCEPT ![BoxSession] = v]
                                  /\ CommandOK(World, v, lock, idx, ix)
    BY <1>2, <1>5, <1>9, <2>1, Proposes DEF c
  <2> QED BY <1>1, <1>2, <1>9, <1>7, <2>2, BoxSteps DEF RefsOK, IndexesOK
<1> QED BY <1>3, <1>8, <1>9

LEMMA ProposePostStep ==
  ASSUME GitInv, Git!ProposePost(BoxSession)
  PROVE  GitInv' /\ StepKeeps
<1> DEFINE c == cmd[BoxSession]
<1>1. /\ c.pc = "propose" /\ Git!Propose(BoxSession, c.new, "idle")
      /\ UNCHANGED <<commits, head, past, seen, op, host, tick, idx, lock, sync, ix, rec, staged>>
  BY DEF Git!ProposePost, Git!refs, Git!boxed, Git!ghosts
<1>2. RefsOK /\ IndexesOK /\ c.pc \notin {"idle", "seed"}
  BY <1>1 DEF GitInv
<1> HIDE DEF c
<1>3. c.new \in past
  BY <1>1, <1>2, CommandIs DEF c, Moving
<1>4. /\ offers' \in Seq(GoodOffers(World))
      /\ \E v \in GitCommands : /\ cmd' = [cmd EXCEPT ![BoxSession] = v]
                                /\ CommandOK(World, v, lock, idx, ix)
  BY <1>1, <1>2, <1>3, Proposes DEF c
<1>5. GitInv'
  BY <1>1, <1>2, <1>4, BoxSteps DEF RefsOK, IndexesOK
<1> QED BY <1>1, <1>5, KeepsUntouched

LEMMA InstallStep ==
  ASSUME GitInv, Git!Install(BoxSession)
  PROVE  GitInv' /\ StepKeeps
<1> DEFINE c == cmd[BoxSession]
           w == [c EXCEPT !.pc = "installed", !.base = idx]
           v == [c EXCEPT !.pc = c.back]
           takes == lock = "free" /\ head = c.of /\ idx.tree = c.base.tree
<1>1. /\ c.pc = "install"
      /\ UNCHANGED <<commits, head, past, op, host, tick, sync, ix, rec, staged>>
  BY DEF Git!Install, Git!refs, Git!boxed, Git!ghosts
<1>2. takes => /\ lock' = BoxSession /\ idx' = [tree |-> c.build, stat |-> 0]
               /\ cmd' = [cmd EXCEPT ![BoxSession] = w]
               /\ seen' = head /\ UNCHANGED offers
  <2> SUFFICES ASSUME takes
               PROVE  /\ lock' = BoxSession /\ idx' = [tree |-> c.build, stat |-> 0]
                      /\ cmd' = [cmd EXCEPT ![BoxSession] = w]
                      /\ seen' = head /\ UNCHANGED offers
    OBVIOUS
  <2>1. cmd' = [cmd EXCEPT ![BoxSession].pc = "installed", ![BoxSession].base = idx]
    BY DEF Git!Install
  <2>2. BoxSession \in DOMAIN cmd
    BY DEF GitInv
  <2> QED BY <2>1, <2>2 DEF Git!Install
<1>3. ~takes => /\ offers' = Git!WithOffer(Git!Proposal(c.of, c.base, c.build))
                /\ seen' \in {head, seen} /\ cmd' = [cmd EXCEPT ![BoxSession] = v]
                /\ UNCHANGED <<lock, idx>>
  BY DEF Git!Install, Git!Goto
<1>4. /\ RefsOK /\ IndexesOK /\ offers \in Seq(GoodOffers(World)) /\ c.pc \notin {"idle", "seed"}
      /\ "installed" \in GitPcs
  BY <1>1 DEF GitInv, GitPcs
<1> HIDE DEF c
<1>5. /\ c \in GitCommands /\ c.cur \in past \cup {0} /\ c.old \in past \cup {0}
      /\ ix # Git!NoTree /\ Healing(World, c, lock, idx, ix) /\ SealedOK(World, c, lock, idx)
      /\ World.past = past
  BY <1>4, CommandIs DEF c
<1>6. /\ c.of \in past /\ c.base \in GitIndexes /\ c.build \in GitTrees
      /\ Swaps(World, c.base.tree, c.build) /\ (c.back = "again" => c.held = Git!NoTree)
      /\ c.back \in {"idle", "again"}
  BY <1>1, <1>5 DEF Healing, SealedOK, GitCommands
<1>7. CASE takes
  <2>1. /\ w \in GitCommands /\ w.pc = "installed" /\ w.base = idx /\ w.of = c.of
        /\ w.back = c.back /\ w.cur = c.cur /\ w.old = c.old /\ w.held = c.held
    BY <1>4, <1>5 DEF GitCommands, IndexesOK, GitIndexesOrNone
  <2>2. idx' \in GitIndexes /\ idx'.tree = c.build /\ idx.tree = c.base.tree
    BY <1>2, <1>6, <1>7 DEF GitIndexes
  <2>3. Swaps(World, idx'.tree, w.base.tree) /\ Spares(World, idx.tree, idx'.tree)
    BY <1>6, <2>1, <2>2 DEF Swaps
  <2> HIDE DEF w
  <2>4. CommandOK(World, w, lock', idx', ix')
    BY <1>1, <1>2, <1>4, <1>5, <1>6, <1>7, <2>1, <2>3
       DEF CommandOK, Healing, Moving, SealedOK, BeforeSeal, IndexesOK
  <2>5. lock \notin {"tick", "host"} /\ seen' \in past \cup {0} /\ UNCHANGED offers
    BY <1>2, <1>4, <1>7 DEF RefsOK
  <2>6. GitInv'
    BY <1>1, <1>2, <1>4, <1>7, <2>1, <2>2, <2>4, <2>5, BoxSteps DEF RefsOK, IndexesOK
  <2> QED BY <1>1, <2>3, <2>6, SparesItself, KeepsWhatItSpares
<1>8. CASE ~takes
  <2>1. v \in GitCommands /\ v.pc = c.back /\ v.cur = c.cur /\ v.old = c.old /\ v.held = c.held
    BY <1>5, <1>6, PcMoves DEF GitPcs
  <2> HIDE DEF v
  <2>2. CommandOK(World, v, lock, idx, ix)
    BY <1>5, <1>6, <2>1 DEF CommandOK, Healing, Moving, SealedOK, BeforeSeal
  <2>3. offers' \in Seq(GoodOffers(World))
    BY <1>3, <1>4, <1>6, <1>8, NewOffers, OffersLeft
  <2>4. seen' \in past \cup {0}
    BY <1>3, <1>4, <1>8 DEF RefsOK
  <2>5. GitInv'
    BY <1>1, <1>3, <1>4, <1>8, <2>1, <2>2, <2>3, <2>4, BoxSteps DEF RefsOK, IndexesOK
  <2> QED BY <1>1, <1>3, <1>8, <2>5, KeepsUntouched
<1> QED BY <1>7, <1>8

LEMMA InstalledStep ==
  ASSUME GitInv, Git!Installed(BoxSession)
  PROVE  GitInv' /\ StepKeeps
<1> DEFINE c == cmd[BoxSession]
           to == IF head = c.of THEN "mark" ELSE c.back
           w == [c EXCEPT !.pc = to]
<1>1. /\ c.pc = "installed" /\ seen' = head /\ lock' = "free"
      /\ idx' \in {idx, c.base} /\ cmd' = [cmd EXCEPT ![BoxSession] = w]
      /\ UNCHANGED <<commits, head, past, op, host, tick, sync, offers, ix, rec, staged>>
  BY DEF Git!Installed, Git!Goto, Git!refs, Git!boxed, Git!ghosts
<1>2. /\ RefsOK /\ IndexesOK /\ offers \in Seq(GoodOffers(World)) /\ c.pc \notin {"idle", "seed"}
  BY <1>1 DEF GitInv
<1> HIDE DEF c
<1>3. /\ c \in GitCommands /\ c.cur \in past \cup {0} /\ c.old \in past \cup {0}
      /\ ix # Git!NoTree /\ Healing(World, c, lock, idx, ix) /\ SealedOK(World, c, lock, idx)
      /\ World.past = past
  BY <1>2, CommandIs DEF c
<1>4. /\ c.of \in past /\ lock = BoxSession /\ c.base \in GitIndexes
      /\ Swaps(World, idx.tree, c.base.tree) /\ (c.back = "again" => c.held = Git!NoTree)
      /\ to \in {"mark", c.back} /\ c.back \in {"idle", "again"} /\ to \in GitPcs
  BY <1>1, <1>3 DEF Healing, SealedOK, GitCommands, GitPcs
<1> HIDE DEF to
<1>5. /\ w \in GitCommands /\ w.pc = to /\ w.cur = c.cur /\ w.old = c.old /\ w.held = c.held
      /\ w.of = c.of /\ w.back = c.back
  BY <1>3, <1>4, PcMoves
<1> HIDE DEF w
<1>6. CommandOK(World, w, lock', idx', ix')
  BY <1>1, <1>3, <1>4, <1>5 DEF CommandOK, Healing, Moving, SealedOK, BeforeSeal
<1>7. idx' \in GitIndexes /\ Spares(World, idx.tree, idx'.tree)
  BY <1>1, <1>2, <1>4, SparesItself DEF IndexesOK, Swaps
<1>8. lock \notin {"tick", "host"}
  BY <1>4, GitAssumption
<1>9. GitInv'
  BY <1>1, <1>2, <1>5, <1>6, <1>7, <1>8, BoxSteps DEF RefsOK, IndexesOK
<1> QED BY <1>1, <1>7, <1>9, SparesItself, KeepsWhatItSpares

LEMMA MarkStep ==
  ASSUME GitInv, Git!Mark(BoxSession)
  PROVE  GitInv' /\ StepKeeps
<1> DEFINE c == cmd[BoxSession]
           w == [c EXCEPT !.pc = c.back]
<1>1. /\ c.pc = "mark" /\ sync' = c.of /\ cmd' = [cmd EXCEPT ![BoxSession] = w]
      /\ UNCHANGED <<commits, head, past, seen, op, host, tick, idx, lock, ix, rec, staged>>
  BY DEF Git!Mark, Git!Goto, Git!refs, Git!boxed, Git!ghosts
<1>2. /\ RefsOK /\ IndexesOK /\ offers \in Seq(GoodOffers(World)) /\ c.pc \notin {"idle", "seed"}
  BY <1>1 DEF GitInv
<1>3. offers' \in Seq(GoodOffers(World))
  BY <1>2, OnlyOfOffers DEF Git!Mark
<1> HIDE DEF c
<1>4. /\ c \in GitCommands /\ c.cur \in past \cup {0} /\ c.old \in past \cup {0}
      /\ ix # Git!NoTree /\ Healing(World, c, lock, idx, ix) /\ SealedOK(World, c, lock, idx)
      /\ World.past = past
  BY <1>2, CommandIs DEF c
<1>5. /\ c.of \in past /\ (c.back = "again" => c.held = Git!NoTree)
      /\ c.back \in {"idle", "again"} /\ c.back \in GitPcs
  BY <1>1, <1>4 DEF Healing, SealedOK, GitCommands, GitPcs
<1>6. w \in GitCommands /\ w.pc = c.back /\ w.cur = c.cur /\ w.old = c.old /\ w.held = c.held
  BY <1>4, <1>5, PcMoves
<1> HIDE DEF w
<1>7. CommandOK(World, w, lock, idx, ix)
  BY <1>4, <1>5, <1>6 DEF CommandOK, Healing, Moving, SealedOK, BeforeSeal
<1>8. GitInv'
  BY <1>1, <1>2, <1>3, <1>5, <1>6, <1>7, BoxSteps DEF RefsOK, IndexesOK
<1> QED BY <1>1, <1>8, KeepsUntouched

LEMMA LookAgainStep ==
  ASSUME GitInv, Git!LookAgain(BoxSession)
  PROVE  GitInv' /\ StepKeeps
<1> DEFINE c == cmd[BoxSession]
           again == [c EXCEPT !.pc = "heal", !.tries = @ - 1]
           runs == [c EXCEPT !.pc = "run"]
<1>1. /\ c.pc = "again" /\ seen' = head
      /\ \E w \in {again, Git!NoCmd, runs} : cmd' = [cmd EXCEPT ![BoxSession] = w]
      /\ UNCHANGED <<commits, head, past, op, host, tick, idx, lock, sync, offers, ix, rec, staged>>
  BY DEF Git!LookAgain, Git!refs, Git!shared, Git!boxed, Git!ghosts
<1>2. /\ RefsOK /\ IndexesOK /\ offers \in Seq(GoodOffers(World)) /\ c.pc \notin {"idle", "seed"}
      /\ {"heal", "run"} \subseteq GitPcs
  BY <1>1 DEF GitInv, GitPcs
<1> HIDE DEF c
<1>3. /\ c \in GitCommands /\ c.cur \in past \cup {0} /\ c.old \in past \cup {0}
      /\ ix # Git!NoTree /\ SealedOK(World, c, lock, idx) /\ World.past = past
  BY <1>2, CommandIs DEF c
<1>4. c.held = Git!NoTree
  BY <1>1, <1>3 DEF SealedOK, BeforeSeal
<1>5. /\ again \in GitCommands /\ again.pc = "heal" /\ again.cur = c.cur /\ again.old = c.old
      /\ again.held = c.held
  <2> DEFINE tries == c.tries - 1
  <2>1. tries \in Int
    BY <1>3 DEF GitCommands
  <2>2. again = [c EXCEPT !.pc = "heal", !.tries = tries]
    OBVIOUS
  <2> HIDE DEF again, tries
  <2> QED BY <1>2, <1>3, <2>1, <2>2 DEF GitCommands
<1>6. runs \in GitCommands /\ runs.pc = "run" /\ runs.cur = c.cur /\ runs.old = c.old /\ runs.held = c.held
  BY <1>2, <1>3, PcMoves
<1> HIDE DEF again, runs
<1>7. ASSUME NEW w \in {again, Git!NoCmd, runs}
      PROVE  w \in GitCommands \cup {Git!NoCmd} /\ CommandOK(World, w, lock, idx, ix)
  <2>1. CommandOK(World, again, lock, idx, ix)
    BY <1>3, <1>4, <1>5 DEF CommandOK, Healing, Moving, SealedOK
  <2>2. CommandOK(World, runs, lock, idx, ix)
    BY <1>3, <1>4, <1>6 DEF CommandOK, Healing, Moving, SealedOK
  <2> QED BY <1>5, <1>6, <2>1, <2>2, NoCmdOK
<1>8. GitInv'
  BY <1>1, <1>2, <1>7, BoxSteps DEF RefsOK, IndexesOK
<1> QED BY <1>1, <1>8, KeepsUntouched

LEMMA RunAddStep ==
  ASSUME GitInv, Git!RunAdd(BoxSession)
  PROVE  GitInv' /\ StepKeeps
<1>1. /\ cmd[BoxSession].pc = "run" /\ cmd' = [cmd EXCEPT ![BoxSession] = Git!NoCmd]
      /\ \E p \in GitPaths, v \in GitContents :
           /\ v # ix[p] /\ ix' = [ix EXCEPT ![p] = v] /\ staged' = [staged EXCEPT !["box"][p] = v]
      /\ UNCHANGED <<commits, head, past, seen, op, host, tick, idx, lock, sync, offers, rec>>
  BY DEF Git!RunAdd, Git!Done, Git!refs, Git!shared
<1>2. /\ RefsOK /\ IndexesOK /\ offers \in Seq(GoodOffers(World)) /\ cmd[BoxSession].pc \notin {"idle", "seed"}
  BY <1>1 DEF GitInv
<1>3. ix \in GitTrees
  BY <1>2, CommandIs
<1>4. PICK p \in GitPaths, v \in GitContents :
        /\ v # ix[p] /\ ix' = [ix EXCEPT ![p] = v] /\ staged' = [staged EXCEPT !["box"][p] = v]
  BY <1>1
<1>5. ix' \in GitTrees
  BY <1>3, <1>4 DEF GitTrees, GitValues
<1>6. staged' \in GitStaged /\ staged'["box"][p] = v
  BY <1>2, <1>4 DEF IndexesOK, GitStaged, GitValues
<1>7. CommandOK(World, Git!NoCmd, lock', idx', ix')
  BY NoCmdOK
<1>8. GitInv'
  BY <1>1, <1>2, <1>5, <1>6, <1>7, BoxSteps, TreesAreTrees DEF RefsOK, IndexesOK, GitTreesOrNone
<1>9. StepKeeps
  <2>1. staged'["box"] = staged["box"] => Git!Kept("box", ix, ix')
    BY <1>3, <1>4, <1>6 DEF Git!Kept, GitTrees
  <2>2. Git!Kept("host", idx.tree, idx'.tree)
    BY <1>1 DEF Git!Kept
  <2> QED BY <2>1, <2>2 DEF StepKeeps
<1> QED BY <1>8, <1>9

LEMMA RunCommitStep ==
  ASSUME GitInv, Git!RunCommit(BoxSession)
  PROVE  GitInv' /\ StepKeeps
<1> DEFINE c == cmd[BoxSession]
           asked == Git!AskedBy({"box", "seed"})
           new == Len(commits) + 1
           w == [c EXCEPT !.pc = "ref", !.old = seen, !.tree = ix, !.new = new, !.asked = asked]
<1>1. /\ c.pc = "run" /\ c.sub = "commit"
      /\ cmd' = [cmd EXCEPT ![BoxSession] = w] \/ cmd' = [cmd EXCEPT ![BoxSession] = Git!NoCmd]
      /\ UNCHANGED <<commits, head, past, seen, op, host, tick, idx, lock, sync, offers, ix, rec, staged>>
  <2>1. \/ cmd' = [cmd EXCEPT ![BoxSession].pc = "ref", ![BoxSession].old = seen, ![BoxSession].tree = ix,
                              ![BoxSession].new = new, ![BoxSession].asked = asked]
        \/ cmd' = [cmd EXCEPT ![BoxSession] = Git!NoCmd]
    BY DEF Git!RunCommit, Git!Done
  <2>2. BoxSession \in DOMAIN cmd
    BY DEF GitInv
  <2>3. cmd' = [cmd EXCEPT ![BoxSession] = w] \/ cmd' = [cmd EXCEPT ![BoxSession] = Git!NoCmd]
    <3> HIDE DEF asked, new
    <3> QED BY <2>1, <2>2
  <2> QED BY <2>3 DEF Git!RunCommit, Git!refs, Git!shared, Git!boxed, Git!ghosts
<1>2. /\ RefsOK /\ IndexesOK /\ offers \in Seq(GoodOffers(World)) /\ c.pc \notin {"idle", "seed"}
      /\ "ref" \in GitPcs
  BY <1>1 DEF GitInv, GitPcs
<1>3. asked \in GitAsked /\ new \in Nat
  BY <1>2 DEF Git!AskedBy, GitAsked, IndexesOK, GitStaged, RefsOK
<1> HIDE DEF c, asked, new
<1>4. /\ c \in GitCommands /\ c.cur \in past \cup {0} /\ ix # Git!NoTree /\ ix \in GitTrees
      /\ SealedOK(World, c, lock, idx) /\ World.past = past
  BY <1>2, CommandIs DEF c
<1>5. c.held = Git!NoTree /\ seen \in Nat /\ seen \in past \cup {0}
  BY <1>1, <1>2, <1>4, PastIsNat DEF SealedOK, BeforeSeal, RefsOK
<1>6. /\ w \in GitCommands /\ w.pc = "ref" /\ w.cur = c.cur /\ w.old = seen /\ w.held = c.held
      /\ w.tree = ix /\ w.sub = c.sub
  BY <1>2, <1>3, <1>4, <1>5 DEF GitCommands, IndexesOK
<1> HIDE DEF w
<1>7. CommandOK(World, w, lock, idx, ix)
  BY <1>1, <1>4, <1>5, <1>6 DEF CommandOK, Healing, Moving, SealedOK
<1>8. GitInv'
  BY <1>1, <1>2, <1>6, <1>7, NoCmdOK, BoxSteps DEF RefsOK, IndexesOK
<1> QED BY <1>1, <1>8, KeepsUntouched

(* Nobody stages nothing.                                                  *)
LEMMA NothingIsNoValue == Git!Nothing \notin GitValues
BY GitAssumption DEF Git!Nothing, GitValues

LEMMA RunMoveStep ==
  ASSUME GitInv, Git!RunMove(BoxSession)
  PROVE  GitInv' /\ StepKeeps
<1> DEFINE c == cmd[BoxSession]
           to == IF seen = 0 \/ c.sub = "force" THEN seen ELSE Git!Parent(seen)
           w == [c EXCEPT !.pc = "ref", !.new = to, !.tree = Git!Tree(to)]
           given == \/ UNCHANGED <<ix, staged>>
                    \/ /\ ix' = Git!Tree(to)
                       /\ staged' = [staged EXCEPT !["box"] = Git!Differing(Git!Tree(to), head)]
<1>1. /\ c.pc = "run" /\ c.sub \in {"soft", "mixed", "force"}
      /\ \/ cmd' = [cmd EXCEPT ![BoxSession] = Git!NoCmd] /\ UNCHANGED <<ix, staged>>
         \/ cmd' = [cmd EXCEPT ![BoxSession] = w] /\ to # 0 /\ given
      /\ UNCHANGED <<commits, head, past, seen, op, host, tick, idx, lock, sync, offers, rec>>
  <2> DEFINE moved == Git!Tree(to)
  <2>1. \/ cmd' = [cmd EXCEPT ![BoxSession] = Git!NoCmd] /\ UNCHANGED <<ix, staged>>
        \/ /\ cmd' = [cmd EXCEPT ![BoxSession].pc = "ref", ![BoxSession].new = to, ![BoxSession].tree = moved]
           /\ to # 0 /\ given
    BY DEF Git!RunMove, Git!Done
  <2>2. BoxSession \in DOMAIN cmd
    BY DEF GitInv
  <2>3. \/ cmd' = [cmd EXCEPT ![BoxSession] = Git!NoCmd] /\ UNCHANGED <<ix, staged>>
        \/ /\ cmd' = [cmd EXCEPT ![BoxSession] = [c EXCEPT !.pc = "ref", !.new = to, !.tree = moved]]
           /\ to # 0 /\ given
    <3> HIDE DEF moved, to, given
    <3> QED BY <2>1, <2>2
  <2>4. c.pc = "run" /\ c.sub \in {"soft", "mixed", "force"}
    BY DEF Git!RunMove
  <2> HIDE DEF c, to, given
  <2>5. UNCHANGED <<commits, head, past, seen, op, host, tick, idx, lock, sync, offers, rec>>
    BY DEF Git!RunMove, Git!refs, Git!shared
  <2> QED BY <2>3, <2>4, <2>5
<1>2. /\ RefsOK /\ IndexesOK /\ offers \in Seq(GoodOffers(World)) /\ c.pc \notin {"idle", "seed"}
      /\ "ref" \in GitPcs
  BY <1>1 DEF GitInv, GitPcs
<1>3. to # 0 => to \in 1..Len(commits)
  <2>1. Len(commits) \in Nat
    BY <1>2 DEF RefsOK
  <2>2. seen # 0 => seen \in 1..Len(commits) /\ Git!Parent(seen) \in 0..Len(commits)
    BY <1>2 DEF RefsOK, Git!Parent
  <2> QED BY <2>1, <2>2
<1> HIDE DEF c, to
<1>4. /\ c \in GitCommands /\ c.cur \in past \cup {0} /\ c.old \in past \cup {0}
      /\ ix # Git!NoTree /\ ix \in GitTrees
      /\ SealedOK(World, c, lock, idx) /\ World.past = past /\ World.made = Len(commits)
  BY <1>2, CommandIs DEF c
<1>5. c.held = Git!NoTree
  BY <1>1, <1>4 DEF SealedOK, BeforeSeal
<1>6. CASE cmd' = [cmd EXCEPT ![BoxSession] = Git!NoCmd] /\ UNCHANGED <<ix, staged>>
  <2>1. GitInv'
    BY <1>1, <1>2, <1>6, NoCmdOK, BoxSteps DEF RefsOK, IndexesOK
  <2> QED BY <1>1, <1>6, <2>1, KeepsUntouched
<1>7. CASE cmd' = [cmd EXCEPT ![BoxSession] = w] /\ to # 0 /\ given
  <2> DEFINE moved == Git!Tree(to)
  <2>1. moved \in GitTrees /\ to \in Nat
    <3>1. commits \in Seq(GitCommits) /\ to \in 1..Len(commits)
      BY <1>2, <1>3, <1>7 DEF RefsOK
    <3>2. commits[to] \in GitCommits /\ to \in Nat
      BY <3>1
    <3> QED BY <3>2 DEF Git!Tree, GitCommits
  <2>2. Git!Differing(moved, head) \in [GitPaths -> GitValues \cup {Git!Nothing}]
        /\ \A p \in GitPaths : Git!Differing(moved, head)[p] \in {moved[p], Git!Nothing}
    BY <2>1 DEF Git!Differing, GitTrees
  <2> HIDE DEF moved
  <2>3. /\ w \in GitCommands /\ w.pc = "ref" /\ w.cur = c.cur /\ w.old = c.old /\ w.held = c.held
        /\ w.tree = moved /\ w.sub = c.sub /\ w.new = to
    BY <1>2, <1>4, <2>1 DEF GitCommands, GitTreesOrNone, moved
  <2> HIDE DEF w
  <2>4. ix' \in GitTrees /\ staged' \in GitStaged
    <3>1. CASE UNCHANGED <<ix, staged>>
      BY <1>2, <1>4, <3>1 DEF IndexesOK
    <3>2. CASE /\ ix' = moved
               /\ staged' = [staged EXCEPT !["box"] = Git!Differing(moved, head)]
      BY <1>2, <2>1, <2>2, <3>2 DEF IndexesOK, GitStaged
    <3> QED BY <1>7, <3>1, <3>2 DEF moved
  <2>5. CommandOK(World, w, lock', idx', ix')
    BY <1>1, <1>3, <1>4, <1>5, <1>7, <2>1, <2>3, <2>4, TreesAreTrees
       DEF CommandOK, Healing, Moving, SealedOK
  <2>6. GitInv'
    BY <1>1, <1>2, <1>7, <2>3, <2>4, <2>5, BoxSteps, TreesAreTrees DEF RefsOK, IndexesOK, GitTreesOrNone
  <2>7. staged'["box"] = staged["box"] => Git!Kept("box", ix, ix')
    <3>1. CASE UNCHANGED <<ix, staged>>
      BY <3>1 DEF Git!Kept
    <3>2. CASE /\ ix' = moved
               /\ staged' = [staged EXCEPT !["box"] = Git!Differing(moved, head)]
      <4>1. staged'["box"] = Git!Differing(moved, head)
        BY <1>2, <3>2 DEF IndexesOK, GitStaged
      <4> QED BY <1>4, <2>2, <3>2, <4>1, NothingIsNoValue DEF Git!Kept, GitTrees
    <3> QED BY <1>7, <3>1, <3>2 DEF moved
  <2>8. Git!Kept("host", idx.tree, idx'.tree)
    BY <1>1 DEF Git!Kept
  <2> QED BY <2>6, <2>7, <2>8 DEF StepKeeps
<1> QED BY <1>1, <1>6, <1>7

LEMMA PrepareStep ==
  ASSUME GitInv, Git!Prepare(BoxSession)
  PROVE  GitInv' /\ StepKeeps
<1> DEFINE c == cmd[BoxSession]
           w == [c EXCEPT !.pc = "build"]
<1>1. /\ c.pc = "ref" /\ seen' = head
      /\ cmd' = [cmd EXCEPT ![BoxSession] = w] \/ cmd' = [cmd EXCEPT ![BoxSession] = Git!NoCmd]
      /\ UNCHANGED <<commits, head, past, op, host, tick, idx, lock, sync, offers, ix, rec, staged>>
  BY DEF Git!Prepare, Git!Goto, Git!Done, Git!refs, Git!shared, Git!boxed, Git!ghosts
<1>2. /\ RefsOK /\ IndexesOK /\ offers \in Seq(GoodOffers(World)) /\ c.pc \notin {"idle", "seed"}
      /\ "build" \in GitPcs
  BY <1>1 DEF GitInv, GitPcs
<1> HIDE DEF c
<1>3. /\ c \in GitCommands /\ c.cur \in past \cup {0} /\ c.old \in past \cup {0}
      /\ ix # Git!NoTree /\ Moving(World, c) /\ SealedOK(World, c, lock, idx) /\ World.past = past
  BY <1>2, CommandIs DEF c
<1>4. /\ w \in GitCommands /\ w.pc = "build" /\ w.cur = c.cur /\ w.old = c.old /\ w.held = c.held
      /\ w.sub = c.sub /\ w.new = c.new /\ w.tree = c.tree
  BY <1>2, <1>3, PcMoves
<1> HIDE DEF w
<1>5. CommandOK(World, w, lock, idx, ix)
  BY <1>1, <1>3, <1>4 DEF CommandOK, Healing, Moving, SealedOK, BeforeSeal
<1>6. GitInv'
  BY <1>1, <1>2, <1>4, <1>5, NoCmdOK, BoxSteps DEF RefsOK, IndexesOK
<1> QED BY <1>1, <1>6, KeepsUntouched

LEMMA SealBuildStep ==
  ASSUME GitInv, Git!SealBuild(BoxSession)
  PROVE  GitInv' /\ StepKeeps
<1> DEFINE c == cmd[BoxSession]
           build == Git!Sealing(sync, idx.tree, c.tree)
           lands == [c EXCEPT !.pc = "land"]
           seals == [c EXCEPT !.pc = "seal", !.of = sync, !.base = idx, !.build = build]
<1>1. /\ c.pc = "build"
      /\ \/ cmd' = [cmd EXCEPT ![BoxSession] = lands]
         \/ cmd' = [cmd EXCEPT ![BoxSession] = seals] /\ sync # 0 /\ build # Git!NoTree
      /\ UNCHANGED <<commits, head, past, seen, op, host, tick, idx, lock, sync, offers, ix, rec, staged>>
  BY DEF Git!SealBuild, Git!refs, Git!shared, Git!boxed
<1>2. /\ RefsOK /\ IndexesOK /\ offers \in Seq(GoodOffers(World)) /\ c.pc \notin {"idle", "seed"}
      /\ "land" \in GitPcs /\ "seal" \in GitPcs
  BY <1>1 DEF GitInv, GitPcs
<1> HIDE DEF c
<1>3. /\ c \in GitCommands /\ c.cur \in past \cup {0} /\ c.old \in past \cup {0}
      /\ ix # Git!NoTree /\ Moving(World, c) /\ SealedOK(World, c, lock, idx) /\ World.past = past
  BY <1>2, CommandIs DEF c
<1>4. c.held = Git!NoTree /\ c.tree \in GitTrees
  BY <1>1, <1>3 DEF SealedOK, BeforeSeal, Moving
<1>5. sync # 0 /\ build # Git!NoTree => build \in GitTrees /\ Spares(World, idx.tree, build)
  <2>1. idx.tree \in GitTrees /\ (sync # 0 => sync \in past)
    BY <1>2 DEF IndexesOK, GitIndexes, RefsOK
  <2> QED BY <1>2, <1>4, <2>1, SealingSpares
<1> HIDE DEF build
<1>6. /\ lands \in GitCommands /\ lands.pc = "land" /\ lands.cur = c.cur /\ lands.old = c.old
      /\ lands.held = c.held /\ lands.sub = c.sub /\ lands.new = c.new /\ lands.tree = c.tree
  BY <1>2, <1>3, PcMoves
<1>7. sync # 0 /\ build # Git!NoTree =>
        /\ seals \in GitCommands /\ seals.pc = "seal" /\ seals.cur = c.cur /\ seals.old = c.old
        /\ seals.held = c.held /\ seals.sub = c.sub /\ seals.new = c.new /\ seals.tree = c.tree
        /\ seals.of = sync /\ seals.base = idx /\ seals.build = build
  <2>1. sync \in Nat /\ idx \in GitIndexesOrNone
    BY <1>2, PastIsNat DEF RefsOK, IndexesOK, GitIndexesOrNone
  <2> QED BY <1>2, <1>3, <1>5, <2>1 DEF GitCommands, GitTreesOrNone
<1> HIDE DEF lands, seals
<1>8. CommandOK(World, lands, lock, idx, ix)
  BY <1>1, <1>3, <1>4, <1>6 DEF CommandOK, Healing, Moving, SealedOK, BeforeSeal
<1>9. sync # 0 /\ build # Git!NoTree => CommandOK(World, seals, lock, idx, ix)
  BY <1>1, <1>2, <1>3, <1>4, <1>5, <1>7
     DEF CommandOK, Healing, Moving, SealedOK, BeforeSeal, RefsOK, IndexesOK
<1>10. GitInv'
  BY <1>1, <1>2, <1>6, <1>7, <1>8, <1>9, BoxSteps DEF RefsOK, IndexesOK
<1> QED BY <1>1, <1>10, KeepsUntouched

LEMMA SealStep ==
  ASSUME GitInv, Git!Seal(BoxSession)
  PROVE  GitInv' /\ StepKeeps
<1> DEFINE c == cmd[BoxSession]
           build == IF idx = c.base THEN c.build ELSE Git!Sealing(c.of, idx.tree, c.tree)
           sealed == lock = "free" /\ build # Git!NoTree
           held == IF sealed THEN build ELSE Git!NoTree
           w == [c EXCEPT !.pc = "land", !.held = held]
<1>1. /\ c.pc = "seal" /\ lock' = (IF sealed THEN BoxSession ELSE lock)
      /\ cmd' = [cmd EXCEPT ![BoxSession] = w]
      /\ UNCHANGED <<commits, head, past, seen, op, host, tick, idx, sync, offers, ix, rec, staged>>
  <2>1. cmd' = [cmd EXCEPT ![BoxSession].pc = "land", ![BoxSession].held = held]
    BY DEF Git!Seal
  <2>2. BoxSession \in DOMAIN cmd
    BY DEF GitInv
  <2>3. cmd' = [cmd EXCEPT ![BoxSession] = w]
    <3> HIDE DEF held
    <3> QED BY <2>1, <2>2
  <2> QED BY <2>3 DEF Git!Seal, Git!refs, Git!boxed, Git!ghosts
<1>2. /\ RefsOK /\ IndexesOK /\ offers \in Seq(GoodOffers(World)) /\ c.pc \notin {"idle", "seed"}
      /\ "land" \in GitPcs
  BY <1>1 DEF GitInv, GitPcs
<1> HIDE DEF c
<1>3. /\ c \in GitCommands /\ c.cur \in past \cup {0} /\ c.old \in past \cup {0}
      /\ ix # Git!NoTree /\ Moving(World, c) /\ SealedOK(World, c, lock, idx) /\ World.past = past
  BY <1>2, CommandIs DEF c
<1>4. /\ c.of \in past /\ c.build \in GitTrees /\ Spares(World, c.base.tree, c.build)
      /\ c.tree \in GitTrees
  BY <1>1, <1>3 DEF SealedOK, Moving
<1>5. build # Git!NoTree => build \in GitTrees /\ Spares(World, idx.tree, build)
  <2>1. idx.tree \in GitTrees
    BY <1>2 DEF IndexesOK, GitIndexes
  <2> QED BY <1>2, <1>4, <2>1, SealingSpares
<1> HIDE DEF build
<1>6. /\ held \in GitTreesOrNone
      /\ held # Git!NoTree => sealed /\ Spares(World, idx.tree, held)
  BY <1>5 DEF GitTreesOrNone
<1> HIDE DEF held
<1>7. /\ w \in GitCommands /\ w.pc = "land" /\ w.cur = c.cur /\ w.old = c.old /\ w.held = held
      /\ w.sub = c.sub /\ w.new = c.new /\ w.tree = c.tree
  BY <1>2, <1>3, <1>6 DEF GitCommands
<1> HIDE DEF w
<1>8. CommandOK(World, w, lock', idx', ix')
  BY <1>1, <1>3, <1>6, <1>7 DEF CommandOK, Healing, Moving, SealedOK, BeforeSeal
<1>9. lock \in {"tick", "host"} => UNCHANGED <<lock, idx>>
  BY <1>1
<1>10. GitInv'
  BY <1>1, <1>2, <1>7, <1>8, <1>9, BoxSteps DEF RefsOK, IndexesOK
<1> QED BY <1>1, <1>10, KeepsUntouched

(* A new commit, and a branch moved to one that is.                        *)
LEMMA CommitMade ==
  ASSUME RefsOK, NEW n \in GitCommits, n.parent \in past \cup {0},
         commits' = Append(commits, n), head' = Len(commits) + 1, past' = past \cup {Len(commits) + 1},
         seen' \in past' \cup {0}, sync' \in past' \cup {0}, rec' \in past' \cup {0}, op' \in BOOLEAN
  PROVE  RefsOK' /\ Grew(World, World')
<1> DEFINE k == Len(commits)
<1>1. /\ commits' \in Seq(GitCommits) /\ k \in Nat /\ Len(commits') = k + 1
      /\ \A c \in 1..k : commits'[c] = commits[c]
      /\ commits'[k + 1] = n
  BY DEF RefsOK
<1>2. /\ head' = k + 1 /\ past' = past \cup {k + 1} /\ past \subseteq 1..k
      /\ \A c \in 1..k : commits[c].parent \in 0..k
  BY DEF RefsOK
<1>3. /\ 0..k \subseteq 0..(k + 1) /\ 1..k \subseteq 1..(k + 1) /\ 1..k \subseteq 0..(k + 1)
      /\ k + 1 \in 1..(k + 1) /\ 0 \in 0..(k + 1) /\ 1..(k + 1) \subseteq 1..k \cup {k + 1}
  <2>1. k \in Nat
    BY <1>1
  <2> HIDE DEF k
  <2> QED BY <2>1
<1> HIDE DEF k
<1>4. \A c \in 1..(k + 1) : commits'[c].parent \in 0..(k + 1)
  <2> SUFFICES ASSUME NEW c \in 1..(k + 1) PROVE commits'[c].parent \in 0..(k + 1)
    OBVIOUS
  <2>1. CASE c \in 1..k
    <3>1. commits'[c].parent \in 0..k
      BY <1>1, <1>2, <2>1
    <3> QED BY <1>3, <3>1
  <2>2. CASE c = k + 1
    <3>1. commits'[c].parent \in past \cup {0}
      BY <1>1, <2>2
    <3> QED BY <1>3, <1>2, <3>1
  <2> QED BY <1>3, <2>1, <2>2
<1>5. past' \subseteq 1..(k + 1) /\ head' \in past'
  BY <1>3, <1>2
<1>6. Grew(World, World')
  <2>1. \A c \in past : commits'[c].tree = commits[c].tree
    BY <1>1, <1>2
  <2>2. Len(commits) <= Len(commits')
    BY <1>1 DEF k
  <2> QED BY <1>1, <1>2, <2>1, <2>2, WorldGrows
<1> QED BY <1>1, <1>4, <1>5, <1>6 DEF RefsOK

LEMMA BranchMoved ==
  ASSUME RefsOK, NEW to \in 1..Len(commits), commits' = commits, head' = to, past' = past \cup {to},
         seen' \in past' \cup {0}, sync' \in past' \cup {0}, rec' \in past' \cup {0}, op' \in BOOLEAN
  PROVE  RefsOK' /\ Grew(World, World')
<1>1. RefsOK'
  BY DEF RefsOK
<1>2. Len(commits) \in Nat
  BY DEF RefsOK
<1> QED BY <1>1, <1>2, WorldGrows DEF RefsOK

(* What a user staged, told again, or less of it.                          *)
LEMMA StagedAnew ==
  ASSUME IndexesOK
  PROVE  /\ \A side \in {"box", "host", "seed"}, t \in GitTrees : \A c :
              [staged EXCEPT ![side] = Git!Differing(t, c)] \in GitStaged
         /\ \A side \in {"box", "host", "seed"} : \A t :
              [staged EXCEPT ![side] = Git!Committed(@, t)] \in GitStaged
         /\ \A side \in {"box", "host", "seed"}, t \in GitTrees : [staged EXCEPT ![side] = t] \in GitStaged
         /\ \A side \in {"box", "host", "seed"} : [staged EXCEPT ![side] = Git!Unstaged] \in GitStaged
<1> DEFINE Tellings == [GitPaths -> GitValues \cup {Git!Nothing}]
<1>1. /\ \A side \in {"box", "host", "seed"}, said \in Tellings : [staged EXCEPT ![side] = said] \in GitStaged
      /\ \A side \in {"box", "host", "seed"} : staged[side] \in Tellings
  BY DEF IndexesOK, GitStaged
<1>2. \A t \in GitTrees : \A c : Git!Differing(t, c) \in Tellings
  BY DEF Git!Differing, GitTrees
<1>3. \A said \in Tellings : \A t : Git!Committed(said, t) \in Tellings
  BY DEF Git!Committed
<1>4. GitTrees \subseteq Tellings /\ Git!Unstaged \in Tellings
  BY DEF GitTrees, Git!Unstaged
<1> HIDE DEF Tellings
<1> QED BY <1>1, <1>2, <1>3, <1>4

LEMMA LandStep ==
  ASSUME GitInv, Git!Land(BoxSession)
  PROVE  GitInv' /\ StepKeeps
<1> DEFINE c == cmd[BoxSession]
           to == IF c.sub = "commit" THEN Len(commits) + 1 ELSE c.new
           n == Git!NewCommit(c.old, c.tree, "box", c.asked, ~c.skipped)
           w == [c EXCEPT !.pc = "finish", !.new = to]
<1>1. /\ c.pc = "land" /\ head' = to /\ past' = past \cup {to} /\ seen' = to
      /\ cmd' = [cmd EXCEPT ![BoxSession] = w]
      /\ c.sub = "commit" => commits' = Append(commits, n)
      /\ c.sub # "commit" => commits' = commits
      /\ UNCHANGED <<op, host, tick, idx, lock, sync, offers, ix, rec>>
  <2>1. cmd' = [cmd EXCEPT ![BoxSession].pc = "finish", ![BoxSession].new = to]
    BY DEF Git!Land
  <2>2. BoxSession \in DOMAIN cmd
    BY DEF GitInv
  <2>3. cmd' = [cmd EXCEPT ![BoxSession] = w]
    <3> HIDE DEF to
    <3> QED BY <2>1, <2>2
  <2>4. /\ c.sub = "commit" => commits' = Append(commits, n)
        /\ c.sub # "commit" => commits' = commits
    BY DEF Git!Land
  <2>5. c.pc = "land" /\ head' = to /\ past' = past \cup {to} /\ seen' = to
    BY DEF Git!Land
  <2> HIDE DEF c, to, n, w
  <2> QED BY <2>3, <2>4, <2>5 DEF Git!Land, Git!shared, Git!boxed
<1>2. /\ RefsOK /\ IndexesOK /\ offers \in Seq(GoodOffers(World)) /\ c.pc \notin {"idle", "seed"}
      /\ "finish" \in GitPcs
  BY <1>1 DEF GitInv, GitPcs
<1> HIDE DEF c
<1>3. /\ c \in GitCommands /\ c.cur \in past \cup {0} /\ c.old \in past \cup {0}
      /\ ix # Git!NoTree /\ ix \in GitTrees /\ Moving(World, c) /\ SealedOK(World, c, lock, idx)
      /\ World.past = past /\ World.made = Len(commits)
  BY <1>2, CommandIs DEF c
<1>4. c.tree \in GitTrees /\ (c.sub # "commit" => c.new \in 1..Len(commits))
  BY <1>1, <1>3 DEF Moving
<1>5. n \in GitCommits /\ n.parent = c.old
  <2>1. c.old \in Nat /\ c.asked \in GitAsked /\ c.skipped \in BOOLEAN
    BY <1>3 DEF GitCommands
  <2> QED BY <1>4, <2>1 DEF GitCommits, Git!NewCommit
<1> HIDE DEF n
<1>6. RefsOK' /\ Grew(World, World')
  <2>1. {sync', rec', seen'} \subseteq past' \cup {0} /\ op' \in BOOLEAN
    BY <1>1, <1>2 DEF RefsOK
  <2>2. CASE c.sub = "commit"
    BY <1>1, <1>2, <1>3, <1>5, <2>1, <2>2, CommitMade
  <2>3. CASE c.sub # "commit"
    BY <1>1, <1>2, <1>4, <2>1, <2>3, BranchMoved
  <2> QED BY <2>2, <2>3
<1>7. staged' \in GitStaged
  <2>1. staged' \in {staged, [staged EXCEPT !["box"] = Git!Committed(@, c.tree)],
                     [staged EXCEPT !["box"] = Git!Differing(ix, to)], [staged EXCEPT !["seed"] = ix]}
    BY DEF Git!Land, c
  <2> HIDE DEF to
  <2> QED BY <1>2, <1>3, <2>1, StagedAnew DEF IndexesOK
<1>8. to \in Nat /\ to \in past'
  <2>1. Len(commits) \in Nat
    BY <1>2 DEF RefsOK
  <2> QED BY <1>1, <1>4, <2>1
<1> HIDE DEF to
<1>9. /\ w \in GitCommands /\ w.pc = "finish" /\ w.cur = c.cur /\ w.old = c.old /\ w.held = c.held
      /\ w.new = to
  BY <1>2, <1>3, <1>8 DEF GitCommands
<1> HIDE DEF w
<1>10. CommandOK(World', w, lock', idx', ix')
  <2>1. World'.past = past' /\ past \subseteq past'
    BY <1>1 DEF World
  <2>2. c.held # Git!NoTree => lock = BoxSession /\ Spares(World', idx.tree, c.held)
    BY <1>1, <1>3, <1>6, SparesGrows DEF SealedOK
  <2> QED BY <1>1, <1>3, <1>8, <1>9, <2>1, <2>2 DEF CommandOK, Healing, Moving, SealedOK, BeforeSeal
<1>11. /\ offers' \in Seq(GoodOffers(World')) /\ TickOK(World', tick', lock', idx')
       /\ HostOK(World', host', lock')
  BY <1>1, <1>6, TheOthers
<1>12. cmd' \in [{BoxSession} -> GitCommands \cup {Git!NoCmd}] /\ TheCmd' = w
  BY <1>1, <1>9 DEF GitInv, TheCmd
<1>13. GitInv'
  BY <1>1, <1>2, <1>6, <1>7, <1>10, <1>11, <1>12 DEF GitInv, IndexesOK
<1> QED BY <1>1, <1>13, KeepsUntouched

LEMMA AbortStep ==
  ASSUME GitInv, Git!Abort(BoxSession)
  PROVE  GitInv' /\ StepKeeps
<1> DEFINE c == cmd[BoxSession]
<1>1. /\ c.pc = "land" /\ lock' = (IF c.held # Git!NoTree THEN "free" ELSE lock)
      /\ cmd' = [cmd EXCEPT ![BoxSession] = Git!NoCmd]
      /\ UNCHANGED <<commits, head, past, seen, op, host, tick, idx, sync, offers, ix, rec, staged>>
  BY DEF Git!Abort, Git!Done, Git!refs, Git!boxed, Git!ghosts
<1>2. /\ RefsOK /\ IndexesOK /\ offers \in Seq(GoodOffers(World)) /\ c.pc \notin {"idle", "seed"}
  BY <1>1 DEF GitInv
<1> HIDE DEF c
<1>3. c.held # Git!NoTree => lock = BoxSession
  BY <1>1, <1>2, CommandIs DEF c, SealedOK
<1>4. lock \in {"tick", "host"} => UNCHANGED <<lock, idx>>
  BY <1>1, <1>3, GitAssumption
<1>5. GitInv'
  BY <1>1, <1>2, <1>4, NoCmdOK, BoxSteps DEF RefsOK, IndexesOK
<1> QED BY <1>1, <1>5, KeepsUntouched

LEMMA GitFinishStep ==
  ASSUME GitInv, Git!Finish(BoxSession)
  PROVE  GitInv' /\ StepKeeps
<1> DEFINE c == cmd[BoxSession]
           w == [c EXCEPT !.pc = "post"]
<1>1. /\ c.pc = "finish" /\ cmd' = [cmd EXCEPT ![BoxSession] = w]
      /\ c.held # Git!NoTree =>
           /\ idx' = [tree |-> c.held, stat |-> 0] /\ lock' = "free" /\ sync' = c.new
           /\ staged' \in {staged, [staged EXCEPT !["host"] = Git!Differing(c.held, head)]}
      /\ c.held = Git!NoTree => UNCHANGED <<idx, lock, sync, staged>>
      /\ UNCHANGED <<commits, head, past, seen, op, host, tick, offers, ix, rec>>
  BY DEF Git!Finish, Git!Goto, Git!refs, Git!boxed
<1>2. /\ RefsOK /\ IndexesOK /\ offers \in Seq(GoodOffers(World)) /\ c.pc \notin {"idle", "seed"}
      /\ "post" \in GitPcs
  BY <1>1 DEF GitInv, GitPcs
<1> HIDE DEF c
<1>3. /\ c \in GitCommands /\ c.cur \in past \cup {0} /\ c.old \in past \cup {0}
      /\ ix # Git!NoTree /\ Moving(World, c) /\ SealedOK(World, c, lock, idx) /\ World.past = past
  BY <1>2, CommandIs DEF c
<1>4. /\ c.new \in past
      /\ c.held # Git!NoTree =>
           lock = BoxSession /\ Spares(World, idx.tree, c.held) /\ c.held \in GitTrees
  BY <1>1, <1>3 DEF Moving, SealedOK, GitCommands, GitTreesOrNone
<1>5. /\ w \in GitCommands /\ w.pc = "post" /\ w.cur = c.cur /\ w.old = c.old /\ w.held = c.held
      /\ w.new = c.new
  BY <1>2, <1>3, PcMoves
<1> HIDE DEF w
<1>6. CommandOK(World, w, lock', idx', ix')
  BY <1>1, <1>3, <1>4, <1>5 DEF CommandOK, Healing, Moving, SealedOK, BeforeSeal
<1>7. /\ idx' \in GitIndexes /\ staged' \in GitStaged /\ sync' \in past \cup {0}
      /\ Spares(World, idx.tree, idx'.tree) /\ (lock \in {"tick", "host"} => UNCHANGED <<lock, idx>>)
  <2>1. CASE c.held = Git!NoTree
    BY <1>1, <1>2, <2>1, SparesItself DEF IndexesOK, RefsOK
  <2>2. CASE c.held # Git!NoTree
    <3>1. idx' \in GitIndexes /\ idx'.tree = c.held
      BY <1>1, <1>4, <2>2 DEF GitIndexes
    <3>2. staged' \in GitStaged
      BY <1>1, <1>2, <1>4, <2>2, StagedAnew DEF IndexesOK
    <3> QED BY <1>1, <1>4, <2>2, <3>1, <3>2, GitAssumption
  <2> QED BY <2>1, <2>2
<1>8. GitInv'
  BY <1>1, <1>2, <1>5, <1>6, <1>7, BoxSteps DEF RefsOK, IndexesOK
<1> QED BY <1>1, <1>7, <1>8, SparesItself, KeepsWhatItSpares

LEMMA PostStep ==
  ASSUME GitInv, Git!Post(BoxSession)
  PROVE  GitInv' /\ StepKeeps
<1> DEFINE c == cmd[BoxSession]
           w == [c EXCEPT !.pc = "propose"]
<1>1. /\ c.pc = "post" /\ rec' \in {rec, seen}
      /\ cmd' = [cmd EXCEPT ![BoxSession] = w] \/ cmd' = [cmd EXCEPT ![BoxSession] = Git!NoCmd]
      /\ UNCHANGED <<commits, head, past, seen, op, host, tick, idx, lock, sync, offers, ix, staged>>
  BY DEF Git!Post, Git!Goto, Git!Done, Git!refs, Git!shared, Git!ghosts
<1>2. /\ RefsOK /\ IndexesOK /\ offers \in Seq(GoodOffers(World)) /\ c.pc \notin {"idle", "seed"}
      /\ "propose" \in GitPcs
  BY <1>1 DEF GitInv, GitPcs
<1> HIDE DEF c
<1>3. /\ c \in GitCommands /\ c.cur \in past \cup {0} /\ c.old \in past \cup {0}
      /\ ix # Git!NoTree /\ Moving(World, c) /\ World.past = past
  BY <1>2, CommandIs DEF c
<1>4. /\ w \in GitCommands /\ w.pc = "propose" /\ w.cur = c.cur /\ w.old = c.old /\ w.new = c.new
  BY <1>2, <1>3, PcMoves
<1> HIDE DEF w
<1>5. CommandOK(World, w, lock, idx, ix)
  BY <1>1, <1>3, <1>4 DEF CommandOK, Healing, Moving, SealedOK, BeforeSeal
<1>6. GitInv'
  BY <1>1, <1>2, <1>3, <1>4, <1>5, NoCmdOK, BoxSteps DEF RefsOK, IndexesOK
<1> QED BY <1>1, <1>6, KeepsUntouched

LEMMA GitKillStep ==
  ASSUME GitInv, Git!Kill(BoxSession)
  PROVE  GitInv' /\ StepKeeps
<1>1. /\ lock' = (IF lock = BoxSession THEN "stale" ELSE lock)
      /\ staged' \in {staged, [staged EXCEPT !["host"] = Git!Differing(idx.tree, head)]}
      /\ cmd' = [cmd EXCEPT ![BoxSession] = Git!NoCmd]
      /\ UNCHANGED <<commits, head, past, seen, op, host, tick, idx, sync, offers, ix, rec>>
  BY DEF Git!Kill, Git!Done, Git!refs, Git!boxed
<1>2. /\ RefsOK /\ IndexesOK /\ offers \in Seq(GoodOffers(World)) /\ idx.tree \in GitTrees
  BY DEF GitInv, IndexesOK, GitIndexes
<1>3. staged' \in GitStaged
  BY <1>1, <1>2, StagedAnew DEF IndexesOK
<1>4. lock \in {"tick", "host"} => UNCHANGED <<lock, idx>>
  BY <1>1, GitAssumption
<1>5. GitInv'
  BY <1>1, <1>2, <1>3, <1>4, NoCmdOK, BoxSteps DEF RefsOK, IndexesOK
<1> QED BY <1>1, <1>5, KeepsUntouched

(* A step that leaves the box's command alone.                             *)
LEMMA OtherSteps ==
  ASSUME GitInv, RefsOK', Grew(World, World'), UNCHANGED <<cmd, ix, rec>>,
         idx' \in GitIndexes, staged' \in GitStaged, offers' \in Seq(GoodOffers(World')),
         TickOK(World', tick', lock', idx'), HostOK(World', host', lock'),
         lock = BoxSession => UNCHANGED <<lock, idx>>
  PROVE  GitInv'
<1>1. CommandOK(World', TheCmd', lock', idx', ix')
  BY TheOthers
<1> QED BY <1>1 DEF GitInv, IndexesOK

LEMMA RefsStay ==
  ASSUME RefsOK, UNCHANGED <<commits, head, past>>,
         seen' \in past \cup {0}, sync' \in past \cup {0}, UNCHANGED rec, op' \in BOOLEAN
  PROVE  RefsOK' /\ World' = World /\ Grew(World, World') /\ World.past = past
BY WorldStays DEF RefsOK, World

LEMMA RemoveLockStep ==
  ASSUME GitInv, Git!RemoveLock
  PROVE  GitInv' /\ StepKeeps
<1>1. /\ lock' = lock \/ lock = "stale"
      /\ UNCHANGED <<commits, head, past, seen, op, idx, sync, offers, ix, rec, cmd, host, tick, staged>>
  BY DEF Git!RemoveLock, Git!refs, Git!boxed, Git!ghosts
<1>2. RefsOK /\ IndexesOK
  BY DEF GitInv
<1>3. RefsOK' /\ Grew(World, World')
  BY <1>1, <1>2, RefsStay DEF RefsOK
<1>4. /\ offers' \in Seq(GoodOffers(World')) /\ TickOK(World', tick', lock', idx')
      /\ HostOK(World', host', lock')
  BY <1>1, <1>3, TheOthers
<1>5. GitInv'
  BY <1>1, <1>2, <1>3, <1>4, OtherSteps, GitAssumption DEF IndexesOK
<1> QED BY <1>1, <1>5, KeepsUntouched

LEMMA CatchUpStep ==
  ASSUME GitInv, Git!CatchUp
  PROVE  GitInv' /\ StepKeeps
<1>1. /\ seen' = head
      /\ UNCHANGED <<commits, head, past, op, idx, lock, sync, offers, ix, rec, cmd, host, tick, staged>>
  BY DEF Git!CatchUp, Git!refs, Git!shared, Git!boxed, Git!ghosts
<1>2. RefsOK /\ IndexesOK
  BY DEF GitInv
<1>3. RefsOK' /\ Grew(World, World')
  BY <1>1, <1>2, RefsStay DEF RefsOK
<1>4. /\ offers' \in Seq(GoodOffers(World')) /\ TickOK(World', tick', lock', idx')
      /\ HostOK(World', host', lock')
  BY <1>1, <1>3, TheOthers
<1>5. GitInv'
  BY <1>1, <1>2, <1>3, <1>4, OtherSteps DEF IndexesOK
<1> QED BY <1>1, <1>5, KeepsUntouched

(* The computer's git.                                                     *)
LEMMA HostLocksStep ==
  ASSUME GitInv, Git!HostLocks
  PROVE  GitInv' /\ StepKeeps
<1>1. /\ lock = "free" /\ lock' = "host" /\ host' = [pc |-> "writing"]
      /\ UNCHANGED <<commits, head, past, seen, op, idx, sync, offers, ix, rec, cmd, tick, staged>>
  BY DEF Git!HostLocks, Git!refs, Git!boxed, Git!ghosts
<1>2. RefsOK /\ IndexesOK
  BY DEF GitInv
<1>3. RefsOK' /\ Grew(World, World')
  BY <1>1, <1>2, RefsStay DEF RefsOK
<1>4. offers' \in Seq(GoodOffers(World')) /\ TickOK(World', tick', lock', idx')
  BY <1>1, <1>3, TheOthers
<1>5. HostOK(World', host', lock')
  BY <1>1 DEF HostOK
<1>6. GitInv'
  BY <1>1, <1>2, <1>3, <1>4, <1>5, OtherSteps, GitAssumption DEF IndexesOK
<1> QED BY <1>1, <1>6, KeepsUntouched

LEMMA HostWritesStep ==
  ASSUME GitInv, Git!HostWrites
  PROVE  GitInv' /\ StepKeeps
<1>1. /\ host.pc = "writing" /\ lock' = "free" /\ host' = Git!NoHost
      /\ \/ idx' = [idx EXCEPT !.stat = 1] /\ UNCHANGED staged
         \/ \E p \in GitPaths, v \in GitContents :
              /\ v # idx.tree[p] /\ idx' = [tree |-> [idx.tree EXCEPT ![p] = v], stat |-> 1]
              /\ staged' = [staged EXCEPT !["host"][p] = v]
      /\ UNCHANGED <<commits, head, past, seen, op, sync, offers, ix, rec, cmd, tick>>
  BY DEF Git!HostWrites, Git!refs, Git!boxed
<1>2. RefsOK /\ IndexesOK /\ idx \in GitIndexes /\ idx.tree \in GitTrees /\ staged \in GitStaged
  BY DEF GitInv, IndexesOK, GitIndexes
<1>3. RefsOK' /\ World' = World /\ Grew(World, World')
  BY <1>1, <1>2, RefsStay DEF RefsOK
<1>4. lock = "host"
  <2>1. HostOK(World, host, lock)
    BY DEF GitInv
  <2> QED BY <1>1, <2>1 DEF HostOK, Git!NoHost, GitMakings
<1>5. offers' \in Seq(GoodOffers(World')) /\ TickOK(World', tick', lock', idx')
  BY <1>1, <1>3, <1>4, TheOthers
<1>6. HostOK(World', host', lock')
  BY <1>1 DEF HostOK
<1>7. idx' \in GitIndexes /\ staged' \in GitStaged
      /\ (staged'["host"] = staged["host"] => Git!Kept("host", idx.tree, idx'.tree))
  <2>1. CASE idx' = [idx EXCEPT !.stat = 1] /\ UNCHANGED staged
    <3>1. idx' \in GitIndexes /\ idx'.tree = idx.tree
      BY <1>2, <2>1 DEF GitIndexes
    <3> QED BY <1>2, <2>1, <3>1 DEF Git!Kept
  <2>2. ASSUME NEW p \in GitPaths, NEW v \in GitContents, v # idx.tree[p],
               idx' = [tree |-> [idx.tree EXCEPT ![p] = v], stat |-> 1],
               staged' = [staged EXCEPT !["host"][p] = v]
        PROVE  idx' \in GitIndexes /\ staged' \in GitStaged
               /\ (staged'["host"] = staged["host"] => Git!Kept("host", idx.tree, idx'.tree))
    <3>1. [idx.tree EXCEPT ![p] = v] \in GitTrees
      BY <1>2 DEF GitTrees, GitValues
    <3>2. idx' \in GitIndexes /\ idx'.tree = [idx.tree EXCEPT ![p] = v]
      BY <2>2, <3>1 DEF GitIndexes
    <3>3. staged' \in GitStaged /\ staged'["host"][p] = v
      BY <1>2, <2>2 DEF GitStaged, GitValues
    <3>4. staged'["host"] = staged["host"] => Git!Kept("host", idx.tree, idx'.tree)
      BY <1>2, <2>2, <3>2, <3>3 DEF Git!Kept, GitTrees
    <3> QED BY <3>2, <3>3, <3>4
  <2> QED BY <1>1, <2>1, <2>2
<1>8. GitInv'
  BY <1>1, <1>3, <1>4, <1>5, <1>6, <1>7, OtherSteps, GitAssumption
<1>9. Git!Kept("box", ix, ix')
  BY <1>1 DEF Git!Kept
<1> QED BY <1>7, <1>8, <1>9 DEF StepKeeps

LEMMA HostBeginsStep ==
  ASSUME GitInv, Git!HostBegins
  PROVE  GitInv' /\ StepKeeps
<1> DEFINE asked == Git!AskedBy({"host"})
           synced == sync = head
<1>1. /\ host' = [pc |-> "committing", parent |-> head, tree |-> idx.tree, asked |-> asked, synced |-> synced]
      /\ UNCHANGED <<commits, head, past, seen, op, idx, lock, sync, offers, ix, rec, cmd, tick, staged>>
  BY DEF Git!HostBegins, Git!refs, Git!shared, Git!boxed, Git!ghosts
<1>2. RefsOK /\ IndexesOK
  BY DEF GitInv
<1>3. RefsOK' /\ World' = World /\ Grew(World, World') /\ World.past = past
  BY <1>1, <1>2, RefsStay DEF RefsOK
<1>4. offers' \in Seq(GoodOffers(World')) /\ TickOK(World', tick', lock', idx')
  BY <1>1, <1>3, TheOthers
<1>5. HostOK(World', host', lock')
  <2>1. asked \in GitAsked /\ synced \in BOOLEAN
    BY <1>2 DEF Git!AskedBy, GitAsked, IndexesOK, GitStaged
  <2>2. head \in past /\ head \in Nat /\ idx.tree \in GitTrees
    BY <1>2, PastIsNat DEF RefsOK, IndexesOK, GitIndexes
  <2> HIDE DEF asked, synced
  <2>3. host' \in GitMakings /\ host'.parent = head
    BY <1>1, <2>1, <2>2 DEF GitMakings
  <2> QED BY <1>3, <2>2, <2>3 DEF HostOK
<1>6. GitInv'
  BY <1>1, <1>2, <1>3, <1>4, <1>5, OtherSteps DEF IndexesOK
<1> QED BY <1>1, <1>6, KeepsUntouched

LEMMA HostLandsStep ==
  ASSUME GitInv, Git!HostLands
  PROVE  GitInv' /\ StepKeeps
<1> DEFINE n == Git!NewCommit(host.parent, host.tree, "host", host.asked, host.synced)
           to == Len(commits) + 1
<1>1. /\ host.pc = "committing" /\ host' = Git!NoHost
      /\ \/ UNCHANGED <<commits, head, past, seen, staged>>
         \/ /\ commits' = Append(commits, n) /\ head' = to /\ past' = past \cup {to}
            /\ seen' \in {seen, 0, to}
            /\ staged' = [staged EXCEPT !["host"] = Git!Committed(@, host.tree)]
      /\ UNCHANGED <<op, idx, lock, sync, offers, ix, rec, cmd, tick>>
  BY DEF Git!HostLands, Git!Glimpse, Git!refs, Git!shared, Git!boxed, Git!ghosts
<1>2. RefsOK /\ IndexesOK
  BY DEF GitInv
<1>3. host \in GitMakings /\ host.parent \in past
  <2>1. HostOK(World, host, lock)
    BY DEF GitInv
  <2> QED BY <1>1, <2>1 DEF HostOK, Git!NoHost, World
<1>4. n \in GitCommits /\ n.parent = host.parent
  BY <1>2, <1>3, PastIsNat DEF GitMakings, GitCommits, Git!NewCommit
<1> HIDE DEF n
<1>5. RefsOK' /\ Grew(World, World')
  <2>1. CASE UNCHANGED <<commits, head, past, seen, staged>>
    BY <1>1, <1>2, <2>1, RefsStay DEF RefsOK
  <2>2. CASE /\ commits' = Append(commits, n) /\ head' = to /\ past' = past \cup {to}
             /\ seen' \in {seen, 0, to}
    <3>1. {seen', sync', rec'} \subseteq past' \cup {0} /\ op' \in BOOLEAN
      BY <1>1, <1>2, <2>2 DEF RefsOK
    <3> QED BY <1>2, <1>3, <1>4, <2>2, <3>1, CommitMade
  <2> QED BY <1>1, <2>1, <2>2
<1>6. offers' \in Seq(GoodOffers(World')) /\ TickOK(World', tick', lock', idx')
  BY <1>1, <1>5, TheOthers
<1>7. HostOK(World', host', lock')
  BY <1>1 DEF HostOK
<1>8. staged' \in GitStaged
  BY <1>1, <1>2, StagedAnew DEF IndexesOK
<1>9. GitInv'
  BY <1>1, <1>2, <1>5, <1>6, <1>7, <1>8, OtherSteps DEF IndexesOK
<1> QED BY <1>1, <1>9, KeepsUntouched

LEMMA HostResetsStep ==
  ASSUME GitInv, Git!HostResets
  PROVE  GitInv' /\ StepKeeps
<1> DEFINE to == Git!Parent(head)
           mine == IF rec = to THEN Git!Differing(ix, to) ELSE staged["box"]
<1>1. /\ to # 0 /\ head' = to /\ past' = past \cup {to} /\ seen' \in {seen, 0, to}
      /\ \/ /\ idx' = idx
            /\ staged' = [staged EXCEPT !["host"] = Git!Differing(Git!Standing(to), to), !["box"] = mine]
         \/ /\ lock = "free" /\ idx' = [tree |-> Git!Tree(to), stat |-> 1]
            /\ staged' = [staged EXCEPT !["host"] = Git!Unstaged, !["box"] = mine]
      /\ UNCHANGED <<commits, op, lock, sync, offers, ix, rec, cmd, host, tick>>
  BY DEF Git!HostResets, Git!Glimpse, Git!boxed
<1>2. RefsOK /\ IndexesOK /\ idx \in GitIndexes /\ idx.tree \in GitTrees /\ staged \in GitStaged
  BY DEF GitInv, IndexesOK, GitIndexes
<1>3. to \in 1..Len(commits)
  <2>1. Len(commits) \in Nat /\ to \in 0..Len(commits)
    BY <1>2 DEF RefsOK, Git!Parent
  <2> QED BY <1>1, <2>1
<1>4. Git!Tree(to) \in GitTrees
  <2>1. commits \in Seq(GitCommits)
    BY <1>2 DEF RefsOK
  <2>2. commits[to] \in GitCommits
    BY <1>3, <2>1
  <2> QED BY <2>2 DEF Git!Tree, GitCommits
<1>5. mine \in [GitPaths -> GitValues \cup {Git!Nothing}]
  <2>1. CASE rec = to
    <3>1. ix \in GitTrees
      BY <1>1, <1>2, <2>1 DEF IndexesOK, GitTreesOrNone
    <3> QED BY <2>1, <3>1 DEF Git!Differing, GitTrees
  <2>2. CASE rec # to
    BY <1>2, <2>2 DEF GitStaged
  <2> QED BY <2>1, <2>2
<1>6. Git!Standing(to) \in GitTrees
  <2>1. TickOK(World, tick, lock, idx) /\ CommandOK(World, TheCmd, lock, idx, ix)
    BY DEF GitInv
  <2>2. tick.pc = "written" => tick.kept.tree \in GitTrees
    BY <2>1 DEF TickOK, Git!NoPass, GitIndexes
  <2>3. \A s \in {BoxSession} : cmd[s].pc = "installed" => cmd[s].base.tree \in GitTrees
    BY CommandIs DEF Healing, GitIndexes
  <2>4. (\E s \in {BoxSession} : cmd[s].pc = "installed" /\ cmd[s].of # to) =>
          cmd[CHOOSE s \in {BoxSession} : cmd[s].pc = "installed" /\ cmd[s].of # to].base.tree \in GitTrees
    BY <2>3
  <2> QED BY <1>2, <2>2, <2>4 DEF Git!Standing
<1>7. idx' \in GitIndexes /\ staged' \in GitStaged
      /\ (staged'["host"] = staged["host"] => Git!Kept("host", idx.tree, idx'.tree))
  <2> DEFINE theirs == Git!Differing(Git!Standing(to), to)
  <2>1. /\ theirs \in [GitPaths -> GitValues \cup {Git!Nothing}]
        /\ Git!Unstaged \in [GitPaths -> GitValues \cup {Git!Nothing}]
        /\ \A p \in GitPaths : Git!Unstaged[p] = Git!Nothing
    BY <1>6 DEF Git!Differing, Git!Unstaged, GitTrees
  <2> HIDE DEF mine
  <2>2. CASE /\ idx' = idx
             /\ staged' = [staged EXCEPT !["host"] = theirs, !["box"] = mine]
    <3> HIDE DEF theirs
    <3> QED BY <1>2, <1>5, <2>1, <2>2 DEF GitStaged, Git!Kept
  <2>3. CASE /\ idx' = [tree |-> Git!Tree(to), stat |-> 1]
             /\ staged' = [staged EXCEPT !["host"] = Git!Unstaged, !["box"] = mine]
    <3>1. idx' \in GitIndexes
      BY <1>4, <2>3 DEF GitIndexes
    <3>2. staged' \in GitStaged /\ staged'["host"] = Git!Unstaged
      BY <1>2, <1>5, <2>1, <2>3 DEF GitStaged
    <3>3. \A p \in GitPaths : idx.tree[p] # Git!Unstaged[p]
      BY <1>2, <2>1, NothingIsNoValue DEF GitTrees
    <3> QED BY <3>1, <3>2, <3>3 DEF Git!Kept
  <2> QED BY <1>1, <2>2, <2>3
<1> HIDE DEF to, mine
<1>8. RefsOK' /\ Grew(World, World')
  <2>1. {seen', sync', rec'} \subseteq past' \cup {0} /\ op' \in BOOLEAN
    BY <1>1, <1>2 DEF RefsOK
  <2> QED BY <1>1, <1>2, <1>3, <2>1, BranchMoved
<1>9. (lock \in {"tick", "host"} \/ lock = BoxSession) => UNCHANGED <<lock, idx>>
  BY <1>1, GitAssumption
<1>10. /\ offers' \in Seq(GoodOffers(World')) /\ TickOK(World', tick', lock', idx')
       /\ HostOK(World', host', lock')
  BY <1>1, <1>8, <1>9, TheOthers
<1>11. GitInv'
  BY <1>1, <1>7, <1>8, <1>9, <1>10, OtherSteps
<1>12. Git!Kept("box", ix, ix')
  BY <1>1 DEF Git!Kept
<1> QED BY <1>7, <1>11, <1>12 DEF StepKeeps

LEMMA HostOperatesStep ==
  ASSUME GitInv, Git!HostOperates
  PROVE  GitInv' /\ StepKeeps
<1>1. /\ op' = TRUE /\ host' = [pc |-> "operating", from |-> head]
      /\ UNCHANGED <<commits, head, past, seen, idx, lock, sync, offers, ix, rec, cmd, tick, staged>>
  BY DEF Git!HostOperates, Git!refs, Git!shared, Git!boxed, Git!ghosts
<1>2. RefsOK /\ IndexesOK
  BY DEF GitInv
<1>3. RefsOK' /\ Grew(World, World')
  BY <1>1, <1>2, RefsStay DEF RefsOK
<1>4. offers' \in Seq(GoodOffers(World')) /\ TickOK(World', tick', lock', idx')
  BY <1>1, <1>3, TheOthers
<1>5. HostOK(World', host', lock')
  <2>1. head \in Nat
    BY <1>2, PastIsNat DEF RefsOK
  <2> QED BY <1>1, <2>1 DEF HostOK
<1>6. GitInv'
  BY <1>1, <1>2, <1>3, <1>4, <1>5, OtherSteps DEF IndexesOK
<1> QED BY <1>1, <1>6, KeepsUntouched

LEMMA HostOperatedStep ==
  ASSUME GitInv, Git!HostOperated
  PROVE  GitInv' /\ StepKeeps
<1>1. /\ lock = "free" /\ op' = FALSE /\ host' = Git!NoHost
      /\ UNCHANGED <<lock, sync, offers, ix, rec, cmd, tick>>
  BY DEF Git!HostOperated, Git!boxed
<1>2. RefsOK /\ IndexesOK /\ idx \in GitIndexes /\ idx.tree \in GitTrees /\ staged \in GitStaged
  BY DEF GitInv, IndexesOK, GitIndexes
<1>3. lock \notin {"tick", "host", BoxSession}
  BY <1>1, GitAssumption
<1>4. ASSUME RefsOK', Grew(World, World'), idx' \in GitIndexes, staged' \in GitStaged
      PROVE  GitInv'
  <2>1. offers' \in Seq(GoodOffers(World')) /\ TickOK(World', tick', lock', idx')
    BY <1>1, <1>3, <1>4, TheOthers
  <2>2. HostOK(World', host', lock')
    BY <1>1 DEF HostOK
  <2> QED BY <1>1, <1>3, <1>4, <2>1, <2>2, OtherSteps
<1>5. Git!Kept("box", ix, ix')
  BY <1>1 DEF Git!Kept
<1>6. CASE UNCHANGED <<commits, head, past, seen, idx, staged>>
  <2>1. RefsOK' /\ Grew(World, World')
    BY <1>1, <1>2, <1>6, RefsStay DEF RefsOK
  <2> QED BY <1>1, <1>2, <1>4, <1>6, <2>1, KeepsUntouched
<1> DEFINE to == Len(commits) + 1
           made(p, v) == [Git!Tree(head) EXCEPT ![p] = v]
           asked(p, v) == [q \in GitPaths |-> IF q = p THEN {v} ELSE {}]
           n(p, v) == Git!NewCommit(head, made(p, v), "host", asked(p, v), TRUE)
           lands(p, v) ==
             /\ commits' = Append(commits, n(p, v))
             /\ head' = to /\ past' = past \cup {to} /\ seen' \in {seen, 0, to}
             /\ idx' = [tree |-> made(p, v), stat |-> 1]
             /\ staged' = [staged EXCEPT !["host"] = Git!Unstaged]
<1>7. ASSUME NEW p \in GitPaths, NEW v \in GitContents, lands(p, v)
      PROVE  GitInv' /\ StepKeeps
  <2>1. made(p, v) \in GitTrees
    <3>1. Git!Tree(head) \in GitTrees
      BY <1>2, TreesOfCommits DEF RefsOK
    <3> QED BY <3>1 DEF GitTrees, GitValues
  <2>2. asked(p, v) \in GitAsked
    BY DEF GitAsked, GitValues
  <2> HIDE DEF made, asked
  <2>3. n(p, v) \in GitCommits /\ n(p, v).parent = head
    <3>1. head \in Nat
      BY <1>2, PastIsNat DEF RefsOK
    <3> QED BY <2>1, <2>2, <3>1 DEF GitCommits, Git!NewCommit
  <2> HIDE DEF n
  <2>4. RefsOK' /\ Grew(World, World')
    <3>1. {seen', sync', rec'} \subseteq past' \cup {0} /\ op' \in BOOLEAN
      BY <1>1, <1>2, <1>7 DEF RefsOK
    <3>2. head \in past \cup {0}
      BY <1>2 DEF RefsOK
    <3> QED BY <1>2, <1>7, <2>3, <3>1, <3>2, CommitMade
  <2>5. idx' \in GitIndexes
    BY <1>7, <2>1 DEF GitIndexes
  <2>6. staged' \in GitStaged
    BY <1>2, <1>7, StagedAnew
  <2>7. GitInv'
    BY <1>4, <2>4, <2>5, <2>6
  <2>8. staged'["host"] # staged["host"] \/ Git!Kept("host", idx.tree, idx'.tree)
    <3>1. staged'["host"] = Git!Unstaged
      BY <1>2, <1>7 DEF GitStaged
    <3>2. \A q \in GitPaths : idx.tree[q] # Git!Unstaged[q]
      BY <1>2, NothingIsNoValue DEF GitTrees, Git!Unstaged
    <3> QED BY <3>1, <3>2 DEF Git!Kept
  <2> QED BY <1>5, <2>7, <2>8 DEF StepKeeps
<1>8. \/ \E p \in GitPaths, v \in GitContents : lands(p, v)
      \/ UNCHANGED <<commits, head, past, seen, idx, staged>>
  BY DEF Git!HostOperated, Git!Glimpse, Git!refs
<1> HIDE DEF lands
<1> QED BY <1>6, <1>7, <1>8

(* The supervisor's pass over the offers.                                  *)
LEMMA PassIs ==
  ASSUME GitInv, tick.pc # "idle"
  PROVE  /\ tick \in GitPasses /\ tick.head \in past /\ tick.left \in Seq(GoodOffers(World))
         /\ tick.pc # "pass" => tick.left # <<>>
         /\ tick.pc = "written" =>
              lock = "tick" /\ tick.kept \in GitIndexes /\ Swaps(World, idx.tree, tick.kept.tree)
<1>1. tick # Git!NoPass /\ TickOK(World, tick, lock, idx)
  BY DEF GitInv, Git!NoPass
<1> QED BY <1>1 DEF TickOK, World

(* A pass that goes on to where it is told.                                *)
LEMMA PassGoesOn ==
  ASSUME GitInv, NEW k \in GitPasses, k.head \in past, k.left \in Seq(GoodOffers(World)),
         k.pc # "pass" => k.left # <<>>,
         k.pc = "written" =>
           lock' = "tick" /\ k.kept \in GitIndexes /\ Swaps(World, idx'.tree, k.kept.tree),
         tick' \in {k, Git!NoPass}, UNCHANGED <<commits, head, past, seen, op, host, cmd, ix, rec, staged>>,
         sync' \in past \cup {0}, idx' \in GitIndexes, offers' \in Seq(GoodOffers(World)),
         lock \in {"host", BoxSession} => UNCHANGED <<lock, idx>>
  PROVE  GitInv'
<1>1. RefsOK /\ IndexesOK
  BY DEF GitInv
<1>2. RefsOK' /\ World' = World /\ Grew(World, World') /\ World.past = past
  BY <1>1, RefsStay DEF RefsOK
<1>3. TickOK(World', tick', lock', idx')
  BY <1>2 DEF TickOK
<1>4. HostOK(World', host', lock')
  BY <1>2, TheOthers
<1> QED BY <1>1, <1>2, <1>3, <1>4, OtherSteps DEF IndexesOK

LEMMA GitSweepStep ==
  ASSUME GitInv, Git!Sweep
  PROVE  GitInv' /\ StepKeeps
<1> DEFINE k == [pc |-> "pass", left |-> offers, head |-> head, done |-> FALSE, kept |-> Git!NoTree]
<1>1. /\ tick' = k
      /\ UNCHANGED <<commits, head, past, seen, op, idx, lock, sync, offers, ix, rec, cmd, host, staged>>
  BY DEF Git!Sweep, Git!refs, Git!shared, Git!boxed, Git!ghosts
<1>2. RefsOK /\ IndexesOK /\ offers \in Seq(GoodOffers(World))
  BY DEF GitInv
<1>3. k \in GitPasses /\ k.pc = "pass" /\ k.head = head /\ k.left = offers
  <2>1. head \in Nat
    BY <1>2, PastIsNat DEF RefsOK
  <2>2. GoodOffers(World) \subseteq GitOffers
    BY DEF GoodOffers
  <2>3. offers \in Seq(GitOffers) /\ Git!NoTree \in GitIndexesOrNone
    BY <1>2, <2>2, SeqOfMore DEF GitIndexesOrNone
  <2> QED BY <2>1, <2>3 DEF GitPasses
<1> HIDE DEF k
<1>4. GitInv'
  BY <1>1, <1>2, <1>3, PassGoesOn DEF RefsOK, IndexesOK
<1> QED BY <1>1, <1>4, KeepsUntouched

(* The rest of a pass, once its next offer is dealt with.                  *)
LEMMA NextOfPass ==
  ASSUME GitInv, tick.pc # "idle", tick.left # <<>>
  PROVE  /\ Head(tick.left) \in GoodOffers(World)
         /\ Tail(tick.left) \in Seq(GoodOffers(World)) /\ Tail(tick.left) \in Seq(GitOffers)
         /\ Head(tick.left).head \in past
<1>1. tick.left \in Seq(GoodOffers(World))
  BY PassIs
<1>2. GoodOffers(World) \subseteq GitOffers /\ World.past = past
  BY DEF GoodOffers, World
<1>3. Head(tick.left) \in GoodOffers(World) /\ Tail(tick.left) \in Seq(GoodOffers(World))
  BY <1>1
<1> QED BY <1>2, <1>3, SeqOfMore DEF GoodOffers

LEMMA SweepOfferStep ==
  ASSUME GitInv, Git!SweepOffer
  PROVE  GitInv' /\ StepKeeps
<1>1. /\ tick.pc = "pass"
      /\ UNCHANGED <<commits, head, past, seen, op, ix, rec, cmd, host, staged>>
  BY DEF Git!SweepOffer, Git!refs, Git!boxed, Git!ghosts
<1>2. RefsOK /\ IndexesOK /\ offers \in Seq(GoodOffers(World))
  BY DEF GitInv
<1>3. tick \in GitPasses /\ tick.head \in past /\ tick.left \in Seq(GoodOffers(World))
  BY <1>1, PassIs
<1>4. CASE tick.left = <<>>
  <2>1. tick' = Git!NoPass /\ UNCHANGED <<idx, lock, sync, offers>>
    BY <1>4 DEF Git!SweepOffer, Git!shared
  <2>2. GitInv'
    BY <1>1, <1>2, <1>3, <2>1, PassGoesOn DEF RefsOK, IndexesOK
  <2> QED BY <1>1, <2>1, <2>2, KeepsUntouched
<1>5. CASE tick.left # <<>>
  <2> DEFINE o == Head(tick.left)
             k == [tick EXCEPT !.left = Tail(tick.left)]
             v == [tick EXCEPT !.pc = "written", !.kept = idx]
  <2>1. \/ /\ sync' \in {sync, o.head} /\ offers' \in {offers, Git!Unlinked(o)}
           /\ tick' = k /\ UNCHANGED <<idx, lock>>
        \/ /\ o.kind = "proposed" /\ lock = "free" /\ idx = o.base
           /\ lock' = "tick" /\ idx' = [tree |-> o.tree, stat |-> 0] /\ tick' = v
           /\ UNCHANGED <<sync, offers>>
    <3>1. o \in GoodOffers(World)
      BY <1>1, <1>5, NextOfPass
    <3>2. o.kind \in {"record", "refused", "proposed"}
      BY <3>1 DEF GoodOffers, GitOffers
    <3>3. CASE o.kind = "record"
      BY <1>5, <3>3 DEF Git!SweepOffer, Git!NextOffer
    <3>4. CASE o.kind = "refused"
      BY <1>5, <3>4 DEF Git!SweepOffer, Git!NextOffer
    <3>5. CASE o.kind = "proposed"
      BY <1>5, <3>5 DEF Git!SweepOffer, Git!NextOffer
    <3> QED BY <3>2, <3>3, <3>4, <3>5
  <2>2. /\ o \in GoodOffers(World) /\ Tail(tick.left) \in Seq(GoodOffers(World))
        /\ Tail(tick.left) \in Seq(GitOffers) /\ o.head \in past
    BY <1>1, <1>5, NextOfPass
  <2> HIDE DEF o
  <2>3. CASE /\ sync' \in {sync, o.head} /\ offers' \in {offers, Git!Unlinked(o)}
             /\ tick' = k /\ UNCHANGED <<idx, lock>>
    <3>1. k \in GitPasses /\ k.pc = "pass" /\ k.head = tick.head /\ k.left = Tail(tick.left)
      BY <1>1, <1>3, <2>2 DEF GitPasses
    <3> HIDE DEF k
    <3>2. offers' \in Seq(GoodOffers(World)) /\ sync' \in past \cup {0}
      BY <1>2, <2>2, <2>3, OffersLeft DEF RefsOK
    <3>3. GitInv'
      BY <1>1, <1>2, <1>3, <2>2, <2>3, <3>1, <3>2, PassGoesOn DEF IndexesOK
    <3> QED BY <1>1, <2>3, <3>3, KeepsUntouched
  <2>4. CASE /\ o.kind = "proposed" /\ lock = "free" /\ idx = o.base
             /\ lock' = "tick" /\ idx' = [tree |-> o.tree, stat |-> 0] /\ tick' = v
             /\ UNCHANGED <<sync, offers>>
    <3>1. o.base \in GitIndexes /\ o.tree \in GitTrees /\ Swaps(World, o.base.tree, o.tree)
      BY <2>2, <2>4 DEF GoodOffers
    <3>2. idx' \in GitIndexes /\ idx'.tree = o.tree
      BY <2>4, <3>1 DEF GitIndexes
    <3>3. /\ v \in GitPasses /\ v.pc = "written" /\ v.head = tick.head /\ v.left = tick.left
          /\ v.kept = idx
      BY <1>2, <1>3 DEF GitPasses, IndexesOK, GitIndexesOrNone
    <3> HIDE DEF v
    <3>4. Swaps(World, idx'.tree, v.kept.tree) /\ Spares(World, idx.tree, idx'.tree)
      BY <2>4, <3>1, <3>2, <3>3 DEF Swaps
    <3>5. lock \notin {"host", BoxSession} /\ sync' \in past \cup {0}
      BY <1>2, <2>4, GitAssumption DEF RefsOK
    <3>6. GitInv'
      BY <1>1, <1>2, <1>3, <1>5, <2>4, <3>2, <3>3, <3>4, <3>5, PassGoesOn DEF IndexesOK
    <3> QED BY <1>1, <3>4, <3>6, SparesItself, KeepsWhatItSpares
  <2> QED BY <2>1, <2>3, <2>4
<1> QED BY <1>4, <1>5

LEMMA SweepRecheckStep ==
  ASSUME GitInv, Git!SweepRecheck
  PROVE  GitInv' /\ StepKeeps
<1> DEFINE to == IF head = Head(tick.left).head THEN "note" ELSE "drop"
           k == [tick EXCEPT !.pc = to, !.kept = Git!NoTree]
<1>1. /\ tick.pc = "written" /\ lock' = "free" /\ idx' \in {idx, tick.kept} /\ tick' = k
      /\ to \in {"note", "drop"}
      /\ UNCHANGED <<commits, head, past, seen, op, sync, offers, ix, rec, cmd, host, staged>>
  BY DEF Git!SweepRecheck, Git!refs, Git!boxed, Git!ghosts
<1>2. RefsOK /\ IndexesOK /\ offers \in Seq(GoodOffers(World))
  BY DEF GitInv
<1>3. /\ tick \in GitPasses /\ tick.head \in past /\ tick.left \in Seq(GoodOffers(World))
      /\ tick.left # <<>> /\ lock = "tick" /\ tick.kept \in GitIndexes
      /\ Swaps(World, idx.tree, tick.kept.tree)
  BY <1>1, PassIs
<1> HIDE DEF to
<1>4. k \in GitPasses /\ k.pc = to /\ k.head = tick.head /\ k.left = tick.left
  BY <1>1, <1>3 DEF GitPasses, GitIndexesOrNone
<1> HIDE DEF k
<1>5. idx' \in GitIndexes /\ Spares(World, idx.tree, idx'.tree) /\ sync' \in past \cup {0}
  BY <1>1, <1>2, <1>3, SparesItself DEF IndexesOK, RefsOK, Swaps
<1>6. lock \notin {"host", BoxSession}
  BY <1>3, GitAssumption
<1>7. GitInv'
  BY <1>1, <1>2, <1>3, <1>4, <1>5, <1>6, PassGoesOn
<1> QED BY <1>1, <1>5, <1>7, SparesItself, KeepsWhatItSpares

LEMMA SweepNoteStep ==
  ASSUME GitInv, Git!SweepNote
  PROVE  GitInv' /\ StepKeeps
<1> DEFINE done == tick.done \/ tick.pc = "note"
           k == [tick EXCEPT !.left = Tail(tick.left), !.pc = "pass", !.done = done]
<1>1. /\ tick.pc \in {"note", "drop"} /\ sync' \in {sync, Head(tick.left).head}
      /\ offers' = Git!Unlinked(Head(tick.left)) /\ tick' = k
      /\ UNCHANGED <<commits, head, past, seen, op, idx, lock, ix, rec, cmd, host, staged>>
  BY DEF Git!SweepNote, Git!NextOffer, Git!refs, Git!boxed, Git!ghosts
<1>2. RefsOK /\ IndexesOK /\ offers \in Seq(GoodOffers(World))
  BY DEF GitInv
<1>3. tick \in GitPasses /\ tick.head \in past /\ tick.left # <<>>
  BY <1>1, PassIs
<1>4. /\ Tail(tick.left) \in Seq(GoodOffers(World)) /\ Tail(tick.left) \in Seq(GitOffers)
      /\ Head(tick.left).head \in past
  BY <1>1, <1>3, NextOfPass
<1>5. k \in GitPasses /\ k.pc = "pass" /\ k.head = tick.head /\ k.left = Tail(tick.left)
  <2>1. done \in BOOLEAN
    BY <1>3 DEF GitPasses
  <2> HIDE DEF done
  <2> QED BY <1>3, <1>4, <2>1 DEF GitPasses
<1> HIDE DEF k
<1>6. offers' \in Seq(GoodOffers(World)) /\ sync' \in past \cup {0}
  BY <1>1, <1>2, <1>4, OffersLeft DEF RefsOK
<1>7. GitInv'
  BY <1>1, <1>2, <1>3, <1>4, <1>5, <1>6, PassGoesOn DEF IndexesOK
<1> QED BY <1>1, <1>7, KeepsUntouched

LEMMA GitStarts == Git!Init => GitInv
<1> SUFFICES ASSUME Git!Init PROVE GitInv
  OBVIOUS
<1> DEFINE nought == [p \in GitPaths |-> 0]
           asked == [p \in GitPaths |-> {}]
           first == [parent |-> 0, tree |-> nought, by |-> "start", asked |-> asked, synced |-> TRUE]
<1>1. /\ commits = <<first>> /\ head = 1 /\ past = {1} /\ seen = 1 /\ op = FALSE
      /\ idx = [tree |-> nought, stat |-> 0] /\ sync = 0 /\ ix = Git!NoTree /\ rec = 0 /\ offers = <<>>
      /\ cmd = [s \in {BoxSession} |-> Git!NoCmd] /\ host = Git!NoHost /\ tick = Git!NoPass
      /\ staged = [side \in {"box", "host", "seed"} |-> Git!Unstaged]
  BY DEF Git!Init
<1>2. nought \in GitTrees /\ asked \in GitAsked /\ Git!Unstaged \in [GitPaths -> GitValues \cup {Git!Nothing}]
  BY DEF GitTrees, GitValues, GitAsked, Git!Unstaged
<1> HIDE DEF nought, asked
<1>3. first \in GitCommits /\ first.parent = 0
  BY <1>2 DEF GitCommits
<1> HIDE DEF first
<1>4. RefsOK
  <2>1. commits \in Seq(GitCommits) /\ Len(commits) = 1 /\ commits[1] = first
    BY <1>1, <1>3
  <2>2. \A c \in 1..Len(commits) : commits[c].parent \in 0..Len(commits)
    <3>1. 1..Len(commits) = {1} /\ 0 \in 0..Len(commits)
      BY <2>1
    <3> QED BY <1>3, <2>1, <3>1
  <2>3. past \subseteq 1..Len(commits) /\ head \in past /\ {seen, sync, rec} \subseteq past \cup {0}
        /\ op \in BOOLEAN
    <3>1. 1 \in 1..Len(commits)
      BY <2>1
    <3> QED BY <1>1, <3>1
  <2> QED BY <2>1, <2>2, <2>3 DEF RefsOK
<1>5. IndexesOK
  BY <1>1, <1>2 DEF IndexesOK, GitIndexes, GitTreesOrNone, GitStaged
<1>6. offers \in Seq(GoodOffers(World)) /\ TickOK(World, tick, lock, idx) /\ HostOK(World, host, lock)
  BY <1>1 DEF TickOK, HostOK
<1>7. /\ cmd \in [{BoxSession} -> GitCommands \cup {Git!NoCmd}]
      /\ CommandOK(World, TheCmd, lock, idx, ix)
  BY <1>1, NoCmdOK DEF TheCmd
<1> QED BY <1>4, <1>5, <1>6, <1>7 DEF GitInv

LEMMA BoxStepKeeps ==
  ASSUME GitInv, Git!BoxStep(BoxSession)
  PROVE  GitInv' /\ StepKeeps
<1>1. CASE \E sub \in GitSubs : Git!Start(BoxSession, sub)
  BY <1>1, StartStep
<1>2. CASE Git!Seed(BoxSession)
  BY <1>2, SeedStep
<1>3. CASE Git!Heal(BoxSession)
  BY <1>3, HealStep
<1>4. CASE Git!HealReset(BoxSession)
  BY <1>4, HealResetStep
<1>5. CASE Git!Share(BoxSession)
  BY <1>5, ShareStep
<1>6. CASE Git!Install(BoxSession)
  BY <1>6, InstallStep
<1>7. CASE Git!Installed(BoxSession)
  BY <1>7, InstalledStep
<1>8. CASE Git!Mark(BoxSession)
  BY <1>8, MarkStep
<1>9. CASE Git!LookAgain(BoxSession)
  BY <1>9, LookAgainStep
<1>10. CASE Git!RunAdd(BoxSession)
  BY <1>10, RunAddStep
<1>11. CASE Git!RunCommit(BoxSession)
  BY <1>11, RunCommitStep
<1>12. CASE Git!RunMove(BoxSession)
  BY <1>12, RunMoveStep
<1>13. CASE Git!Prepare(BoxSession)
  BY <1>13, PrepareStep
<1>14. CASE Git!SealBuild(BoxSession)
  BY <1>14, SealBuildStep
<1>15. CASE Git!Seal(BoxSession)
  BY <1>15, SealStep
<1>16. CASE Git!Land(BoxSession)
  BY <1>16, LandStep
<1>17. CASE Git!Abort(BoxSession)
  BY <1>17, AbortStep
<1>18. CASE Git!Finish(BoxSession)
  BY <1>18, GitFinishStep
<1>19. CASE Git!Post(BoxSession)
  BY <1>19, PostStep
<1>20. CASE Git!ProposePost(BoxSession)
  BY <1>20, ProposePostStep
<1>21. CASE Git!Kill(BoxSession)
  BY <1>21, GitKillStep
<1> QED BY <1>1, <1>2, <1>3, <1>4, <1>5, <1>6, <1>7, <1>8, <1>9, <1>10, <1>11, <1>12, <1>13, <1>14,
           <1>15, <1>16, <1>17, <1>18, <1>19, <1>20, <1>21 DEF Git!BoxStep

LEMMA GitNextKeeps ==
  ASSUME GitInv, Git!Next
  PROVE  GitInv' /\ StepKeeps
<1>1. CASE \E s \in {BoxSession} : Git!BoxStep(s)
  BY <1>1, BoxStepKeeps
<1>2. CASE Git!RemoveLock
  BY <1>2, RemoveLockStep
<1>3. CASE Git!CatchUp
  BY <1>3, CatchUpStep
<1>4. CASE Git!HostStep
  BY <1>4, HostLocksStep, HostWritesStep, HostBeginsStep, HostLandsStep, HostResetsStep,
     HostOperatesStep, HostOperatedStep DEF Git!HostStep
<1>5. CASE Git!TickStep
  BY <1>5, GitSweepStep, SweepOfferStep, SweepRecheckStep, SweepNoteStep DEF Git!TickStep
<1> QED BY <1>1, <1>2, <1>3, <1>4, <1>5 DEF Git!Next

LEMMA GitStutters ==
  ASSUME GitInv, UNCHANGED Git!vars
  PROVE  GitInv' /\ StepKeeps
<1>1. UNCHANGED <<commits, head, past, seen, op, idx, lock, sync, offers, ix, rec, cmd, host, tick, staged>>
  BY DEF Git!vars
<1>2. RefsOK /\ IndexesOK
  BY DEF GitInv
<1>3. RefsOK' /\ Grew(World, World')
  BY <1>1, <1>2, RefsStay DEF RefsOK
<1>4. /\ offers' \in Seq(GoodOffers(World')) /\ TickOK(World', tick', lock', idx')
      /\ HostOK(World', host', lock')
  BY <1>1, <1>3, TheOthers
<1>5. GitInv'
  BY <1>1, <1>2, <1>3, <1>4, OtherSteps DEF IndexesOK
<1> QED BY <1>1, <1>5, KeepsUntouched

(* No heal drops work that only an index holds: whatever the computer's    *)
(* git, its branch, the other kernel's stale view of it, a killed command, *)
(* the supervisor's pass and one session of the box do in between, an      *)
(* index that other than its own side's git changes keeps what its user    *)
(* staged at a path HEAD has never had there.                              *)
THEOREM HealsKeepWhatIsStaged == Git!Spec => HealKeepsStaged
<1>1. GitInv /\ [Git!Next]_Git!vars => GitInv'
  BY GitNextKeeps, GitStutters
<1>2. GitInv /\ [Git!Next]_Git!vars =>
        [/\ ix # Git!NoTree /\ staged'["box"] = staged["box"] => Git!Kept("box", ix, ix')
         /\ staged'["host"] = staged["host"] => Git!Kept("host", idx.tree, idx'.tree)]_Git!vars
  BY GitNextKeeps DEF StepKeeps
<1> QED BY <1>1, <1>2, GitStarts, PTL DEF Git!Spec, HealKeepsStaged, Git!HealKeepsStaged
====
