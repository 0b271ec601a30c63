---------------------------- MODULE HostsProofs ----------------------------
(***************************************************************************)
(* Proofs about the components on the host and in the VM that share no     *)
(* state, each for any number of faults and any bounds.                    *)
(***************************************************************************)
EXTENDS MCHosts, SequenceTheorems, WellFoundedInduction, TLAPS

-----------------------------------------------------------------------------
(* The follower.                                                           *)

SpaceSet == [gen : Nat, ino : Nat]

FollowType ==
  /\ space \in SpaceSet /\ server \in SpaceSet /\ spaces \in Nat
  /\ follower \in [pc : {"idle", "load", "listen", "put"}, cur : Nat, held : Nat, announced : Int,
                   seen : Nat, slipped : BOOLEAN, unannounced : BOOLEAN]

(* A namespace is made once, and what was looked at or listened in is one  *)
(* that was made.                                                          *)
MadeOnce ==
  /\ space # Follow!NoSpace => space.gen \in 1..spaces /\ space.ino # 0
  /\ server.gen <= spaces /\ follower.seen <= spaces

(* The listener keeps its namespace alive: no other has its inode.         *)
InodeOfOne == space # Follow!NoSpace /\ space.ino = server.ino => space = server

(* The namespace looked at, if it is still there, has the inode taken down *)
(* and, once the redirect is loaded, the redirect.                         *)
StillThere ==
  space # Follow!NoSpace /\ space.gen = follower.seen =>
    /\ follower.pc \in {"load", "listen"} => space.ino = follower.cur
    /\ follower.pc = "listen" => space.gen \in loaded

(* The inode held is the listener's, and what was announced is that or     *)
(* that there is no namespace.                                             *)
HeldIsServed ==
  ~follower.slipped =>
    /\ follower.held = server.ino
    /\ server # Follow!NoSpace => server.gen \in loaded
    /\ follower.pc = "put" => follower.cur = follower.held
    /\ ~follower.unannounced /\ follower.pc # "put" => follower.announced \in {-1, follower.held}

FollowInv == FollowType /\ MadeOnce /\ InodeOfOne /\ StillThere /\ HeldIsServed

LEMMA FollowInit == Follow!Init => FollowInv
  BY DEF Follow!Init, Follow!NoSpace, Follow!Idle, FollowInv, FollowType, SpaceSet, MadeOnce,
         InodeOfOne, StillThere, HeldIsServed

LEMMA FollowStep == FollowInv /\ [Follow!Next]_followerVars => FollowInv'
<1> SUFFICES ASSUME FollowInv, [Follow!Next]_followerVars PROVE FollowInv'
  OBVIOUS
<1>1. CASE Follow!SpaceMade
  <2>1. PICK i \in Inodes \ {server.ino} : space' = [gen |-> spaces + 1, ino |-> i]
    BY <1>1 DEF Follow!SpaceMade
  <2>2. i \in Nat /\ i # 0
    BY InodesAssumption
  <2>3. spaces' = spaces + 1 /\ UNCHANGED <<loaded, server, follower>>
    BY <1>1 DEF Follow!SpaceMade
  <2> QED
    BY <2>1, <2>2, <2>3 DEF FollowInv, FollowType, SpaceSet, MadeOnce, InodeOfOne, StillThere,
                            HeldIsServed, Follow!NoSpace
<1>2. CASE Follow!SpaceGone
  BY <1>2 DEF Follow!SpaceGone, FollowInv, FollowType, SpaceSet, MadeOnce, InodeOfOne, StillThere,
                 HeldIsServed, Follow!NoSpace
<1>3. CASE Follow!LookNone \/ Follow!LookBlind
  <2>0. /\ UNCHANGED <<space, spaces, loaded, server>> /\ follower.pc = "idle"
        /\ \/ follower' = [follower EXCEPT !.announced = -1]
           \/ follower' = [follower EXCEPT !.unannounced = TRUE]
    BY <1>3 DEF Follow!LookNone, Follow!LookBlind, Follow!Announce
  <2>1. FollowType'
    <3>1. -1 \in Int
      OBVIOUS
    <3>2. CASE follower' = [follower EXCEPT !.announced = -1]
      BY <2>0, <3>1, <3>2 DEF FollowType, SpaceSet, FollowInv
    <3>3. CASE follower' = [follower EXCEPT !.unannounced = TRUE]
      BY <2>0, <3>3 DEF FollowType, SpaceSet, FollowInv
    <3> QED
      BY <2>0, <3>2, <3>3
  <2>2. MadeOnce' /\ InodeOfOne'
    BY <2>0 DEF FollowType, MadeOnce, InodeOfOne, SpaceSet, Follow!NoSpace, FollowInv
  <2>3. StillThere'
    BY <2>0 DEF FollowType, MadeOnce, StillThere, SpaceSet, Follow!NoSpace, FollowInv
  <2>4. HeldIsServed'
    BY <2>0 DEF FollowType, MadeOnce, StillThere, HeldIsServed, SpaceSet, Follow!NoSpace, FollowInv
  <2> QED
    BY <2>1, <2>2, <2>3, <2>4 DEF FollowInv
<1>4. CASE Follow!Look
  <2>1. FollowType'
    BY <1>4 DEF FollowType, SpaceSet, FollowInv, Follow!Look
  <2>2. MadeOnce' /\ InodeOfOne'
    BY <1>4 DEF FollowType, MadeOnce, InodeOfOne, SpaceSet, Follow!NoSpace, FollowInv, Follow!Look
  <2>3. StillThere'
    BY <1>4 DEF FollowType, MadeOnce, StillThere, SpaceSet, Follow!NoSpace, FollowInv, Follow!Look
  <2>4. HeldIsServed'
    BY <1>4 DEF FollowType, MadeOnce, StillThere, HeldIsServed, SpaceSet, Follow!NoSpace, FollowInv, Follow!Look
  <2> QED
    BY <2>1, <2>2, <2>3, <2>4 DEF FollowInv
<1>5. CASE Follow!Load
  BY <1>5 DEF Follow!Load, FollowInv, FollowType, SpaceSet, MadeOnce, InodeOfOne, StillThere,
                 HeldIsServed, Follow!NoSpace, Follow!Failed
<1>6. CASE Follow!Listen
  <2>1. FollowType'
    BY <1>6 DEF FollowType, SpaceSet, FollowInv, Follow!Listen, Follow!Failed
  <2>2. MadeOnce' /\ InodeOfOne'
    <3>1. UNCHANGED <<space, spaces>> /\ server' \in {server, space}
          /\ (server' = space => space # Follow!NoSpace \/ server' = server)
          /\ follower'.seen = follower.seen
      BY <1>6 DEF FollowType, SpaceSet, FollowInv, Follow!Listen, Follow!Failed
    <3>2. MadeOnce'
      BY <3>1 DEF FollowInv, MadeOnce, FollowType, SpaceSet
    <3> QED
      BY <3>1, <3>2 DEF FollowInv, InodeOfOne
  <2>3. StillThere'
    BY <1>6 DEF FollowType, MadeOnce, StillThere, SpaceSet, Follow!NoSpace, FollowInv, Follow!Listen, Follow!Failed
  <2>4. HeldIsServed'
    BY <1>6 DEF FollowType, MadeOnce, StillThere, HeldIsServed, SpaceSet, Follow!NoSpace, FollowInv, Follow!Listen, Follow!Failed
  <2> QED
    BY <2>1, <2>2, <2>3, <2>4 DEF FollowInv
<1>7. CASE Follow!Put
  <2>0. /\ UNCHANGED <<space, spaces, loaded, server>> /\ follower.pc = "put"
        /\ \/ follower' = [follower EXCEPT !.pc = "idle", !.announced = follower.cur]
           \/ follower' = [follower EXCEPT !.pc = "idle", !.unannounced = TRUE]
    BY <1>7 DEF Follow!Put, Follow!Announce, FollowInv, FollowType
  <2>1. FollowType'
    <3>2. CASE follower' = [follower EXCEPT !.pc = "idle", !.announced = follower.cur]
      <4>1. follower.cur \in Int
        BY DEF FollowInv, FollowType
      <4> QED
        BY <2>0, <3>2, <4>1 DEF FollowType, SpaceSet, FollowInv
    <3>3. CASE follower' = [follower EXCEPT !.pc = "idle", !.unannounced = TRUE]
      BY <2>0, <3>3 DEF FollowType, SpaceSet, FollowInv
    <3> QED
      BY <2>0, <3>2, <3>3
  <2>2. MadeOnce' /\ InodeOfOne'
    BY <2>0 DEF FollowType, MadeOnce, InodeOfOne, SpaceSet, Follow!NoSpace, FollowInv
  <2>3. StillThere'
    BY <2>0 DEF FollowType, MadeOnce, StillThere, SpaceSet, Follow!NoSpace, FollowInv
  <2>4. HeldIsServed'
    BY <2>0 DEF FollowType, MadeOnce, StillThere, HeldIsServed, SpaceSet, Follow!NoSpace, FollowInv
  <2> QED
    BY <2>1, <2>2, <2>3, <2>4 DEF FollowInv
<1>8. CASE UNCHANGED followerVars
  BY <1>8 DEF followerVars, FollowInv, FollowType, SpaceSet, MadeOnce, InodeOfOne, StillThere,
                 HeldIsServed, Follow!NoSpace
<1> QED
  BY <1>1, <1>2, <1>3, <1>4, <1>5, <1>6, <1>7, <1>8 DEF Follow!Next

(* Whatever namespaces come and go, and whatever fails, an inode that the  *)
(* follower holds or has announced is that of the namespace it listens in, *)
(* unless the namespace changed under it (fwd.py Follower).                *)
THEOREM ListenerInItsNamespace == Follow!Spec => []Follow!UnslippedInodes
<1>1. FollowInv => Follow!UnslippedInodes
  BY DEF FollowInv, FollowType, SpaceSet, MadeOnce, InodeOfOne, HeldIsServed, Follow!UnslippedInodes,
         Follow!SoundInodes, Follow!NoSpace
<1> QED
  BY <1>1, FollowInit, FollowStep, PTL DEF Follow!Spec, Follow!vars, followerVars

-----------------------------------------------------------------------------
(* The forwarder.                                                          *)

Stamps == {"", "ctr", "container", "build", "vm"}
Labels == Stamps \cup {"pasta", "forged", "unattributed"}
Stages == {"none", "owner", "head", "dial", "splice", "closing", "gone"}

Conns ==
           [pc : Stages, who : Labels, proxied : BOOLEAN, dials : Nat, stamp : Stamps,
            client : {"open", "eof", "reset"}, proxy : {"open", "eof", "reset"},
            sent : Nat, read : Nat, given : Nat, acked : Nat, ends : SUBSET {"up", "cl"},
            upstreamDone : BOOLEAN, fin : {"no", "sent", "rst"}, hostFirst : BOOLEAN, late : BOOLEAN,
            asked : Nat, origin : Labels, rows : SUBSET Labels]

ConnType == conn \in Conns

(* The stamp is the sender's, and so is what the first request bound the   *)
(* connection to: forged, if the key had changed by then.                  *)
Binding ==
  /\ conn.pc \notin {"none", "owner", "gone"} => conn.stamp = conn.who /\ conn.stamp # ""
  /\ conn.pc = "owner" => conn.rows = {} /\ conn.asked = 0 /\ conn.who \in Forward!Senders
  /\ conn.asked # 0 => conn.origin = conn.who \/ (conn.origin = "forged" /\ ~key)
  /\ Forward!RowsNameTheSender

(* While the proxy's end was the first to be read, no FIN has gone to it,  *)
(* and the only closes ahead are a reset and the wait that is too long.    *)
ProxyFirst ==
  /\ conn.pc \notin {"gone", "closing"} /\ "up" \notin conn.ends => conn.fin = "no"
  /\ conn.hostFirst => conn.upstreamDone /\ conn.pc \in {"splice", "closing", "gone"}
  /\ conn.hostFirst /\ conn.pc # "gone" => conn.fin = "no"
  /\ conn.hostFirst /\ conn.pc = "gone" => conn.fin # "sent" \/ conn.late

ForwardInv == ConnType /\ Binding /\ ProxyFirst

LEMMA ForwardInit == Forward!Init => ForwardInv
<1> SUFFICES ASSUME Forward!Init PROVE ForwardInv
  OBVIOUS
<1>1. ConnType
  BY DEF Forward!Init, Forward!NoConn, ConnType, Conns, Stages, Stamps, Labels
<1> QED
  BY <1>1 DEF Forward!Init, Forward!NoConn, ForwardInv, Binding, ProxyFirst, Forward!RowsNameTheSender

LEMMA ForwardStep == ForwardInv /\ [Forward!Next]_forwarderVars => ForwardInv'
<1> SUFFICES ASSUME ForwardInv, [Forward!Next]_forwarderVars PROVE ForwardInv'
  OBVIOUS
<1>0. ConnType /\ Binding /\ ProxyFirst
  BY DEF ForwardInv
<1>1. CASE Forward!Accept
  <2> DEFINE new(p, n) == [Forward!NoConn EXCEPT !.proxied = p, !.sent = n]
  <2>1. PICK p \in BOOLEAN, n \in 1..MaxRequests :
          /\ key' = key
          /\ \/ conn' = [new(p, n) EXCEPT !.pc = "gone"]
             \/ conn' = [new(p, n) EXCEPT !.pc = "head", !.who = "ctr", !.stamp = "ctr"]
             \/ \E w \in Forward!Senders : conn' = [new(p, n) EXCEPT !.pc = "owner", !.who = w]
    BY <1>1 DEF Forward!Accept, Forward!Now
  <2>2. /\ conn'.rows = {} /\ conn'.asked = 0 /\ conn'.fin = "no" /\ conn'.hostFirst = FALSE
        /\ conn'.pc \in {"gone", "head", "owner"}
        /\ conn'.pc = "head" => conn'.who = "ctr" /\ conn'.stamp = "ctr"
        /\ conn'.pc = "owner" => conn'.who \in Forward!Senders
    <3>1. new(p, n).rows = {} /\ new(p, n).asked = 0 /\ new(p, n).fin = "no" /\ new(p, n).hostFirst = FALSE
      BY DEF Forward!NoConn
    <3>2. DOMAIN new(p, n) = {"pc", "who", "proxied", "dials", "stamp", "client", "proxy", "sent", "read",
                              "given", "acked", "ends", "upstreamDone", "fin", "hostFirst", "late", "asked",
                              "origin", "rows"}
      BY DEF Forward!NoConn
    <3> HIDE DEF new
    <3>3. CASE conn' = [new(p, n) EXCEPT !.pc = "gone"]
      BY <3>1, <3>2, <3>3
    <3>4. CASE conn' = [new(p, n) EXCEPT !.pc = "head", !.who = "ctr", !.stamp = "ctr"]
      BY <3>1, <3>2, <3>4
    <3>5. CASE \E w \in Forward!Senders : conn' = [new(p, n) EXCEPT !.pc = "owner", !.who = w]
      BY <3>1, <3>2, <3>5
    <3> QED
      BY <2>1, <3>3, <3>4, <3>5
  <2>3. ConnType'
    <3>1. Forward!NoConn \in Conns /\ n \in Nat
      BY DEF Forward!NoConn, Conns, Stages, Stamps, Labels
    <3>2. new(p, n) \in Conns
      BY <3>1 DEF Conns
    <3> HIDE DEF new
    <3>3. \A x \in Conns, a \in Stages, w \in Labels : [x EXCEPT !.pc = a, !.who = w] \in Conns
      BY DEF Conns
    <3>4. \A x \in Conns, a \in Stages, w \in Labels, t \in Stamps : [x EXCEPT !.pc = a, !.who = w, !.stamp = t] \in Conns
      BY DEF Conns
    <3>5. \A x \in Conns, a \in Stages : [x EXCEPT !.pc = a] \in Conns
      BY DEF Conns
    <3>6. "gone" \in Stages /\ "head" \in Stages /\ "owner" \in Stages /\ "ctr" \in Stamps /\ "ctr" \in Labels
      BY DEF Stages, Stamps, Labels
    <3>7. Forward!Senders \subseteq Labels
      BY DEF Forward!Senders, Labels, Stamps
    <3>8. CASE conn' = [new(p, n) EXCEPT !.pc = "gone"]
      BY <3>2, <3>5, <3>6, <3>8 DEF ConnType
    <3>9. CASE conn' = [new(p, n) EXCEPT !.pc = "head", !.who = "ctr", !.stamp = "ctr"]
      BY <3>2, <3>4, <3>6, <3>9 DEF ConnType
    <3>10. ASSUME NEW w \in Forward!Senders, conn' = [new(p, n) EXCEPT !.pc = "owner", !.who = w]
           PROVE  conn' \in Conns
      BY <3>2, <3>3, <3>6, <3>7, <3>10
    <3> QED
      BY <2>1, <3>8, <3>9, <3>10 DEF ConnType
  <2> HIDE DEF new
  <2> QED
    BY <2>2, <2>3 DEF ForwardInv, Binding, ProxyFirst, Forward!RowsNameTheSender
<1>2. CASE Forward!Attribute
  <2>w. conn.pc = "owner" => /\ Forward!Owner(conn.who) \in {conn.who, "pasta"}
                            /\ conn.who \in {"container", "build", "vm", "pasta"}
    BY <1>0 DEF Binding, Forward!Owner, Forward!Classify, Forward!Cgroup, Forward!Senders
  <2>k. key' = key
    BY <1>2 DEF Forward!Attribute, Forward!Over, Forward!Now
  <2>0. \/ conn.pc = "owner" /\ Forward!Owner(conn.who) # "pasta" /\ conn' = [conn EXCEPT !.pc = "head", !.stamp = Forward!Owner(conn.who)]
        \/ conn.pc = "owner" /\ conn' = [conn EXCEPT !.pc = "gone"]
    BY <1>2 DEF Forward!Attribute, Forward!Over, Forward!Now
  <2>1. CASE conn.pc = "owner" /\ Forward!Owner(conn.who) # "pasta" /\ conn' = [conn EXCEPT !.pc = "head", !.stamp = Forward!Owner(conn.who)]
    <3>0a. conn \in Conns /\ "head" \in Stages /\ Forward!Owner(conn.who) \in Stamps
      BY <1>0, <2>w, <2>1 DEF ConnType, Conns, Stages, Stamps
    <3>0b. [conn EXCEPT !.pc = "head", !.stamp = Forward!Owner(conn.who)] \in Conns
      BY <3>0a DEF Conns
    <3>1. ConnType'
      BY <2>1, <3>0b DEF ConnType
    <3>2. Binding' /\ ProxyFirst'
      BY <1>0, <2>1, <2>k, <2>w DEF ConnType, Conns, Stages, Stamps, Binding, ProxyFirst, Forward!RowsNameTheSender
    <3> QED
      BY <3>1, <3>2 DEF ForwardInv
  <2>2. CASE conn.pc = "owner" /\ conn' = [conn EXCEPT !.pc = "gone"]
    <3>0a. conn \in Conns /\ "gone" \in Stages
      BY <1>0, <2>w, <2>2 DEF ConnType, Conns, Stages, Stamps
    <3>0b. [conn EXCEPT !.pc = "gone"] \in Conns
      BY <3>0a DEF Conns
    <3>1. ConnType'
      BY <2>2, <3>0b DEF ConnType
    <3>2. Binding' /\ ProxyFirst'
      BY <1>0, <2>2, <2>k, <2>w DEF ConnType, Conns, Stages, Stamps, Binding, ProxyFirst, Forward!RowsNameTheSender
    <3> QED
      BY <3>1, <3>2 DEF ForwardInv
  <2> QED
    BY <2>0, <2>1, <2>2
<1>3. CASE Forward!Head
  <2>k. key' = key
    BY <1>3 DEF Forward!Head, Forward!Over, Forward!Now
  <2>0. \/ conn.pc = "head" /\ conn' = [conn EXCEPT !.pc = "dial"]
        \/ conn.pc = "head" /\ conn' = [conn EXCEPT !.pc = "dial", !.read = 1]
        \/ conn.pc = "head" /\ conn' = [conn EXCEPT !.pc = "gone"]
    BY <1>3 DEF Forward!Head, Forward!Over, Forward!Now
  <2>1. CASE conn.pc = "head" /\ conn' = [conn EXCEPT !.pc = "dial"]
    <3>0a. conn \in Conns /\ "dial" \in Stages
      BY <1>0 DEF ConnType, Conns, Stages, Stamps
    <3>0b. [conn EXCEPT !.pc = "dial"] \in Conns
      BY <3>0a DEF Conns
    <3>1. ConnType'
      BY <2>1, <3>0b DEF ConnType
    <3>2. Binding' /\ ProxyFirst'
      BY <1>0, <2>1, <2>k DEF ConnType, Conns, Stages, Stamps, Binding, ProxyFirst, Forward!RowsNameTheSender
    <3> QED
      BY <3>1, <3>2 DEF ForwardInv
  <2>2. CASE conn.pc = "head" /\ conn' = [conn EXCEPT !.pc = "dial", !.read = 1]
    <3>0a. conn \in Conns /\ "dial" \in Stages /\ 1 \in Nat
      BY <1>0 DEF ConnType, Conns, Stages, Stamps
    <3>0b. [conn EXCEPT !.pc = "dial", !.read = 1] \in Conns
      BY <3>0a DEF Conns
    <3>1. ConnType'
      BY <2>2, <3>0b DEF ConnType
    <3>2. Binding' /\ ProxyFirst'
      BY <1>0, <2>2, <2>k DEF ConnType, Conns, Stages, Stamps, Binding, ProxyFirst, Forward!RowsNameTheSender
    <3> QED
      BY <3>1, <3>2 DEF ForwardInv
  <2>3. CASE conn.pc = "head" /\ conn' = [conn EXCEPT !.pc = "gone"]
    <3>0a. conn \in Conns /\ "gone" \in Stages
      BY <1>0 DEF ConnType, Conns, Stages, Stamps
    <3>0b. [conn EXCEPT !.pc = "gone"] \in Conns
      BY <3>0a DEF Conns
    <3>1. ConnType'
      BY <2>3, <3>0b DEF ConnType
    <3>2. Binding' /\ ProxyFirst'
      BY <1>0, <2>3, <2>k DEF ConnType, Conns, Stages, Stamps, Binding, ProxyFirst, Forward!RowsNameTheSender
    <3> QED
      BY <3>1, <3>2 DEF ForwardInv
  <2> QED
    BY <2>0, <2>1, <2>2, <2>3
<1>4. CASE Forward!Dial
  <2>k. key' = key
    BY <1>4 DEF Forward!Dial, Forward!Over, Forward!Now
  <2>0. \/ conn.pc = "dial" /\ conn' = [conn EXCEPT !.pc = "splice"]
        \/ conn.pc = "dial" /\ conn' = [conn EXCEPT !.pc = "gone"]
        \/ conn.pc = "dial" /\ conn' = [conn EXCEPT !.dials = conn.dials + 1]
    BY <1>4 DEF Forward!Dial, Forward!Over, Forward!Now
  <2>1. CASE conn.pc = "dial" /\ conn' = [conn EXCEPT !.pc = "splice"]
    <3>0a. conn \in Conns /\ "splice" \in Stages
      BY <1>0 DEF ConnType, Conns, Stages, Stamps
    <3>0b. [conn EXCEPT !.pc = "splice"] \in Conns
      BY <3>0a DEF Conns
    <3>1. ConnType'
      BY <2>1, <3>0b DEF ConnType
    <3>2. Binding' /\ ProxyFirst'
      BY <1>0, <2>1, <2>k DEF ConnType, Conns, Stages, Stamps, Binding, ProxyFirst, Forward!RowsNameTheSender
    <3> QED
      BY <3>1, <3>2 DEF ForwardInv
  <2>2. CASE conn.pc = "dial" /\ conn' = [conn EXCEPT !.pc = "gone"]
    <3>0a. conn \in Conns /\ "gone" \in Stages
      BY <1>0 DEF ConnType, Conns, Stages, Stamps
    <3>0b. [conn EXCEPT !.pc = "gone"] \in Conns
      BY <3>0a DEF Conns
    <3>1. ConnType'
      BY <2>2, <3>0b DEF ConnType
    <3>2. Binding' /\ ProxyFirst'
      BY <1>0, <2>2, <2>k DEF ConnType, Conns, Stages, Stamps, Binding, ProxyFirst, Forward!RowsNameTheSender
    <3> QED
      BY <3>1, <3>2 DEF ForwardInv
  <2>3. CASE conn.pc = "dial" /\ conn' = [conn EXCEPT !.dials = conn.dials + 1]
    <3>0a. conn \in Conns /\ (conn.dials + 1) \in Nat
      BY <1>0 DEF ConnType, Conns
    <3>0b. [conn EXCEPT !.dials = conn.dials + 1] \in Conns
      BY <3>0a DEF Conns
    <3>1. ConnType'
      BY <2>3, <3>0b DEF ConnType
    <3>2. Binding' /\ ProxyFirst'
      BY <1>0, <2>3, <2>k DEF ConnType, Conns, Stages, Stamps, Binding, ProxyFirst, Forward!RowsNameTheSender
    <3> QED
      BY <3>1, <3>2 DEF ForwardInv
  <2> QED
    BY <2>0, <2>1, <2>2, <2>3
<1>5. CASE Forward!ReadClient
  <2>k. key' = key
    BY <1>5 DEF Forward!ReadClient, Forward!Copies, Forward!Splicing, Forward!Now
  <2>0. conn.pc = "splice" /\ conn' = [conn EXCEPT !.read = conn.read + 1]
    BY <1>5 DEF Forward!ReadClient, Forward!Copies, Forward!Splicing, Forward!Now
  <2>0a. conn \in Conns /\ (conn.read + 1) \in Nat
    BY <1>0 DEF ConnType, Conns
  <2>0b. [conn EXCEPT !.read = conn.read + 1] \in Conns
    BY <2>0a DEF Conns
  <2>1. ConnType'
    BY <2>0, <2>0b DEF ConnType
  <2>2. Binding' /\ ProxyFirst'
    BY <1>0, <2>0, <2>k DEF ConnType, Conns, Stages, Stamps, Binding, ProxyFirst, Forward!RowsNameTheSender
  <2> QED
    BY <2>1, <2>2 DEF ForwardInv
<1>6. CASE Forward!Flush
  <2>k. key' = key
    BY <1>6 DEF Forward!Flush, Forward!Now
  <2>0. conn.pc \in {"splice", "closing"} /\ conn' = [conn EXCEPT !.given = conn.given + 1]
    BY <1>6 DEF Forward!Flush, Forward!Now
  <2>0a. conn \in Conns /\ (conn.given + 1) \in Nat
    BY <1>0 DEF ConnType, Conns
  <2>0b. [conn EXCEPT !.given = conn.given + 1] \in Conns
    BY <2>0a DEF Conns
  <2>1. ConnType'
    BY <2>0, <2>0b DEF ConnType
  <2>2. Binding' /\ ProxyFirst'
    BY <1>0, <2>0, <2>k DEF ConnType, Conns, Stages, Stamps, Binding, ProxyFirst, Forward!RowsNameTheSender
  <2> QED
    BY <2>1, <2>2 DEF ForwardInv
<1>7. CASE Forward!Acknowledge
  <2>k. key' = key
    BY <1>7 DEF Forward!Acknowledge, Forward!Now
  <2>0. conn.pc \in {"splice", "closing"} /\ conn' = [conn EXCEPT !.acked = conn.acked + 1]
    BY <1>7 DEF Forward!Acknowledge, Forward!Now
  <2>0a. conn \in Conns /\ (conn.acked + 1) \in Nat
    BY <1>0 DEF ConnType, Conns
  <2>0b. [conn EXCEPT !.acked = conn.acked + 1] \in Conns
    BY <2>0a DEF Conns
  <2>1. ConnType'
    BY <2>0, <2>0b DEF ConnType
  <2>2. Binding' /\ ProxyFirst'
    BY <1>0, <2>0, <2>k DEF ConnType, Conns, Stages, Stamps, Binding, ProxyFirst, Forward!RowsNameTheSender
  <2> QED
    BY <2>1, <2>2 DEF ForwardInv
<1>8. CASE Forward!ToUpstream
  <2>k. key' = key
    BY <1>8 DEF Forward!ToUpstream, Forward!Copies, Forward!Splicing, Forward!Now
  <2>0. conn.pc = "splice" /\ "up" \notin conn.ends /\ conn' = [conn EXCEPT !.ends = conn.ends \cup {"up"}, !.fin = IF conn.upstreamDone THEN "no" ELSE "sent"]
    BY <1>8 DEF Forward!ToUpstream, Forward!Copies, Forward!Splicing, Forward!Now
  <2>0a. conn \in Conns /\ (conn.ends \cup {"up"}) \in SUBSET {"up", "cl"} /\ (IF conn.upstreamDone THEN "no" ELSE "sent") \in {"no", "sent", "rst"}
    BY <1>0 DEF ConnType, Conns
  <2>0b. [conn EXCEPT !.ends = conn.ends \cup {"up"}, !.fin = IF conn.upstreamDone THEN "no" ELSE "sent"] \in Conns
    BY <2>0a DEF Conns
  <2>1. ConnType'
    BY <2>0, <2>0b DEF ConnType
  <2>2. Binding' /\ ProxyFirst'
    BY <1>0, <2>0, <2>k DEF ConnType, Conns, Stages, Stamps, Binding, ProxyFirst, Forward!RowsNameTheSender
  <2> QED
    BY <2>1, <2>2 DEF ForwardInv
<1>9. CASE Forward!ToClient
  <2>k. key' = key
    BY <1>9 DEF Forward!ToClient, Forward!Copies, Forward!Splicing, Forward!Now
  <2>0. \/ conn.pc = "splice" /\ "cl" \notin conn.ends /\ conn' = [conn EXCEPT !.ends = conn.ends \cup {"cl"}, !.upstreamDone = TRUE, !.hostFirst = "up" \notin conn.ends]
        \/ conn.pc = "splice" /\ "cl" \notin conn.ends /\ conn' = [conn EXCEPT !.ends = conn.ends \cup {"cl"}]
    BY <1>9 DEF Forward!ToClient, Forward!Copies, Forward!Splicing, Forward!Now
  <2>1. CASE conn.pc = "splice" /\ "cl" \notin conn.ends /\ conn' = [conn EXCEPT !.ends = conn.ends \cup {"cl"}, !.upstreamDone = TRUE, !.hostFirst = "up" \notin conn.ends]
    <3>0a. conn \in Conns /\ (conn.ends \cup {"cl"}) \in SUBSET {"up", "cl"} /\ TRUE \in BOOLEAN /\ ("up" \notin conn.ends) \in BOOLEAN
      BY <1>0 DEF ConnType, Conns
    <3>0b. [conn EXCEPT !.ends = conn.ends \cup {"cl"}, !.upstreamDone = TRUE, !.hostFirst = "up" \notin conn.ends] \in Conns
      BY <3>0a DEF Conns
    <3>1. ConnType'
      BY <2>1, <3>0b DEF ConnType
    <3>2. Binding' /\ ProxyFirst'
      BY <1>0, <2>1, <2>k DEF ConnType, Conns, Stages, Stamps, Binding, ProxyFirst, Forward!RowsNameTheSender
    <3> QED
      BY <3>1, <3>2 DEF ForwardInv
  <2>2. CASE conn.pc = "splice" /\ "cl" \notin conn.ends /\ conn' = [conn EXCEPT !.ends = conn.ends \cup {"cl"}]
    <3>0a. conn \in Conns /\ (conn.ends \cup {"cl"}) \in SUBSET {"up", "cl"}
      BY <1>0 DEF ConnType, Conns
    <3>0b. [conn EXCEPT !.ends = conn.ends \cup {"cl"}] \in Conns
      BY <3>0a DEF Conns
    <3>1. ConnType'
      BY <2>2, <3>0b DEF ConnType
    <3>2. Binding' /\ ProxyFirst'
      BY <1>0, <2>2, <2>k DEF ConnType, Conns, Stages, Stamps, Binding, ProxyFirst, Forward!RowsNameTheSender
    <3> QED
      BY <3>1, <3>2 DEF ForwardInv
  <2> QED
    BY <2>0, <2>1, <2>2
<1>10. CASE Forward!Drain
  <2>k. key' = key
    BY <1>10 DEF Forward!Drain, Forward!Splicing, Forward!Now
  <2>0. conn.pc = "splice" /\ conn.ends = {"up", "cl"} /\ conn.fin = "no" /\ conn' = [conn EXCEPT !.pc = "closing"]
    BY <1>10 DEF Forward!Drain, Forward!Splicing, Forward!Now
  <2>0a. conn \in Conns /\ "closing" \in Stages
    BY <1>0 DEF ConnType, Conns, Stages, Stamps
  <2>0b. [conn EXCEPT !.pc = "closing"] \in Conns
    BY <2>0a DEF Conns
  <2>1. ConnType'
    BY <2>0, <2>0b DEF ConnType
  <2>2. Binding' /\ ProxyFirst'
    BY <1>0, <2>0, <2>k DEF ConnType, Conns, Stages, Stamps, Binding, ProxyFirst, Forward!RowsNameTheSender
  <2> QED
    BY <2>1, <2>2 DEF ForwardInv
<1>11. CASE Forward!Close
  <2>k. key' = key
    BY <1>11 DEF Forward!Close, Forward!Splicing, Forward!Now
  <2>0. \/ conn.pc = "splice" /\ ~(conn.upstreamDone /\ conn.fin = "no") /\ conn' = [conn EXCEPT !.pc = "gone", !.fin = "sent"]
        \/ conn.pc = "closing" /\ conn' = [conn EXCEPT !.pc = "gone", !.fin = "rst"]
        \/ conn.pc = "closing" /\ conn' = [conn EXCEPT !.pc = "gone", !.fin = "sent", !.late = TRUE]
    BY <1>11 DEF Forward!Close, Forward!Splicing, Forward!Now
  <2>1. CASE conn.pc = "splice" /\ ~(conn.upstreamDone /\ conn.fin = "no") /\ conn' = [conn EXCEPT !.pc = "gone", !.fin = "sent"]
    <3>0a. conn \in Conns /\ "gone" \in Stages /\ "sent" \in {"no", "sent", "rst"}
      BY <1>0 DEF ConnType, Conns, Stages, Stamps
    <3>0b. [conn EXCEPT !.pc = "gone", !.fin = "sent"] \in Conns
      BY <3>0a DEF Conns
    <3>1. ConnType'
      BY <2>1, <3>0b DEF ConnType
    <3>2. Binding' /\ ProxyFirst'
      BY <1>0, <2>1, <2>k DEF ConnType, Conns, Stages, Stamps, Binding, ProxyFirst, Forward!RowsNameTheSender
    <3> QED
      BY <3>1, <3>2 DEF ForwardInv
  <2>2. CASE conn.pc = "closing" /\ conn' = [conn EXCEPT !.pc = "gone", !.fin = "rst"]
    <3>0a. conn \in Conns /\ "gone" \in Stages /\ "rst" \in {"no", "sent", "rst"}
      BY <1>0 DEF ConnType, Conns, Stages, Stamps
    <3>0b. [conn EXCEPT !.pc = "gone", !.fin = "rst"] \in Conns
      BY <3>0a DEF Conns
    <3>1. ConnType'
      BY <2>2, <3>0b DEF ConnType
    <3>2. Binding' /\ ProxyFirst'
      BY <1>0, <2>2, <2>k DEF ConnType, Conns, Stages, Stamps, Binding, ProxyFirst, Forward!RowsNameTheSender
    <3> QED
      BY <3>1, <3>2 DEF ForwardInv
  <2>3. CASE conn.pc = "closing" /\ conn' = [conn EXCEPT !.pc = "gone", !.fin = "sent", !.late = TRUE]
    <3>0a. conn \in Conns /\ "gone" \in Stages /\ "sent" \in {"no", "sent", "rst"} /\ TRUE \in BOOLEAN
      BY <1>0 DEF ConnType, Conns, Stages, Stamps
    <3>0b. [conn EXCEPT !.pc = "gone", !.fin = "sent", !.late = TRUE] \in Conns
      BY <3>0a DEF Conns
    <3>1. ConnType'
      BY <2>3, <3>0b DEF ConnType
    <3>2. Binding' /\ ProxyFirst'
      BY <1>0, <2>3, <2>k DEF ConnType, Conns, Stages, Stamps, Binding, ProxyFirst, Forward!RowsNameTheSender
    <3> QED
      BY <3>1, <3>2 DEF ForwardInv
  <2> QED
    BY <2>0, <2>1, <2>2, <2>3
<1>12. CASE Forward!ClientEnds
  <2>1. PICK e \in {"eof", "reset"} : conn' = [conn EXCEPT !.client = e] /\ key' = key
    BY <1>12 DEF Forward!ClientEnds, Forward!Now
  <2>0. [conn EXCEPT !.client = e] \in Conns
    BY <1>0 DEF ConnType, Conns
  <2>2. ConnType'
    BY <2>0, <2>1 DEF ConnType
  <2>3. Binding' /\ ProxyFirst'
    BY <1>0, <2>1 DEF ConnType, Conns, Binding, ProxyFirst, Forward!RowsNameTheSender
  <2> QED
    BY <2>2, <2>3 DEF ForwardInv
<1>13. CASE Forward!ProxyEnds
  <2>1. PICK e \in {"eof", "reset"} : conn' = [conn EXCEPT !.proxy = e] /\ key' = key
    BY <1>13 DEF Forward!ProxyEnds, Forward!Now
  <2>0. [conn EXCEPT !.proxy = e] \in Conns
    BY <1>0 DEF ConnType, Conns
  <2>2. ConnType'
    BY <2>0, <2>1 DEF ConnType
  <2>3. Binding' /\ ProxyFirst'
    BY <1>0, <2>1 DEF ConnType, Conns, Binding, ProxyFirst, Forward!RowsNameTheSender
  <2> QED
    BY <2>2, <2>3 DEF ForwardInv
<1>14. CASE Forward!Serve
  <2>1. PICK o : /\ \E claim \in {"", "claim"} : o = Forward!Origin(claim)
                 /\ conn' = [conn EXCEPT !.asked = conn.asked + 1, !.origin = o, !.rows = conn.rows \cup {o}]
                 /\ key' = key
    BY <1>14 DEF Forward!Serve, Forward!Now
  <2>2. conn.pc = "splice"
    BY <1>14 DEF Forward!Serve, Forward!Splicing
  <2>3. o = conn.who \/ (o = "forged" /\ ~key)
    <3>1. CASE conn.asked = 0
      <4>1. conn.stamp = conn.who /\ conn.stamp \notin {"", "claim"}
        BY <1>0, <2>2 DEF ConnType, Conns, Stamps, Binding
      <4> QED
        BY <2>1, <3>1, <4>1 DEF Forward!Origin, Forward!Verify
    <3>2. CASE conn.asked # 0
      BY <1>0, <2>1, <3>2 DEF Binding, Forward!Origin
    <3> QED
      BY <3>1, <3>2
  <2>4. conn \in Conns /\ conn.asked + 1 \in Nat /\ o \in Labels /\ conn.rows \cup {o} \in SUBSET Labels
    BY <1>0, <2>3 DEF ConnType, Conns, Labels
  <2>5. ConnType'
    <3>1. [conn EXCEPT !.asked = conn.asked + 1, !.origin = o, !.rows = conn.rows \cup {o}] \in Conns
      BY <2>4 DEF Conns
    <3> QED
      BY <2>1, <3>1 DEF ConnType
  <2>6. Binding' /\ ProxyFirst'
    BY <1>0, <2>1, <2>2, <2>3 DEF ConnType, Conns, Binding, ProxyFirst, Forward!RowsNameTheSender
  <2> QED
    BY <2>5, <2>6 DEF ForwardInv
<1>15. CASE Forward!KeyMadeAgain \/ UNCHANGED forwarderVars
  <2>1. conn' = conn /\ (key' => key)
    BY <1>15 DEF Forward!KeyMadeAgain, forwarderVars
  <2>2. ConnType' /\ ProxyFirst'
    BY <1>0, <2>1 DEF ConnType, ProxyFirst
  <2>3. Binding'
    BY <1>0, <2>1 DEF Binding, Forward!RowsNameTheSender
  <2> QED
    BY <2>2, <2>3 DEF ForwardInv
<1> QED
  BY <1>1, <1>2, <1>3, <1>4, <1>5, <1>6, <1>7, <1>8, <1>9, <1>10, <1>11, <1>12, <1>13, <1>14, <1>15 DEF Forward!Next, Forward!Relay

(* A logged row names who opened the connection, whatever its requests     *)
(* claim: at worst it is marked forged once the host's key has changed.    *)
THEOREM RowsAreTheSenders == Forward!Spec => []Forward!RowsNameTheSender
<1>1. ForwardInv => Forward!RowsNameTheSender
  BY DEF ForwardInv, Binding
<1> QED
  BY <1>1, ForwardInit, ForwardStep, PTL DEF Forward!Spec, Forward!vars, forwarderVars

(* A connection whose proxy ended first is reset rather than closed with a *)
(* FIN, unless what was owed was not acknowledged in time (fwd.py relay).  *)
THEOREM ProxyFirstIsReset == Forward!Spec => []HostFirstGetsNoFin
<1>1. ForwardInv => HostFirstGetsNoFin
  BY DEF ForwardInv, ConnType, ProxyFirst, HostFirstGetsNoFin, Forward!HostFirstGetsNoFin
<1> QED
  BY <1>1, ForwardInit, ForwardStep, PTL DEF Forward!Spec, Forward!vars, forwarderVars

(* So a logged row names its sender: the relay's stamp is what the proxy   *)
(* logs, and the relay listens in the namespace the boxes are in.          *)
THEOREM SendersAreNamed == Follow!Spec /\ Forward!Spec => []SenderIsNamed
  BY ListenerInItsNamespace, RowsAreTheSenders, PTL DEF SenderIsNamed

-----------------------------------------------------------------------------
(* Attribution.                                                            *)

Snaps == [at : Nat, ids : SUBSET Containers, ctr : Containers \cup {""}, hold : Nat]

HolderTyped ==
  /\ holder \in [ctr : Containers \cup {""}, hold : Nat]
  /\ running \subseteq Containers /\ holds \in Nat
PollTyped ==
  /\ polls \in Nat
  /\ poll \in [pc : {"idle", "ps", "inspect", "append", "again"}, ids : SUBSET Containers, snap : Snaps]
FilesTyped == rotated \in Seq(Snaps) /\ snapshots \in Seq(Snaps)
RowTyped == row \in [at : Nat, ctr : Containers \cup {""}, hold : Nat, blurred : BOOLEAN]

OriginType == HolderTyped /\ PollTyped /\ FilesTyped /\ RowTyped

(* The snapshots that are kept, and the one that is about to be written.   *)
Trail == IF poll.pc = "append" THEN Append(Origin!Kept, poll.snap) ELSE Origin!Kept

Making == poll.pc \in {"ps", "inspect", "again"}

(* A holding has a number of its own, which is its container's.            *)
Holdings ==
  /\ holder.hold <= holds
  /\ IF holder.hold = 0 THEN holder = Origin!Nobody ELSE holder.ctr \in running
  /\ row.hold <= holds /\ row.at <= polls
  /\ IF row.hold = 0 THEN row = Origin!NoRow ELSE row.ctr \in Containers
  /\ row.hold # 0 /\ row.hold = holder.hold => row.ctr = holder.ctr

(* The snapshots are in the order of their polls, each true of its time.   *)
InOrder ==
  /\ \A i \in 1..Len(Trail) :
       /\ Trail[i].at <= polls /\ (Making => Trail[i].at < polls)
       /\ Trail[i].hold <= holds
       /\ Trail[i].hold # 0 /\ Trail[i].hold = holder.hold => Trail[i].ctr = holder.ctr
       /\ Trail[i].hold # 0 /\ Trail[i].hold = row.hold => Trail[i].ctr = row.ctr
  /\ \A i, j \in 1..Len(Trail) : i < j => Trail[i].at < Trail[j].at

(* A holding that was seen is seen by every snapshot until it ends.        *)
SeenOn ==
  holder.hold # 0 => \A i \in 1..Len(Trail) : Trail[i].hold = holder.hold =>
    /\ \A j \in i..Len(Trail) : Trail[j].hold = holder.hold
    /\ poll.pc = "inspect" => holder.ctr \in poll.ids

(* Between a row and a snapshot that saw its holding every other saw it.   *)
RowSeen ==
  row.hold # 0 /\ ~row.blurred =>
    /\ Making => row.at < polls
    /\ row.hold = holder.hold =>
         /\ \A i \in 1..Len(Trail) : Trail[i].at > row.at => Trail[i].hold = row.hold
         /\ poll.pc = "inspect" => holder.ctr \in poll.ids
    /\ \A i, j \in 1..Len(Trail) : i < j =>
         /\ Trail[j].hold = row.hold /\ Trail[i].at > row.at => Trail[i].hold = row.hold
         /\ Trail[i].hold = row.hold /\ Trail[j].at <= row.at => Trail[j].hold = row.hold

OriginInv == OriginType /\ Holdings /\ InOrder /\ SeenOn /\ RowSeen

LEMMA TrailTyped == OriginType => /\ Origin!Kept \in Seq(Snaps)
                                  /\ Trail \in Seq(Snaps)
                                  /\ \A i \in 1..Len(Trail) : Trail[i] \in Snaps
<1> SUFFICES ASSUME OriginType
             PROVE  Origin!Kept \in Seq(Snaps) /\ Trail \in Seq(Snaps)
  OBVIOUS
<1>1. Origin!Kept \in Seq(Snaps)
  BY ConcatProperties DEF OriginType, FilesTyped, Origin!Kept
<1>2. poll.snap \in Snaps
  BY DEF OriginType, PollTyped
<1> QED
  BY <1>1, <1>2 DEF Trail

LEMMA TrailTypedNext == OriginType' => /\ Trail' \in Seq(Snaps)
                                       /\ \A i \in 1..Len(Trail') : Trail'[i] \in Snaps
<1> SUFFICES ASSUME OriginType' PROVE Trail' \in Seq(Snaps)
  OBVIOUS
<1>1. (Origin!Kept)' \in Seq(Snaps)
  BY ConcatProperties DEF OriginType, FilesTyped, Origin!Kept
<1>2. poll'.snap \in Snaps
  BY DEF OriginType, PollTyped
<1> QED
  BY <1>1, <1>2 DEF Trail

LEMMA OriginNumbers == OriginType =>
  /\ holder.hold \in Nat /\ holds \in Nat /\ polls \in Nat /\ row.at \in Nat /\ row.hold \in Nat
  /\ \A i \in 1..Len(Trail) : Trail[i].at \in Nat /\ Trail[i].hold \in Nat
<1> SUFFICES ASSUME OriginType
             PROVE  /\ holder.hold \in Nat /\ holds \in Nat /\ polls \in Nat /\ row.at \in Nat /\ row.hold \in Nat
                    /\ \A i \in 1..Len(Trail) : Trail[i].at \in Nat /\ Trail[i].hold \in Nat
  OBVIOUS
<1>1. holder.hold \in Nat /\ holds \in Nat
  BY DEF OriginType, HolderTyped
<1>2. polls \in Nat /\ row.at \in Nat /\ row.hold \in Nat
  BY DEF OriginType, PollTyped, RowTyped
<1>3. \A s \in Snaps : s.at \in Nat /\ s.hold \in Nat
  BY DEF Snaps
<1> QED
  BY <1>1, <1>2, <1>3, TrailTyped

LEMMA OriginNumbersNext == OriginType' =>
  /\ holder'.hold \in Nat /\ holds' \in Nat /\ polls' \in Nat /\ row'.at \in Nat /\ row'.hold \in Nat
  /\ \A i \in 1..Len(Trail') : Trail'[i].at \in Nat /\ Trail'[i].hold \in Nat
<1> SUFFICES ASSUME OriginType'
             PROVE  /\ holder'.hold \in Nat /\ holds' \in Nat /\ polls' \in Nat /\ row'.at \in Nat /\ row'.hold \in Nat
                    /\ \A i \in 1..Len(Trail') : Trail'[i].at \in Nat /\ Trail'[i].hold \in Nat
  OBVIOUS
<1>1. holder'.hold \in Nat /\ holds' \in Nat
  BY DEF OriginType, HolderTyped
<1>2. polls' \in Nat /\ row'.at \in Nat /\ row'.hold \in Nat
  BY DEF OriginType, PollTyped, RowTyped
<1>3. \A s \in Snaps : s.at \in Nat /\ s.hold \in Nat
  BY DEF Snaps
<1> QED
  BY <1>1, <1>2, <1>3, TrailTypedNext

(* What a part of a sequence, or all of it, still holds.                   *)
PartOf(S, T) ==
  \E d \in Nat : Len(S) + d <= Len(T) /\ \A i \in 1..Len(S) : S[i] = T[i + d]

LEMMA NoPollTyped == Origin!NoPoll \in [pc : {"idle", "ps", "inspect", "append", "again"}, ids : SUBSET Containers, snap : Snaps]
<1>1. [at |-> 0, ids |-> {}, ctr |-> "", hold |-> 0] \in Snaps
  BY DEF Snaps
<1> QED
  BY <1>1 DEF Origin!NoPoll

LEMMA OriginTypeStep == OriginType /\ [Origin!Next]_(Origin!vars) => OriginType'
<1> SUFFICES ASSUME OriginType, [Origin!Next]_(Origin!vars) PROVE OriginType'
  OBVIOUS
<1>0. HolderTyped /\ PollTyped /\ FilesTyped /\ RowTyped
  BY DEF OriginType
<1>a. ASSUME UNCHANGED <<holder, running, holds>> PROVE HolderTyped'
  BY <1>0, <1>a DEF HolderTyped
<1>b. ASSUME UNCHANGED <<polls, poll>> PROVE PollTyped'
  BY <1>0, <1>b DEF PollTyped
<1>c. ASSUME UNCHANGED <<rotated, snapshots>> PROVE FilesTyped'
  BY <1>0, <1>c DEF FilesTyped
<1>d. ASSUME UNCHANGED row PROVE RowTyped'
  BY <1>0, <1>d DEF RowTyped
<1>1. ASSUME NEW c \in Containers, Origin!Starts(c) PROVE OriginType'
  <2>1. UNCHANGED <<polls, poll, rotated, snapshots, row>>
    BY <1>1 DEF Origin!Starts, Origin!Event, Origin!snapper
  <2>2. UNCHANGED <<holder, holds>> \/ (holder' = [ctr |-> c, hold |-> holds + 1] /\ holds' = holds + 1)
    BY <1>1 DEF Origin!Starts
  <2>7. holds \in Nat
    BY <1>0 DEF HolderTyped
  <2>5. holds \in Nat /\ holds + 1 \in Nat
    BY <2>7
  <2>6. [ctr |-> c, hold |-> holds + 1] \in [ctr : Containers \cup {""}, hold : Nat]
    BY <2>5
  <2>3. holder' \in [ctr : Containers \cup {""}, hold : Nat] /\ holds' \in Nat
    BY <1>0, <2>2, <2>5, <2>6 DEF HolderTyped
  <2>4. HolderTyped'
    BY <1>0, <1>1, <2>3 DEF HolderTyped, Origin!Starts
  <2> QED
    BY <1>b, <1>c, <1>d, <2>1, <2>4 DEF OriginType
<1>2. ASSUME NEW c \in Containers, Origin!Stops(c) PROVE OriginType'
  <2>1. UNCHANGED <<polls, poll, rotated, snapshots, row>>
    BY <1>2 DEF Origin!Stops, Origin!Event, Origin!snapper
  <2>2. HolderTyped'
    BY <1>0, <1>2 DEF HolderTyped, Origin!Stops, Origin!Nobody
  <2> QED
    BY <1>b, <1>c, <1>d, <2>1, <2>2 DEF OriginType
<1>3. CASE Origin!Logged
  <2>1. UNCHANGED <<holder, running, holds, polls, poll, rotated, snapshots>>
    BY <1>3 DEF Origin!Logged, Origin!engine, Origin!snapper
  <2>2. RowTyped'
    BY <1>0, <1>3 DEF HolderTyped, PollTyped, RowTyped, Origin!Logged
  <2> QED
    BY <1>a, <1>b, <1>c, <2>1, <2>2 DEF OriginType
<1>4. CASE Origin!Begin
  <2>1. UNCHANGED <<holder, running, holds, rotated, snapshots, row>>
    BY <1>4 DEF Origin!Begin, Origin!Goes, Origin!engine
  <2>2. polls' \in Nat /\ poll' = [Origin!NoPoll EXCEPT !.pc = "ps"]
    BY <1>0, <1>4 DEF PollTyped, Origin!Begin, Origin!Goes
  <2>3. PollTyped'
    BY <2>2, NoPollTyped DEF PollTyped
  <2> QED
    BY <1>a, <1>c, <1>d, <2>1, <2>3 DEF OriginType
<1>5. CASE Origin!Ps
  <2>1. UNCHANGED <<holder, running, holds, polls, rotated, snapshots, row>>
    BY <1>5 DEF Origin!Ps, Origin!Goes, Origin!Ends, Origin!engine
  <2>2. poll' = Origin!NoPoll \/ poll' = [poll EXCEPT !.pc = "inspect", !.ids = running]
    BY <1>5 DEF Origin!Ps, Origin!Goes, Origin!Ends
  <2>3. PollTyped'
    BY <1>0, <2>1, <2>2, NoPollTyped DEF PollTyped, HolderTyped
  <2> QED
    BY <1>a, <1>c, <1>d, <2>1, <2>3 DEF OriginType
<1>6. CASE Origin!Inspect
  <2>1. UNCHANGED <<holder, running, holds, polls, rotated, snapshots, row>>
    BY <1>6 DEF Origin!Inspect, Origin!Goes, Origin!Ends, Origin!engine
  <2>2. \/ poll' = Origin!NoPoll
        \/ poll' = [poll EXCEPT !.pc = "append", !.snap = Origin!Snap(poll.ids)]
        \/ poll' = [poll EXCEPT !.pc = "again"]
    BY <1>6 DEF Origin!Inspect, Origin!Goes, Origin!Ends
  <2>3. Origin!Snap(poll.ids) \in Snaps
    BY <1>0 DEF PollTyped, HolderTyped, Snaps, Origin!Snap
  <2>4. PollTyped'
    BY <1>0, <2>1, <2>2, <2>3, NoPollTyped DEF PollTyped
  <2> QED
    BY <1>a, <1>c, <1>d, <2>1, <2>4 DEF OriginType
<1>7. CASE Origin!Again \/ Origin!Restart
  <2>1. UNCHANGED <<holder, running, holds, polls, rotated, snapshots, row>> /\ poll' = Origin!NoPoll
    BY <1>7 DEF Origin!Again, Origin!Restart, Origin!Ends, Origin!engine
  <2>2. PollTyped'
    BY <1>0, <2>1, NoPollTyped DEF PollTyped
  <2> QED
    BY <1>a, <1>c, <1>d, <2>1, <2>2 DEF OriginType
<1>8. CASE Origin!Write
  <2>1. UNCHANGED <<holder, running, holds, polls, row>> /\ poll' = Origin!NoPoll
    BY <1>8 DEF Origin!Write, Origin!engine
  <2>2. PollTyped'
    BY <1>0, <2>1, NoPollTyped DEF PollTyped
  <2>3. poll.snap \in Snaps
    BY <1>0 DEF PollTyped
  <2>5. <<>> \in Seq(Snaps) /\ <<poll.snap>> \in Seq(Snaps)
    BY <2>3, EmptySeq
  <2>6. \A s, t \in Seq(Snaps) : s \o t \in Seq(Snaps)
    BY ConcatProperties
  <2>7. rotated' \in {rotated, snapshots} /\ snapshots' \in {snapshots, snapshots \o <<poll.snap>>, <<>> \o <<poll.snap>>}
    BY <1>8 DEF Origin!Write
  <2>4. FilesTyped'
    BY <1>0, <2>5, <2>6, <2>7 DEF FilesTyped
  <2> QED
    BY <1>a, <1>d, <2>1, <2>2, <2>4 DEF OriginType
<1>9. CASE UNCHANGED Origin!vars
  BY <1>a, <1>b, <1>c, <1>d, <1>9 DEF Origin!vars, Origin!engine, Origin!snapper, OriginType
<1> QED
  BY <1>1, <1>2, <1>3, <1>4, <1>5, <1>6, <1>7, <1>8, <1>9 DEF Origin!Next

LEMMA OriginInit == Origin!Init => OriginInv
<1> SUFFICES ASSUME Origin!Init PROVE OriginInv
  OBVIOUS
<1>1. HolderTyped /\ RowTyped
  BY DEF Origin!Init, HolderTyped, RowTyped, Origin!Nobody, Origin!NoRow
<1>2. PollTyped /\ FilesTyped
  BY NoPollTyped, EmptySeq DEF Origin!Init, PollTyped, FilesTyped
<1>3. Trail = <<>> \o <<>>
  BY DEF Origin!Init, Trail, Origin!Kept, Origin!NoPoll
<1>4. Len(Trail) = 0
  BY <1>3, ConcatEmptySeq, EmptySeq
<1>5. row = Origin!NoRow /\ holder = Origin!Nobody /\ holder.hold = 0 /\ holds = 0 /\ row.hold = 0 /\ row.at = 0 /\ polls = 0
  BY DEF Origin!Init, Origin!Nobody, Origin!NoRow
<1>6. Holdings /\ InOrder /\ SeenOn /\ RowSeen
  BY <1>4, <1>5 DEF Holdings, InOrder, SeenOn, RowSeen
<1> QED
  BY <1>1, <1>2, <1>6 DEF OriginInv, OriginType

(* Containers come and go: what was seen of the holding that ends is left  *)
(* behind, and a new one has not been seen.                                *)
LEMMA EngineStep ==
  ASSUME OriginInv, OriginType', NEW c \in Containers, Origin!Starts(c) \/ Origin!Stops(c)
  PROVE  OriginInv'
<1>0. OriginType
  BY DEF OriginInv
<1> USE OriginNumbers, OriginNumbersNext, <1>0
<1>1. UNCHANGED <<polls, poll, memory, rotated, snapshots, row>> /\ Trail' = Trail
  BY DEF Origin!Starts, Origin!Stops, Origin!Event, Origin!snapper, Trail, Origin!Kept
<1>2. OriginType /\ Holdings /\ InOrder /\ SeenOn /\ RowSeen /\ \A i \in 1..Len(Trail) : Trail[i] \in Snaps
  BY TrailTyped DEF OriginInv
<1>3. \/ holder' = holder /\ holds' = holds
      \/ holder' = Origin!Nobody /\ holds' = holds
      \/ holder' = [ctr |-> c, hold |-> holds + 1] /\ holds' = holds + 1
  BY DEF Origin!Starts, Origin!Stops
<1>4. /\ holds' >= holds /\ holder'.hold <= holds'
      /\ holder'.hold = 0 \/ holder' = holder \/ holder'.hold > holds
  <2>1. CASE holder' = holder /\ holds' = holds
    BY <1>2, <2>1 DEF Holdings
  <2>2. CASE holder' = Origin!Nobody /\ holds' = holds
    <3>1. holder'.hold = 0
      BY <2>2 DEF Origin!Nobody
    <3> QED
      BY <2>2, <3>1
  <2>3. CASE holder' = [ctr |-> c, hold |-> holds + 1] /\ holds' = holds + 1
    <3>1. holder'.hold = holds + 1
      BY <2>3
    <3> QED
      BY <2>3, <3>1
  <2> QED
    BY <1>3, <2>1, <2>2, <2>3
<1>5. Holdings'
  <2>1. (IF holder.hold = 0 THEN holder = Origin!Nobody ELSE holder.ctr \in running)'
    <3>1. CASE Origin!Starts(c)
      <4>1. running' = running \cup {c} /\ (holder' = holder \/ holder' = [ctr |-> c, hold |-> holds + 1])
        BY <3>1 DEF Origin!Starts
      <4>2. CASE holder' = holder
        BY <1>2, <4>1, <4>2 DEF Holdings
      <4>3. CASE holder' = [ctr |-> c, hold |-> holds + 1]
        <5>1. holder'.ctr = c /\ holder'.hold = holds + 1
          BY <4>3
        <5> QED
          BY <4>1, <5>1
      <4> QED
        BY <4>1, <4>2, <4>3
    <3>2. CASE Origin!Stops(c)
      BY <1>2, <3>2 DEF Holdings, Origin!Nobody, Origin!Stops
    <3> QED
      BY <3>1, <3>2
  <2> QED
    BY <1>1, <1>2, <1>3, <1>4, <2>1 DEF Holdings
<1>6. InOrder'
  BY <1>1, <1>2, <1>3, <1>4 DEF InOrder, Making
<1>7. SeenOn'
  <2>1. CASE holder'.hold = 0
    BY <2>1 DEF SeenOn
  <2>2. CASE holder' = holder
    BY <1>1, <1>2, <2>2 DEF SeenOn
  <2>3. CASE holder'.hold > holds
    <3>1. \A i \in 1..Len(Trail) : Trail[i].hold # holder'.hold
      BY <1>2, <2>3 DEF InOrder
    <3> QED
      BY <1>1, <3>1 DEF SeenOn
  <2> QED
    BY <1>4, <2>1, <2>2, <2>3
<1>8. RowSeen'
  BY <1>1, <1>2, <1>4 DEF Holdings, RowSeen, Making
<1> QED
  BY <1>5, <1>6, <1>7, <1>8 DEF OriginInv

(* A row is logged: what is kept by then is before it.                     *)
LEMMA LoggedStep == ASSUME OriginInv, OriginType', Origin!Logged PROVE OriginInv'
<1>0. OriginType
  BY DEF OriginInv
<1> USE OriginNumbers, OriginNumbersNext, <1>0
<1>1. UNCHANGED <<holder, running, holds, polls, poll, rotated, snapshots>> /\ Trail' = Trail
  BY DEF Origin!Logged, Origin!snapper, Origin!engine, Trail, Origin!Kept
<1>2. OriginType /\ Holdings /\ InOrder /\ SeenOn /\ \A i \in 1..Len(Trail) : Trail[i] \in Snaps
  BY TrailTyped DEF OriginInv
<1>3. /\ row' = [at |-> polls, ctr |-> holder.ctr, hold |-> holder.hold, blurred |-> row'.blurred]
      /\ ~row'.blurred => ~Making /\ poll.pc # "inspect"
      /\ holder # Origin!Nobody
  BY <1>2 DEF Origin!Logged, Making, OriginType, PollTyped
<1>9. holder.hold # 0 /\ holder.hold <= holds /\ holder.ctr \in running
  BY <1>2, <1>3 DEF Holdings
<1>10. holder.ctr \in Containers
  BY <1>2, <1>9 DEF OriginType, HolderTyped
<1>4. /\ row'.at = polls /\ row'.ctr = holder.ctr /\ row'.ctr \in Containers
      /\ row'.hold = holder.hold /\ row'.hold # 0 /\ row'.hold <= holds
  BY <1>3, <1>9, <1>10
<1>5. Holdings'
  BY <1>1, <1>2, <1>4 DEF Holdings
<1>6. InOrder'
  BY <1>1, <1>2, <1>4 DEF InOrder, Making
<1>7. SeenOn'
  BY <1>1, <1>2 DEF SeenOn
<1>8. RowSeen'
  BY <1>1, <1>2, <1>3, <1>4 DEF InOrder, SeenOn, RowSeen, Making
<1> QED
  BY <1>5, <1>6, <1>7, <1>8 DEF OriginInv

(* A poll goes on or ends, and the file is rotated: nothing that is seen   *)
(* is new.                                                                 *)
LEMMA PollStep ==
  ASSUME OriginInv, OriginType', UNCHANGED <<holder, running, holds, row>>, PartOf(Trail', Trail),
         \/ polls' = polls /\ (Making' => Making)
         \/ polls' = polls + 1 /\ ~Making /\ poll'.pc = "ps",
         poll'.pc = "inspect" => \/ poll.pc = "inspect" /\ poll'.ids = poll.ids
                                 \/ poll'.ids = running
  PROVE  OriginInv'
<1>0. OriginType
  BY DEF OriginInv
<1> USE OriginNumbers, OriginNumbersNext, <1>0
<1>1. OriginType /\ Holdings /\ InOrder /\ SeenOn /\ RowSeen /\ \A i \in 1..Len(Trail) : Trail[i] \in Snaps
  BY TrailTyped DEF OriginInv
<1>2. Trail \in Seq(Snaps) /\ Trail' \in Seq(Snaps)
  BY <1>1, TrailTyped, TrailTypedNext
<1>3. PICK d \in Nat : Len(Trail') + d <= Len(Trail) /\ \A i \in 1..Len(Trail') : Trail'[i] = Trail[i + d]
  BY DEF PartOf
<1>4. \A i \in 1..Len(Trail') : i + d \in 1..Len(Trail)
  BY <1>2, <1>3
<1>5. Holdings'
  BY <1>1 DEF Holdings
<1>6. InOrder'
  <2>1. ASSUME NEW i \in 1..Len(Trail')
        PROVE  /\ Trail'[i].at <= polls' /\ (Making' => Trail'[i].at < polls')
               /\ Trail'[i].hold <= holds
               /\ Trail'[i].hold # 0 /\ Trail'[i].hold = holder.hold => Trail'[i].ctr = holder.ctr
               /\ Trail'[i].hold # 0 /\ Trail'[i].hold = row.hold => Trail'[i].ctr = row.ctr
    <3>1. Trail'[i] = Trail[i + d] /\ i + d \in 1..Len(Trail)
      BY <1>3, <1>4
    <3>2. /\ Trail[i + d].at <= polls /\ (Making => Trail[i + d].at < polls)
          /\ Trail[i + d].hold <= holds
          /\ Trail[i + d].hold # 0 /\ Trail[i + d].hold = holder.hold => Trail[i + d].ctr = holder.ctr
          /\ Trail[i + d].hold # 0 /\ Trail[i + d].hold = row.hold => Trail[i + d].ctr = row.ctr
      BY <1>1, <3>1 DEF InOrder
    <3>3. Trail[i + d].at \in Nat
      BY <3>1
    <3> QED
      BY <3>1, <3>2, <3>3
  <2>2. ASSUME NEW i \in 1..Len(Trail'), NEW j \in 1..Len(Trail'), i < j
        PROVE  Trail'[i].at < Trail'[j].at
    <3>1. i + d < j + d
      BY <2>2
    <3> QED
      BY <1>1, <1>3, <1>4, <3>1 DEF InOrder
  <2> QED
    BY <2>1, <2>2 DEF InOrder
<1>7. SeenOn'
  <2> SUFFICES ASSUME holder.hold # 0, NEW i \in 1..Len(Trail'), Trail'[i].hold = holder.hold
               PROVE  /\ \A j \in i..Len(Trail') : Trail'[j].hold = holder.hold
                      /\ poll'.pc = "inspect" => holder.ctr \in poll'.ids
    BY DEF SeenOn
  <2>1. Trail'[i] = Trail[i + d] /\ i + d \in 1..Len(Trail)
    BY <1>3, <1>4
  <2>2. /\ \A j \in (i + d)..Len(Trail) : Trail[j].hold = holder.hold
        /\ poll.pc = "inspect" => holder.ctr \in poll.ids
    BY <1>1, <2>1 DEF SeenOn
  <2>3. ASSUME NEW j \in i..Len(Trail') PROVE Trail'[j].hold = holder.hold
    <3>1. j \in 1..Len(Trail') /\ j + d \in (i + d)..Len(Trail)
      BY <1>2, <1>3
    <3> QED
      BY <1>3, <2>2, <3>1
  <2>4. holder.ctr \in running
    BY <1>1 DEF Holdings
  <2> QED
    BY <2>2, <2>3, <2>4
<1>8. RowSeen'
  <2> SUFFICES ASSUME row.hold # 0, ~row.blurred
               PROVE  /\ Making' => row.at < polls'
                      /\ row.hold = holder.hold =>
                           /\ \A i \in 1..Len(Trail') : Trail'[i].at > row.at => Trail'[i].hold = row.hold
                           /\ poll'.pc = "inspect" => holder.ctr \in poll'.ids
                      /\ \A i, j \in 1..Len(Trail') : i < j =>
                           /\ Trail'[j].hold = row.hold /\ Trail'[i].at > row.at => Trail'[i].hold = row.hold
                           /\ Trail'[i].hold = row.hold /\ Trail'[j].at <= row.at => Trail'[j].hold = row.hold
    BY DEF RowSeen
  <2>1. Making' => row.at < polls'
    BY <1>1 DEF Holdings, RowSeen
  <2>2. ASSUME row.hold = holder.hold
        PROVE  /\ \A i \in 1..Len(Trail') : Trail'[i].at > row.at => Trail'[i].hold = row.hold
               /\ poll'.pc = "inspect" => holder.ctr \in poll'.ids
    <3>1. holder.ctr \in running
      BY <1>1, <2>2 DEF Holdings
    <3> QED
      BY <1>1, <1>3, <1>4, <2>2, <3>1 DEF RowSeen
  <2>3. ASSUME NEW i \in 1..Len(Trail'), NEW j \in 1..Len(Trail'), i < j
        PROVE  /\ Trail'[j].hold = row.hold /\ Trail'[i].at > row.at => Trail'[i].hold = row.hold
               /\ Trail'[i].hold = row.hold /\ Trail'[j].at <= row.at => Trail'[j].hold = row.hold
    <3>1. i + d < j + d
      BY <2>3
    <3> QED
      BY <1>1, <1>3, <1>4, <3>1 DEF RowSeen
  <2> QED
    BY <2>1, <2>2, <2>3
<1> QED
  BY <1>5, <1>6, <1>7, <1>8 DEF OriginInv

(* A snapshot is made: of the containers that ran when the poll began.     *)
LEMMA SnapStep ==
  ASSUME OriginInv, OriginType', UNCHANGED <<holder, running, holds, polls, row>>, poll.pc = "inspect",
         poll'.pc = "append", Trail' = Append(Trail, Origin!Snap(poll.ids))
  PROVE  OriginInv'
<1>0. OriginType
  BY DEF OriginInv
<1> USE OriginNumbers, OriginNumbersNext, <1>0
<1>1. Holdings /\ InOrder /\ SeenOn /\ RowSeen
  BY DEF OriginInv
<1> DEFINE s == Origin!Snap(poll.ids)
           n == Len(Trail)
<1>2. /\ s.at = polls /\ s.hold \in {0, holder.hold}
      /\ holder.ctr \in poll.ids => s.hold = holder.hold
      /\ s.hold # 0 => s.ctr = holder.ctr
  BY DEF Origin!Snap
<1>3. Making
  BY DEF Making
<1>4. /\ n \in Nat /\ Len(Trail') = n + 1
      /\ \A i \in 1..n : Trail'[i] = Trail[i]
      /\ Trail'[n + 1] = s
  BY TrailTyped
<1>5. ASSUME NEW i \in 1..Len(Trail')
      PROVE  (i \in 1..n /\ Trail'[i] = Trail[i]) \/ (i = n + 1 /\ Trail'[i] = s)
  BY <1>4
<1> HIDE DEF s, n
<1>6. Holdings'
  BY <1>1 DEF Holdings
<1>7. InOrder'
  <2>1. ASSUME NEW i \in 1..Len(Trail')
        PROVE  /\ Trail'[i].at <= polls
               /\ Trail'[i].hold <= holds
               /\ Trail'[i].hold # 0 /\ Trail'[i].hold = holder.hold => Trail'[i].ctr = holder.ctr
               /\ Trail'[i].hold # 0 /\ Trail'[i].hold = row.hold => Trail'[i].ctr = row.ctr
    <3>1. CASE i \in 1..n /\ Trail'[i] = Trail[i]
      BY <1>1, <3>1 DEF InOrder, n
    <3>2. CASE i = n + 1 /\ Trail'[i] = s
      BY <1>1, <1>2, <3>2 DEF Holdings
    <3> QED
      BY <1>5, <3>1, <3>2
  <2>2. ASSUME NEW i \in 1..Len(Trail'), NEW j \in 1..Len(Trail'), i < j
        PROVE  Trail'[i].at < Trail'[j].at
    <3>1. i \in 1..n /\ Trail'[i] = Trail[i]
      BY <1>4, <2>2
    <3>2. CASE j \in 1..n /\ Trail'[j] = Trail[j]
      BY <1>1, <2>2, <3>1, <3>2 DEF InOrder, n
    <3>3. CASE j = n + 1 /\ Trail'[j] = s
      BY <1>1, <1>2, <1>3, <3>1, <3>3 DEF InOrder, n
    <3> QED
      BY <1>5, <3>2, <3>3
  <2>3. ~Making'
    BY DEF Making
  <2> QED
    BY <2>1, <2>2, <2>3 DEF InOrder
<1>8. SeenOn'
  <2> SUFFICES ASSUME holder.hold # 0, NEW i \in 1..Len(Trail'), Trail'[i].hold = holder.hold,
                      NEW j \in i..Len(Trail')
               PROVE  Trail'[j].hold = holder.hold
    BY DEF SeenOn
  <2>1. CASE j \in 1..n
    <3>1. i \in 1..n /\ Trail'[i] = Trail[i] /\ Trail'[j] = Trail[j] /\ j \in i..n
      BY <1>4, <2>1
    <3> QED
      BY <1>1, <3>1 DEF SeenOn, n
  <2>2. CASE j = n + 1 /\ i \in 1..n
    <3>1. holder.ctr \in poll.ids
      BY <1>1, <1>4, <2>2 DEF SeenOn, n
    <3> QED
      BY <1>2, <1>4, <2>2, <3>1
  <2>3. CASE i = n + 1 /\ j = n + 1
    BY <2>3
  <2> QED
    BY <1>4, <2>1, <2>2, <2>3
<1>9. RowSeen'
  <2> SUFFICES ASSUME row.hold # 0, ~row.blurred
               PROVE  /\ row.hold = holder.hold =>
                           \A i \in 1..Len(Trail') : Trail'[i].at > row.at => Trail'[i].hold = row.hold
                      /\ \A i, j \in 1..Len(Trail') : i < j =>
                           /\ Trail'[j].hold = row.hold /\ Trail'[i].at > row.at => Trail'[i].hold = row.hold
                           /\ Trail'[i].hold = row.hold /\ Trail'[j].at <= row.at => Trail'[j].hold = row.hold
    BY DEF RowSeen, Making
  <2>1. row.at < polls
    BY <1>1, <1>3 DEF RowSeen
  <2>2. ASSUME row.hold = holder.hold, NEW i \in 1..Len(Trail'), Trail'[i].at > row.at
        PROVE  Trail'[i].hold = row.hold
    <3>1. CASE i \in 1..n /\ Trail'[i] = Trail[i]
      BY <1>1, <2>2, <3>1 DEF RowSeen, n
    <3>2. CASE i = n + 1 /\ Trail'[i] = s
      BY <1>1, <1>2, <2>2, <3>2 DEF RowSeen
    <3> QED
      BY <1>5, <3>1, <3>2
  <2>3. ASSUME NEW i \in 1..Len(Trail'), NEW j \in 1..Len(Trail'), i < j
        PROVE  /\ Trail'[j].hold = row.hold /\ Trail'[i].at > row.at => Trail'[i].hold = row.hold
               /\ Trail'[i].hold = row.hold /\ Trail'[j].at <= row.at => Trail'[j].hold = row.hold
    <3>1. i \in 1..n /\ Trail'[i] = Trail[i]
      BY <1>4, <2>3
    <3>2. CASE j \in 1..n /\ Trail'[j] = Trail[j]
      BY <1>1, <2>3, <3>1, <3>2 DEF RowSeen, n
    <3>3. CASE j = n + 1 /\ Trail'[j] = s
      BY <1>1, <1>2, <2>1, <3>1, <3>3 DEF RowSeen, n
    <3> QED
      BY <1>5, <3>2, <3>3
  <2> QED
    BY <2>2, <2>3
<1> QED
  BY <1>6, <1>7, <1>8, <1>9 DEF OriginInv

LEMMA PartOfItself == ASSUME NEW T \in Seq(Snaps), NEW S, S = T PROVE PartOf(S, T)
<1>1. Len(T) \in Nat
  OBVIOUS
<1>2. Len(S) + 0 <= Len(T) /\ \A i \in 1..Len(S) : S[i] = T[i + 0]
  BY <1>1
<1> QED
  BY <1>2 DEF PartOf

LEMMA PartOfAppended ==
  ASSUME NEW S \in Seq(Snaps), NEW x \in Snaps PROVE PartOf(S, Append(S, x))
<1>1. Len(S) + 0 <= Len(Append(S, x)) /\ \A i \in 1..Len(S) : S[i] = Append(S, x)[i + 0]
  OBVIOUS
<1> QED
  BY <1>1 DEF PartOf

LEMMA TailOfRotated ==
  ASSUME NEW r \in Seq(Snaps), NEW s \in Seq(Snaps), NEW x \in Snaps
  PROVE  /\ PartOf(s \o (<<>> \o <<x>>), Append(r \o s, x))
         /\ PartOf(r \o (s \o <<x>>), Append(r \o s, x))
<1>1. /\ r \o s \in Seq(Snaps) /\ Len(r \o s) = Len(r) + Len(s)
      /\ \A i \in 1..Len(r) + Len(s) : (r \o s)[i] = IF i <= Len(r) THEN r[i] ELSE s[i - Len(r)]
  BY ConcatProperties
<1>2. <<x>> \in Seq(Snaps) /\ Len(<<x>>) = 1 /\ <<x>>[1] = x /\ <<>> \o <<x>> = <<x>>
  BY ConcatEmptySeq
<1>3. /\ s \o <<x>> \in Seq(Snaps) /\ Len(s \o <<x>>) = Len(s) + 1
      /\ \A i \in 1..Len(s) + 1 : (s \o <<x>>)[i] = IF i <= Len(s) THEN s[i] ELSE x
  BY <1>2, ConcatProperties
<1>4. /\ Len(r \o (s \o <<x>>)) = Len(r) + (Len(s) + 1)
      /\ \A i \in 1..Len(r) + (Len(s) + 1) :
           (r \o (s \o <<x>>))[i] = IF i <= Len(r) THEN r[i] ELSE (s \o <<x>>)[i - Len(r)]
  BY <1>3, ConcatProperties
<1>5. /\ Len(Append(r \o s, x)) = Len(r) + Len(s) + 1
      /\ \A i \in 1..Len(r) + Len(s) : Append(r \o s, x)[i] = (r \o s)[i]
      /\ Append(r \o s, x)[Len(r) + Len(s) + 1] = x
  BY <1>1
<1>6. Len(r) \in Nat /\ Len(s) \in Nat
  OBVIOUS
<1>7. ASSUME NEW i \in 1..Len(s) + 1 PROVE (s \o <<x>>)[i] = Append(r \o s, x)[i + Len(r)]
  <2>1. CASE i <= Len(s)
    <3>1. i + Len(r) \in 1..Len(r) + Len(s) /\ ~(i + Len(r) <= Len(r)) /\ i + Len(r) - Len(r) = i
      BY <1>6, <2>1
    <3>2. (s \o <<x>>)[i] = s[i]
      BY <1>3, <2>1
    <3> QED
      BY <1>1, <1>5, <3>1, <3>2
  <2>2. CASE i = Len(s) + 1
    BY <1>3, <1>5, <1>6, <2>2
  <2> QED
    BY <1>6, <2>1, <2>2
<1>8. ASSUME NEW i \in 1..Len(r) + (Len(s) + 1) PROVE (r \o (s \o <<x>>))[i] = Append(r \o s, x)[i]
  <2>1. CASE i <= Len(r)
    <3>1. i \in 1..Len(r) + Len(s)
      BY <1>6, <2>1
    <3> QED
      BY <1>1, <1>4, <1>5, <2>1, <3>1
  <2>2. CASE i > Len(r)
    <3>1. i - Len(r) \in 1..Len(s) + 1 /\ i - Len(r) + Len(r) = i /\ ~(i <= Len(r))
      BY <1>6, <2>2
    <3> QED
      BY <1>4, <1>7, <3>1
  <2> QED
    BY <1>6, <2>1, <2>2
<1>9. PartOf(s \o (<<>> \o <<x>>), Append(r \o s, x))
  <2>1. /\ Len(s \o (<<>> \o <<x>>)) = Len(s) + 1
        /\ Len(s \o (<<>> \o <<x>>)) + Len(r) <= Len(Append(r \o s, x))
    BY <1>2, <1>3, <1>5, <1>6
  <2>2. \A i \in 1..Len(s \o (<<>> \o <<x>>)) :
          (s \o (<<>> \o <<x>>))[i] = Append(r \o s, x)[i + Len(r)]
    BY <1>2, <1>7, <2>1
  <2> QED
    BY <1>6, <2>1, <2>2 DEF PartOf
<1>10. PartOf(r \o (s \o <<x>>), Append(r \o s, x))
  <2>1. Len(r \o (s \o <<x>>)) + 0 <= Len(Append(r \o s, x))
    BY <1>4, <1>5, <1>6
  <2>2. ASSUME NEW i \in 1..Len(r \o (s \o <<x>>))
        PROVE  (r \o (s \o <<x>>))[i] = Append(r \o s, x)[i + 0]
    <3>1. i \in 1..Len(r) + (Len(s) + 1) /\ i + 0 = i
      BY <1>4, <1>6
    <3> QED
      BY <1>8, <3>1
  <2> QED
    BY <2>1, <2>2 DEF PartOf
<1> QED
  BY <1>9, <1>10

LEMMA OriginStep == OriginInv /\ [Origin!Next]_(Origin!vars) => OriginInv'
<1> SUFFICES ASSUME OriginInv, [Origin!Next]_(Origin!vars) PROVE OriginInv'
  OBVIOUS
<1>0. OriginType'
  BY OriginTypeStep DEF OriginInv
<1>1. OriginType /\ Trail \in Seq(Snaps) /\ Origin!Kept \in Seq(Snaps)
  BY TrailTyped DEF OriginInv
<1>2. Origin!NoPoll.pc = "idle"
  BY DEF Origin!NoPoll
<1>3. poll.snap \in Snaps /\ DOMAIN poll = {"pc", "ids", "snap"}
  BY <1>1 DEF OriginType, PollTyped
<1>4. PartOf(Origin!Kept, Trail)
  BY <1>1, <1>3, PartOfItself, PartOfAppended DEF Trail
<1>a. ASSUME NEW c \in Containers, Origin!Starts(c) \/ Origin!Stops(c) PROVE OriginInv'
  BY <1>0, <1>a, EngineStep
<1>b. CASE Origin!Logged
  BY <1>0, <1>b, LoggedStep
<1>c. CASE Origin!Begin
  <2>1. /\ UNCHANGED <<holder, running, holds, row, rotated, snapshots>> /\ polls' = polls + 1
        /\ poll.pc = "idle" /\ poll' = [Origin!NoPoll EXCEPT !.pc = "ps"]
    BY <1>c DEF Origin!Begin, Origin!Goes, Origin!engine
  <2>2. poll'.pc = "ps"
    BY <2>1 DEF Origin!NoPoll
  <2>3. Trail' = Trail /\ ~Making
    BY <2>1, <2>2 DEF Trail, Origin!Kept, Making
  <2> QED
    BY <1>0, <1>1, <2>1, <2>2, <2>3, PartOfItself, PollStep
<1>d. CASE Origin!Ps
  <2>1. /\ UNCHANGED <<holder, running, holds, polls, row, rotated, snapshots>>
        /\ poll.pc = "ps"
        /\ poll' = Origin!NoPoll \/ poll' = [poll EXCEPT !.pc = "inspect", !.ids = running]
    BY <1>d DEF Origin!Ps, Origin!Goes, Origin!Ends, Origin!engine
  <2>2. poll'.pc = "idle" \/ (poll'.pc = "inspect" /\ poll'.ids = running)
    BY <1>2, <1>3, <2>1
  <2>3. Trail' = Trail /\ Making
    BY <2>1, <2>2 DEF Trail, Origin!Kept, Making
  <2> QED
    BY <1>0, <1>1, <2>1, <2>2, <2>3, PartOfItself, PollStep
<1>e. CASE Origin!Inspect
  <2>1. /\ UNCHANGED <<holder, running, holds, polls, row, rotated, snapshots>> /\ poll.pc = "inspect"
        /\ \/ poll' = Origin!NoPoll
           \/ poll' = [poll EXCEPT !.pc = "append", !.snap = Origin!Snap(poll.ids)]
           \/ poll' = [poll EXCEPT !.pc = "again"]
    BY <1>e DEF Origin!Inspect, Origin!Goes, Origin!Ends, Origin!engine
  <2>2. CASE poll' = [poll EXCEPT !.pc = "append", !.snap = Origin!Snap(poll.ids)]
    <3>1. poll'.pc = "append" /\ poll'.snap = Origin!Snap(poll.ids)
      BY <1>3, <2>2
    <3>2. Trail' = Append(Trail, Origin!Snap(poll.ids))
      BY <2>1, <3>1 DEF Trail, Origin!Kept
    <3> QED
      BY <1>0, <2>1, <3>1, <3>2, SnapStep
  <2>3. CASE poll' = Origin!NoPoll \/ poll' = [poll EXCEPT !.pc = "again"]
    <3>1. poll'.pc = "idle" \/ poll'.pc = "again"
      BY <1>2, <1>3, <2>3
    <3>2. Trail' = Trail /\ Making
      BY <2>1, <3>1 DEF Trail, Origin!Kept, Making
    <3> QED
      BY <1>0, <1>1, <2>1, <3>1, <3>2, PartOfItself, PollStep
  <2> QED
    BY <2>1, <2>2, <2>3
<1>f. CASE Origin!Again \/ Origin!Restart
  <2>1. UNCHANGED <<holder, running, holds, polls, row, rotated, snapshots>> /\ poll' = Origin!NoPoll
    BY <1>f DEF Origin!Again, Origin!Restart, Origin!Ends, Origin!engine
  <2>2. Trail' = Origin!Kept /\ ~Making' /\ poll'.pc # "inspect"
    BY <1>2, <2>1 DEF Trail, Origin!Kept, Making
  <2> QED
    BY <1>0, <1>4, <2>1, <2>2, PollStep
<1>g. CASE Origin!Write
  <2>1. /\ UNCHANGED <<holder, running, holds, polls, row>> /\ poll.pc = "append" /\ poll' = Origin!NoPoll
        /\ \/ UNCHANGED <<rotated, snapshots>>
           \/ rotated' = rotated /\ snapshots' = snapshots \o <<poll.snap>>
           \/ rotated' = snapshots /\ snapshots' = <<>> \o <<poll.snap>>
    BY <1>g DEF Origin!Write, Origin!engine
  <2>2. /\ ~Making' /\ poll'.pc # "inspect"
        /\ Trail = Append(rotated \o snapshots, poll.snap) /\ Trail' = rotated' \o snapshots'
    BY <1>2, <2>1 DEF Trail, Origin!Kept, Making
  <2>3. rotated \in Seq(Snaps) /\ snapshots \in Seq(Snaps)
    BY <1>1 DEF OriginType, FilesTyped
  <2>4. PartOf(Trail', Trail)
    BY <1>1, <1>3, <1>4, <2>1, <2>2, <2>3, TailOfRotated DEF Origin!Kept
  <2> QED
    BY <1>0, <2>1, <2>2, <2>4, PollStep
<1>h. CASE UNCHANGED Origin!vars
  <2>1. UNCHANGED <<holder, running, holds, polls, poll, row, rotated, snapshots>>
    BY <1>h DEF Origin!vars, Origin!engine, Origin!snapper
  <2>2. Trail' = Trail /\ Making' = Making
    BY <2>1 DEF Trail, Origin!Kept, Making
  <2> QED
    BY <1>0, <1>1, <2>1, <2>2, PartOfItself, PollStep
<1> QED
  BY <1>a, <1>b, <1>c, <1>d, <1>e, <1>f, <1>g, <1>h DEF Origin!Next

LEMMA LeastExists ==
  ASSUME NEW S \in SUBSET Nat, S # {} PROVE \E m \in S : \A x \in S : m <= x
<1>1. PICK m \in S : \A x \in S : <<x, m>> \notin OpToRel(<, Nat)
  BY WFMin, NatLessThanWellFounded
<1>2. \A x \in S : ~(x < m)
  BY <1>1 DEF OpToRel
<1> QED
  BY <1>2

(* Where the row belongs among the snapshots: they are in order.           *)
LEMMA BeforeIsThere ==
  ASSUME OriginInv
  PROVE  /\ Origin!Before(row.at) \in 0..Len(Origin!Kept)
         /\ \A j \in 1..Len(Origin!Kept) : Origin!Kept[j].at <= row.at <=> j <= Origin!Before(row.at)
<1> DEFINE K == Origin!Kept
           L == Len(K)
<1>1. OriginType /\ InOrder /\ K \in Seq(Snaps) /\ L \in Nat
  BY TrailTyped DEF OriginInv
<1>2. poll.snap \in Snaps
  BY <1>1 DEF OriginType, PollTyped
<1>3. L <= Len(Trail) /\ \A j \in 1..L : Trail[j] = K[j] /\ j \in 1..Len(Trail)
  BY <1>1, <1>2 DEF Trail
<1>4. row.at \in Nat /\ \A j \in 1..L : K[j].at \in Nat
  BY <1>1, <1>3, OriginNumbers
<1>5. \A j, k \in 1..L : j < k => K[j].at < K[k].at
  BY <1>1, <1>3 DEF InOrder
<1> DEFINE S == {i \in 0..L : \A j \in 1..L : K[j].at <= row.at => j <= i}
<1> HIDE DEF K, L
<1>6. L \in S /\ S \in SUBSET Nat
  BY <1>1
<1>7. PICK b \in S : \A x \in S : b <= x
  BY <1>6, LeastExists
<1>8. b = 0 \/ K[b].at <= row.at
  <2> SUFFICES ASSUME b # 0, ~(K[b].at <= row.at) PROVE FALSE
    OBVIOUS
  <2>1. b - 1 \in S
    BY <1>1, <1>7
  <2>2. b \in Nat /\ b <= b - 1
    BY <1>6, <1>7, <2>1
  <2> QED
    BY <2>2
<1>9. \A j \in 1..L : K[j].at <= row.at <=> j <= b
  <2> SUFFICES ASSUME NEW j \in 1..L, j <= b PROVE K[j].at <= row.at
    BY <1>7
  <2>1. b \in 1..L /\ K[b].at <= row.at
    BY <1>1, <1>7, <1>8
  <2> QED
    BY <1>4, <1>5, <2>1
<1>10. b \in 0..L
  BY <1>7
<1> QED
  BY <1>9, <1>10 DEF Origin!Before, K, L

(* A row is not put down to a container that did not send it, if a kept    *)
(* snapshot saw its sender in that holding (attribution.py _address).      *)
THEOREM RowsAreNotAnothers == Origin!Spec => []NotAnothers
<1>1. OriginInv => NotAnothers
  <2> SUFFICES ASSUME OriginInv, row # Origin!NoRow, ~row.blurred,
                      NEW i \in 1..Len(Origin!Kept), Origin!Kept[i].hold = row.hold
               PROVE  Origin!Address(row.at) \in {row.ctr, "ambiguous"}
    BY DEF NotAnothers, Origin!NotAnothers
  <2> DEFINE K == Origin!Kept
             b == Origin!Before(row.at)
  <2>1. OriginType /\ Holdings /\ InOrder /\ RowSeen /\ K \in Seq(Snaps) /\ Len(K) \in Nat
    BY TrailTyped DEF OriginInv
  <2>2. poll.snap \in Snaps
    BY <2>1 DEF OriginType, PollTyped
  <2>3. \A j \in 1..Len(K) : Trail[j] = K[j] /\ j \in 1..Len(Trail)
    BY <2>1, <2>2 DEF Trail
  <2>4. row.hold # 0 /\ row.ctr \in Containers /\ row.ctr # ""
    BY <2>1, ContainersAssumption DEF Holdings
  <2>5. b \in 0..Len(K) /\ \A j \in 1..Len(K) : K[j].at <= row.at <=> j <= b
    BY BeforeIsThere
  <2>6. row.at \in Nat /\ \A j \in 1..Len(K) : K[j].at \in Nat
    BY <2>1, <2>3, OriginNumbers
  <2> DEFINE before == IF b > 0 THEN K[b].ctr ELSE ""
             after == IF b < Len(K) THEN K[b + 1].ctr ELSE ""
  <2>7. Origin!Address(row.at) = IF before # "" /\ after # "" /\ before # after THEN "ambiguous"
                                 ELSE IF before # "" THEN before ELSE after
    BY DEF Origin!Address
  <2> HIDE DEF K, b
  <2>8. ASSUME NEW j \in 1..Len(K), K[j].hold = row.hold PROVE K[j].ctr = row.ctr
    BY <2>1, <2>3, <2>4, <2>8 DEF InOrder
  <2>a. i \in 1..Len(K) /\ i \in 1..Len(Trail) /\ Trail[i] = K[i] /\ K[i].hold = row.hold
    BY <2>3 DEF K
  <2>9. CASE i <= b
    <3>1. b \in 1..Len(K) /\ b > 0 /\ K[b].at <= row.at
      BY <2>1, <2>5, <2>9, <2>a
    <3>2. K[b].hold = row.hold
      <4>1. CASE i = b
        BY <2>a, <4>1
      <4>2. CASE i < b
        <5>1. b \in 1..Len(Trail) /\ Trail[b] = K[b] /\ Trail[b].at <= row.at
          BY <2>3, <3>1
        <5> QED
          BY <2>1, <2>4, <2>a, <4>2, <5>1 DEF RowSeen
      <4> QED
        BY <2>5, <2>9, <2>a, <4>1, <4>2
    <3>4. K[b].ctr = row.ctr
      BY <2>8, <3>1, <3>2
    <3>3. before = row.ctr
      BY <3>1, <3>4
    <3> HIDE DEF before, after
    <3> QED
      BY <2>4, <2>7, <3>3
  <2>10. CASE i > b
    <3>1. b + 1 \in 1..Len(K) /\ b < Len(K) /\ b + 1 <= i /\ K[b + 1].at > row.at
      BY <2>1, <2>5, <2>6, <2>10, <2>a
    <3>2. K[b + 1].hold = row.hold
      <4>1. CASE b + 1 = i
        BY <2>a, <4>1
      <4>2. CASE b + 1 < i
        <5>1. b + 1 \in 1..Len(Trail) /\ Trail[b + 1] = K[b + 1] /\ Trail[b + 1].at > row.at
          BY <2>3, <3>1
        <5> QED
          BY <2>1, <2>4, <2>a, <4>2, <5>1 DEF RowSeen
      <4> QED
        BY <2>5, <2>a, <3>1, <4>1, <4>2
    <3>4. K[b + 1].ctr = row.ctr
      BY <2>8, <3>1, <3>2
    <3>3. after = row.ctr
      BY <3>1, <3>4
    <3> HIDE DEF before, after
    <3> QED
      BY <2>4, <2>7, <3>3
  <2> QED
    BY <2>1, <2>5, <2>9, <2>10, <2>a
<1> QED
  BY <1>1, OriginInit, OriginStep, PTL DEF Origin!Spec

-----------------------------------------------------------------------------
(* The machine.                                                            *)
Kinds == {"mounts", "wall", "monitor", "forwarder", "proxyenv"}
VMs ==
  [status : {"none", "stopped", "running", "broken"}, socket : BOOLEAN, scoped : BOOLEAN,
   agent : BOOLEAN, rec : [Kinds -> Int]]
Guests ==
  [phase : {"off", "lima", "ours", "granted", "masked", "written", "ruled", "done"},
   wall : Int, narrow : BOOLEAN, report : {"none", "on", "off"},
   forwarder : {"none", "starting", "serving", "failed"}]
Disks == [wall : Int, masked : BOOLEAN]
Computers == [slice : BOOLEAN, table : BOOLEAN, supervisor : BOOLEAN]
Cmds ==
  [op : {"none"} \cup Verbs,
   pc : {"idle", "exists", "halt", "slice", "look", "record", "state", "start", "revive",
         "starting", "hostwall", "guest", "forwarder", "ok", "failed", "supervisor", "remove",
         "create"},
   cfg : Configs, at : 0..5, boot : Nat, blind : BOOLEAN, over : BOOLEAN]

(* What the boot has reported is what its scripts did, from the recordings *)
(* it was given; those of a VM that runs are the ones Lima has.            *)
Reported(b, g) ==
  /\ g.phase \in {"granted", "masked", "written", "ruled"} => g.narrow /\ b["wall"] # -1
  /\ g.phase = "ruled" => g.wall = b["wall"]
  /\ g.report # "none" =>
       g.phase = "done" /\ g.narrow /\ g.wall = b["wall"] /\ b["wall"] # -1

VMInv ==
  /\ vm \in VMs /\ booted \in [Kinds -> Int] /\ guest \in Guests /\ disk \in Disks
  /\ boots \in Nat /\ computer \in Computers /\ adopted \in Configs
  /\ Reported(booted, guest)
  /\ vm.status = "running" => booted = vm.rec

(* A verb that brings a VM up, past its recording of the wall.             *)
Brings(c) == c.op \in {"up", "recreate"}
Past(c) ==
  \/ c.pc \in {"state", "revive", "start", "starting", "hostwall", "guest", "forwarder", "ok"}
  \/ c.pc = "record" /\ c.at > 2

Applies(c, b, g, d) ==
  /\ g.report # "none"
  /\ c.cfg.wall > 0 => d.masked /\ g.wall > 0
  /\ c.over \/ g.wall = c.cfg.wall
  /\ c.pc = "ok" /\ c.cfg.forwarder = 1 => b["forwarder"] = 1

(* What a verb c may count on: the VM's wall is of its recording unless it *)
(* was overtaken or the VM is a new one; the boot it checked, if it still  *)
(* lasts, applied it; the VM it stopped is down.                           *)
Counts(c, v, b, g, d, n) ==
  /\ c \in Cmds /\ c.boot <= n
  /\ c.pc = "record" => c.at \in 1..5
  /\ Brings(c) => c.pc \notin {"look", "supervisor", "slice"}
  /\ (Brings(c) /\ Past(c) /\ ~c.over) => v.rec["wall"] \in {c.cfg.wall, -1}
  /\ (Brings(c) /\ c.pc \in {"forwarder", "ok"} /\ v.status = "running" /\ n = c.boot) =>
       Applies(c, b, g, d)
  /\ c.pc = "supervisor" => v.status # "running" \/ n # c.boot \/ c.blind

MachineInv ==
  /\ VMInv
  /\ cmd = [s \in Terminals |-> cmd[s]]
  /\ \A s \in Terminals : Counts(cmd[s], vm, booted, guest, disk, boots)

LEMMA MachineKinds ==
  /\ Machine!Kinds = Kinds
  /\ Len(Machine!Recorded) = 5
  /\ \A i \in 1..5 : Machine!Recorded[i] \in Kinds
  /\ \A i \in 1..5 : Machine!Recorded[i] = "wall" <=> i = 2
  BY DEF Machine!Kinds, Machine!Recorded, Kinds

LEMMA IdleVerb ==
  /\ Machine!Idle \in Cmds /\ Machine!Idle.pc = "idle" /\ Machine!Idle.boot = 0
  /\ ~Brings(Machine!Idle)
  BY ConfigsAssumption DEF Machine!Idle, Cmds, Brings

LEMMA NewVM ==
  /\ Machine!Created \in VMs /\ Machine!Created.status = "stopped"
  /\ Machine!Created.rec["wall"] = -1
  /\ Machine!NoVM \in VMs /\ Machine!NoVM.status = "none" /\ Machine!NoVM.rec["wall"] = -1
  /\ Machine!NoGuest \in Guests /\ Machine!NoGuest.phase = "off" /\ Machine!NoGuest.report = "none"
  /\ Machine!FreshDisk \in Disks
<1>1. Machine!Created \in VMs /\ Machine!Created.status = "stopped" /\ Machine!Created.rec["wall"] = -1
  <2> DEFINE rec == [k \in Kinds |-> IF k \in {"mounts", "proxyenv"} THEN 1 ELSE -1]
  <2>1. rec \in [Kinds -> Int] /\ rec["wall"] = -1
    BY DEF Kinds
  <2>2. Machine!Created = [status |-> "stopped", socket |-> FALSE, scoped |-> FALSE, agent |-> FALSE,
                           rec |-> rec]
    BY MachineKinds DEF Machine!Created, Machine!Unrecorded
  <2> HIDE DEF rec
  <2> QED BY <2>1, <2>2 DEF VMs
<1>2. Machine!NoVM \in VMs /\ Machine!NoVM.status = "none" /\ Machine!NoVM.rec["wall"] = -1
  BY <1>1 DEF Machine!NoVM, VMs
<1>3. /\ Machine!NoGuest \in Guests /\ Machine!NoGuest.phase = "off" /\ Machine!NoGuest.report = "none"
      /\ Machine!FreshDisk \in Disks
  BY DEF Machine!NoGuest, Machine!FreshDisk, Guests, Disks
<1> QED BY <1>1, <1>2, <1>3

LEMMA WantIsInt ==
  ASSUME NEW c \in Configs, NEW k \in Kinds
  PROVE  Machine!Want(c, k) \in Int /\ Machine!Want(c, "wall") = c.wall
<1>1. c \in [wall : Nat, monitor : Nat, forwarder : {0, 1}, host : BOOLEAN]
  BY ConfigsAssumption
<1>2. /\ Machine!Want(c, "wall") = c.wall /\ Machine!Want(c, "monitor") = c.monitor
      /\ Machine!Want(c, "forwarder") = c.forwarder /\ Machine!Want(c, "mounts") = 1
      /\ Machine!Want(c, "proxyenv") \in {0, 1}
  BY <1>1 DEF Machine!Want
<1> QED BY <1>1, <1>2 DEF Kinds

(* What a verb counts on stays so while another moves the VM: it goes down,*)
(* or boots anew, or its boot goes on.                                     *)
LEMMA StillCounts ==
  ASSUME NEW c, NEW v, NEW b, NEW g, NEW d, NEW n \in Nat,
         NEW w, NEW b2, NEW g2, NEW d2, NEW n2 \in Nat,
         Counts(c, v, b, g, d, n), n2 >= n, w.rec["wall"] \in {v.rec["wall"], -1},
         (w.status = "running" /\ n2 = n) =>
           /\ v.status = "running" /\ b2 = b /\ (d.masked => d2.masked)
           /\ g.report # "none" => g2.report = g.report /\ g2.wall = g.wall
  PROVE  Counts(c, w, b2, g2, d2, n2)
<1>1. c.boot \in Nat /\ c.boot <= n /\ c.boot <= n2
  BY DEF Counts, Cmds
<1>2. ASSUME w.status = "running", n2 = c.boot PROVE n2 = n /\ v.status = "running" /\ n = c.boot
  BY <1>1, <1>2
<1>3. (Brings(c) /\ c.pc \in {"forwarder", "ok"} /\ w.status = "running" /\ n2 = c.boot) =>
        Applies(c, b2, g2, d2)
  BY <1>2 DEF Counts, Applies
<1>4. c.pc = "supervisor" => w.status # "running" \/ n2 # c.boot \/ c.blind
  BY <1>2 DEF Counts
<1> QED BY <1>1, <1>3, <1>4 DEF Counts

(* One verb goes on, and the VM stays as it is.                            *)
LEMMA VerbGoesOn ==
  ASSUME MachineInv, NEW s \in Terminals, NEW c, cmd' = [cmd EXCEPT ![s] = c],
         UNCHANGED <<vm, booted, guest, disk, boots>>, computer' \in Computers, adopted' \in Configs,
         Counts(c, vm, booted, guest, disk, boots)
  PROVE  MachineInv'
<1>1. /\ cmd' = [t \in Terminals |-> cmd'[t]]
      /\ \A t \in Terminals : cmd'[t] = IF t = s THEN c ELSE cmd[t]
  BY DEF MachineInv
<1> QED BY <1>1 DEF MachineInv, VMInv

(* One verb moves the VM, or none does.                                    *)
LEMMA VMMoves ==
  ASSUME MachineInv, VMInv', NEW s \in Terminals, NEW c, cmd' = [cmd EXCEPT ![s] = c],
         boots' >= boots, vm'.rec["wall"] \in {vm.rec["wall"], -1},
         (vm'.status = "running" /\ boots' = boots) =>
           /\ vm.status = "running" /\ booted' = booted /\ (disk.masked => disk'.masked)
           /\ guest.report # "none" => guest'.report = guest.report /\ guest'.wall = guest.wall,
         Counts(c, vm', booted', guest', disk', boots')
  PROVE  MachineInv'
<1>1. /\ cmd' = [t \in Terminals |-> cmd'[t]]
      /\ \A t \in Terminals : cmd'[t] = IF t = s THEN c ELSE cmd[t]
  BY DEF MachineInv
<1>2. boots \in Nat /\ boots' \in Nat
  BY DEF MachineInv, VMInv
<1>3. \A t \in Terminals : Counts(cmd[t], vm', booted', guest', disk', boots')
  BY <1>2, StillCounts DEF MachineInv
<1> QED BY <1>1, <1>3 DEF MachineInv

LEMMA WorldMoves ==
  ASSUME MachineInv, VMInv', UNCHANGED cmd,
         boots' >= boots, vm'.rec["wall"] \in {vm.rec["wall"], -1},
         (vm'.status = "running" /\ boots' = boots) =>
           /\ vm.status = "running" /\ booted' = booted /\ (disk.masked => disk'.masked)
           /\ guest.report # "none" => guest'.report = guest.report /\ guest'.wall = guest.wall
  PROVE  MachineInv'
<1>1. boots \in Nat /\ boots' \in Nat
  BY DEF MachineInv, VMInv
<1>2. \A t \in Terminals : Counts(cmd[t], vm', booted', guest', disk', boots')
  BY <1>1, StillCounts DEF MachineInv
<1> QED BY <1>2 DEF MachineInv

(* The VM is down after it, or there is none.                              *)
LEMMA StopVMDowns ==
  ASSUME MachineInv, Machine!StopVM
  PROVE  /\ vm' \in VMs /\ vm'.status # "running" /\ vm'.rec = vm.rec
         /\ guest' = Machine!NoGuest /\ UNCHANGED <<booted, disk, boots, computer>>
         /\ adopted' \in Configs => VMInv'
<1>1. vm \in VMs
  BY DEF MachineInv, VMInv
<1>2. Machine!Stopped \in VMs /\ Machine!Stopped.status = "stopped" /\ Machine!Stopped.rec = vm.rec
  BY <1>1 DEF Machine!Stopped, VMs
<1>3. vm' \in VMs /\ vm'.status # "running" /\ vm'.rec = vm.rec
  BY <1>1, <1>2 DEF Machine!StopVM
<1>4. guest' = Machine!NoGuest /\ UNCHANGED <<booted, disk, boots, computer>>
  BY DEF Machine!StopVM
<1> QED BY <1>3, <1>4, NewVM DEF MachineInv, VMInv, Reported

(* One verb moves on to pc, and nothing else changes.                      *)
LEMMA MovesTo ==
  ASSUME MachineInv, NEW s \in Terminals,
         NEW pc \in {"idle", "start", "hostwall", "revive", "starting", "guest", "failed",
                     "remove", "create"},
         cmd' = [cmd EXCEPT ![s].pc = pc], UNCHANGED <<vm, booted, guest, disk, boots, computer>>,
         adopted' = adopted,
         (Brings(cmd[s]) /\ ~cmd[s].over) =>
           Past(cmd[s]) \/ pc \in {"idle", "failed", "remove", "create"}
  PROVE  MachineInv'
<1> DEFINE c == cmd[s]
<1>0. /\ Counts(c, vm, booted, guest, disk, boots) /\ c \in Cmds
      /\ computer \in Computers /\ adopted \in Configs
  BY DEF MachineInv, VMInv, Counts
<1> DEFINE w == [c EXCEPT !.pc = pc]
<1> HIDE DEF c
<1>1. /\ w \in Cmds /\ w.pc = pc /\ w.op = c.op /\ w.cfg = c.cfg /\ w.over = c.over
      /\ w.boot = c.boot /\ w.blind = c.blind
  BY <1>0 DEF Cmds
<1>2. cmd' = [cmd EXCEPT ![s] = w]
  BY DEF MachineInv, c
<1> HIDE DEF w
<1>3. Counts(w, vm, booted, guest, disk, boots)
  BY <1>0, <1>1 DEF Counts, Brings, Past, c
<1> QED BY <1>0, <1>2, <1>3, VerbGoesOn

LEMMA FailGoesOn ==
  ASSUME MachineInv, NEW s \in Terminals, Machine!Fail(s), adopted' = adopted
  PROVE  MachineInv'
BY MovesTo DEF Machine!Fail, Machine!Goto

(* The handlers that only move their verb on.                              *)
LEMMA QuietStep ==
  ASSUME MachineInv, NEW s \in Terminals,
         \/ Machine!Begin(s) \/ Machine!Look(s) \/ Machine!NoStart(s) \/ Machine!Started(s)
         \/ Machine!CheckHostWall(s) \/ Machine!CheckForwarder(s) \/ Machine!End(s)
         \/ Machine!StopSupervisor(s) \/ Machine!EnsureSlice(s)
         \/ Machine!Exists(s) /\ vm.status # "none"
  PROVE  MachineInv'
<1> DEFINE c == cmd[s]
<1>0. /\ Counts(c, vm, booted, guest, disk, boots) /\ c \in Cmds
      /\ computer \in Computers /\ adopted \in Configs
  BY DEF MachineInv, VMInv, Counts
<1> HIDE DEF c
<1>3. CASE Machine!Begin(s)
  <2>1. PICK op \in Verbs :
          cmd' = [cmd EXCEPT ![s] = [Machine!Idle EXCEPT !.op = op, !.cfg = adopted,
                !.pc = CASE op = "up" -> "exists" [] op = "recreate" -> "halt"
                         [] op = "firewall" -> "slice" [] OTHER -> "look"]]
    BY <1>3 DEF Machine!Begin
  <2> DEFINE pc == CASE op = "up" -> "exists" [] op = "recreate" -> "halt"
                     [] op = "firewall" -> "slice" [] OTHER -> "look"
             w == [Machine!Idle EXCEPT !.op = op, !.cfg = adopted, !.pc = pc]
  <2>2. /\ pc \in {"exists", "halt", "slice", "look"}
        /\ op \in {"up", "recreate"} => pc \in {"exists", "halt"}
    OBVIOUS
  <2> HIDE DEF pc
  <2>3. w \in Cmds /\ w.pc = pc /\ w.op = op /\ w.boot = 0
    BY <1>0, <2>2, IdleVerb DEF Cmds
  <2>4. cmd' = [cmd EXCEPT ![s] = w]
    BY <2>1 DEF pc
  <2> HIDE DEF w
  <2>5. boots \in Nat
    BY DEF MachineInv, VMInv
  <2>6. Counts(w, vm, booted, guest, disk, boots)
    BY <2>2, <2>3, <2>5 DEF Counts, Brings, Past
  <2> QED BY <1>0, <1>3, <2>4, <2>6, VerbGoesOn DEF Machine!Begin
<1>4. CASE Machine!Look(s)
  <2>1. /\ c.pc = "state" /\ adopted' = adopted
        /\ UNCHANGED <<vm, booted, guest, disk, boots, computer>>
        /\ \E pc \in {"start", "hostwall", "revive"} : cmd' = [cmd EXCEPT ![s].pc = pc]
    BY <1>4 DEF Machine!Look, Machine!Fixed, Machine!At, Machine!Goto, c
  <2> QED BY MovesTo, <2>1 DEF Past, c
<1>5. CASE Machine!NoStart(s)
  BY FailGoesOn, <1>5 DEF Machine!NoStart, Machine!Fixed
<1>6. CASE Machine!Started(s)
  <2>1. /\ c.pc = "starting" /\ adopted' = adopted
        /\ \/ UNCHANGED <<vm, booted, guest, disk, boots, computer>>
              /\ cmd' = [cmd EXCEPT ![s].pc = "hostwall"]
           \/ Machine!Fail(s)
    BY <1>6 DEF Machine!Started, Machine!Fixed, Machine!At, Machine!Goto, c
  <2> QED BY FailGoesOn, MovesTo, <2>1 DEF Past, c
<1>7. CASE Machine!CheckHostWall(s)
  <2>1. /\ c.pc = "hostwall" /\ adopted' = adopted
        /\ \/ UNCHANGED <<vm, booted, guest, disk, boots, computer>>
              /\ cmd' = [cmd EXCEPT ![s].pc = "guest"]
           \/ Machine!Fail(s)
    BY <1>7 DEF Machine!CheckHostWall, Machine!Fixed, Machine!At, Machine!Goto, c
  <2> QED BY FailGoesOn, MovesTo, <2>1 DEF Past, c
<1>8. CASE Machine!CheckForwarder(s)
  <2>1. c.pc = "forwarder" /\ adopted' = adopted
    BY <1>8 DEF Machine!CheckForwarder, Machine!Fixed, Machine!At, c
  <2>2. CASE Machine!Serving(c.cfg) /\ cmd' = [cmd EXCEPT ![s].pc = "ok"]
             /\ UNCHANGED <<vm, booted, guest, disk, boots, computer>>
    <3> DEFINE w == [c EXCEPT !.pc = "ok"]
    <3>1. /\ w \in Cmds /\ w.pc = "ok" /\ w.op = c.op /\ w.cfg = c.cfg /\ w.over = c.over
          /\ w.boot = c.boot
      BY <1>0 DEF Cmds
    <3>2. cmd' = [cmd EXCEPT ![s] = w]
      BY <2>2 DEF MachineInv, c
    <3> HIDE DEF w
    <3>3. c.cfg.forwarder = 1 => booted["forwarder"] = 1
      BY <2>2 DEF Machine!Serving
    <3>4. Counts(w, vm, booted, guest, disk, boots)
      BY <1>0, <2>1, <3>1, <3>3 DEF Counts, Brings, Past, Applies
    <3> QED BY <1>0, <2>1, <2>2, <3>2, <3>4, VerbGoesOn
  <2> QED BY FailGoesOn, <1>8, <2>1, <2>2 DEF Machine!CheckForwarder, Machine!Goto, c
<1>9. CASE Machine!End(s)
  <2>1. /\ cmd' = [cmd EXCEPT ![s] = Machine!Idle] /\ UNCHANGED <<vm, booted, guest, disk, boots>>
        /\ computer' \in Computers /\ adopted' = adopted
    BY <1>0, <1>9 DEF Machine!End, Machine!Fixed, Computers
  <2>2. Counts(Machine!Idle, vm, booted, guest, disk, boots)
    BY IdleVerb DEF Counts, MachineInv, VMInv
  <2> QED BY <1>0, <2>1, <2>2, VerbGoesOn
<1>10. CASE Machine!StopSupervisor(s) \/ Machine!EnsureSlice(s)
  <2>1. /\ c.pc \in {"supervisor", "slice"} /\ adopted' = adopted
        /\ \/ UNCHANGED <<vm, booted, guest, disk, boots>> /\ computer' \in Computers
              /\ cmd' = [cmd EXCEPT ![s].pc = "ok"]
           \/ Machine!Fail(s)
    BY <1>0, <1>10
       DEF Machine!StopSupervisor, Machine!EnsureSlice, Machine!Fixed, Machine!At, Machine!Goto,
           Computers, c
  <2>2. CASE UNCHANGED <<vm, booted, guest, disk, boots>> /\ computer' \in Computers
             /\ cmd' = [cmd EXCEPT ![s].pc = "ok"]
    <3> DEFINE w == [c EXCEPT !.pc = "ok"]
    <3>1. w \in Cmds /\ w.pc = "ok" /\ w.op = c.op /\ w.boot = c.boot
      BY <1>0 DEF Cmds
    <3>2. cmd' = [cmd EXCEPT ![s] = w]
      BY <2>2 DEF MachineInv, c
    <3> HIDE DEF w
    <3>3. Counts(w, vm, booted, guest, disk, boots)
      BY <1>0, <2>1, <3>1 DEF Counts, Brings
    <3> QED BY <1>0, <2>1, <2>2, <3>2, <3>3, VerbGoesOn
  <2> QED BY FailGoesOn, <2>1, <2>2
<1>11. CASE Machine!Exists(s) /\ vm.status # "none"
  <2>1. /\ cmd' = [cmd EXCEPT ![s].pc = "record", ![s].at = 1] /\ adopted' = adopted
        /\ UNCHANGED <<vm, booted, guest, disk, boots, computer>>
    BY <1>11 DEF Machine!Exists, Machine!Fixed
  <2> DEFINE w == [c EXCEPT !.pc = "record", !.at = 1]
  <2>2. w \in Cmds /\ w.pc = "record" /\ w.at = 1 /\ w.boot = c.boot
    BY <1>0, 1 \in 0..5 DEF Cmds
  <2>3. cmd' = [cmd EXCEPT ![s] = w]
    BY <2>1 DEF MachineInv, c
  <2> HIDE DEF w
  <2>4. Counts(w, vm, booted, guest, disk, boots)
    BY <1>0, <2>2 DEF Counts, Past
  <2> QED BY <1>0, <2>1, <2>3, <2>4, VerbGoesOn
<1> QED BY <1>3, <1>4, <1>5, <1>6, <1>7, <1>8, <1>9, <1>10, <1>11

(* A VM is created: no wall is recorded into it.                           *)
LEMMA CreateStep ==
  ASSUME MachineInv, NEW s \in Terminals, Machine!Create(s), vm.status = "none"
  PROVE  MachineInv'
<1> DEFINE c == cmd[s]
           at == IF c.op = "up" THEN 1 ELSE 2
           w == [c EXCEPT !.pc = "record", !.at = at]
<1>0. /\ Counts(c, vm, booted, guest, disk, boots) /\ c \in Cmds
      /\ boots \in Nat /\ adopted' = adopted /\ VMInv
  BY DEF MachineInv, VMInv, Counts, Machine!Create, Machine!Fixed
<1>1. CASE /\ vm' = Machine!Created /\ disk' = Machine!FreshDisk
           /\ cmd' = [cmd EXCEPT ![s].pc = "record", ![s].at = IF cmd[s].op = "up" THEN 1 ELSE 2]
           /\ UNCHANGED <<booted, guest, boots, computer>>
  <2>1. at \in 0..5 /\ at \in 1..5 /\ ~(at > 2)
    OBVIOUS
  <2>2. cmd' = [cmd EXCEPT ![s] = w]
    BY <1>1 DEF MachineInv
  <2> HIDE DEF at
  <2> HIDE DEF c
  <2>3. w \in Cmds /\ w.pc = "record" /\ w.at = at /\ w.boot = c.boot
    BY <1>0, <2>1 DEF Cmds
  <2> HIDE DEF w
  <2>4. vm' \in VMs /\ vm'.status = "stopped" /\ vm'.rec["wall"] = -1 /\ disk' \in Disks
    BY <1>1, NewVM
  <2>5. VMInv'
    BY <1>0, <1>1, <2>4 DEF VMInv
  <2>6. Counts(w, vm', booted', guest', disk', boots')
    BY <1>0, <1>1, <2>1, <2>3 DEF Counts, Past
  <2>7. boots' >= boots /\ vm'.status # "running" /\ vm'.rec["wall"] \in {vm.rec["wall"], -1}
    BY <1>0, <1>1, <2>4
  <2> QED BY <2>2, <2>5, <2>6, <2>7, VMMoves
<1> QED BY <1>0, <1>1, FailGoesOn DEF Machine!Create

(* What a verb's next recording leaves it counting on.                     *)
LEMMA NextRecordingCounts ==
  ASSUME NEW s \in Terminals, NEW v, NEW b, NEW g, NEW d, NEW n,
         Counts(cmd[s], v, b, g, d, n), cmd[s].pc = "record",
         cmd[s].at = 2 /\ ~cmd[s].over => v.rec["wall"] \in {cmd[s].cfg.wall, -1}
  PROVE  Counts(Machine!NextRecording(s), v, b, g, d, n)
<1> DEFINE c == cmd[s]
           w == [c EXCEPT !.at = c.at + 1]
           pc == IF c.op = "up" THEN "state" ELSE "start"
           u == [c EXCEPT !.pc = pc]
<1>1. c \in Cmds /\ c.at \in 1..5 /\ c.boot <= n
  BY DEF Counts
<1>2. Machine!NextRecording(s) = IF c.at < 5 THEN w ELSE u
  BY MachineKinds DEF Machine!NextRecording
<1>3. pc \in {"state", "start"}
  OBVIOUS
<1> HIDE DEF pc
<1>4. c.pc = "record" /\ Counts(c, v, b, g, d, n)
      /\ (c.at = 2 /\ ~c.over => v.rec["wall"] \in {c.cfg.wall, -1})
  OBVIOUS
<1> HIDE DEF c
<1>5. CASE c.at < 5
  <2>1. c.at + 1 \in 0..5 /\ c.at + 1 \in 1..5 /\ (c.at + 1 > 2 => c.at > 2 \/ c.at = 2)
    BY <1>1, <1>5
  <2>2. /\ w \in Cmds /\ w.pc = c.pc /\ w.op = c.op /\ w.cfg = c.cfg /\ w.over = c.over
        /\ w.boot = c.boot /\ w.at = c.at + 1
    BY <1>1, <2>1 DEF Cmds
  <2> HIDE DEF w
  <2>3. Counts(w, v, b, g, d, n)
    BY <1>1, <1>4, <2>1, <2>2 DEF Counts, Past, Brings
  <2> QED BY <1>2, <1>5, <2>3
<1>6. CASE ~(c.at < 5)
  <2>1. c.at > 2
    BY <1>1, <1>6
  <2>2. /\ u \in Cmds /\ u.pc = pc /\ u.op = c.op /\ u.cfg = c.cfg /\ u.over = c.over
        /\ u.boot = c.boot
    BY <1>1, <1>3 DEF Cmds
  <2> HIDE DEF u
  <2>3. Counts(u, v, b, g, d, n)
    BY <1>1, <1>3, <1>4, <2>1, <2>2 DEF Counts, Past, Brings
  <2> QED BY <1>2, <1>6, <2>3
<1> QED BY <1>5, <1>6

(* The recording itself: of a stopped VM, and overtaking the others when it*)
(* is of the wall.                                                         *)
LEMMA RecordStep ==
  ASSUME MachineInv, NEW s \in Terminals, Machine!Record(s)
  PROVE  MachineInv'
<1> DEFINE c == cmd[s]
           k == Machine!Recorded[c.at]
           w == Machine!NextRecording(s)
<1>0. /\ Counts(c, vm, booted, guest, disk, boots) /\ c \in Cmds /\ c.pc = "record"
      /\ boots \in Nat /\ adopted' = adopted /\ VMInv /\ adopted \in Configs
      /\ computer \in Computers /\ c.cfg \in Configs /\ c.at \in 1..5
  BY DEF MachineInv, VMInv, Counts, Machine!Record, Machine!Fixed, Machine!At, Cmds
<1>1. k \in Kinds /\ (k = "wall" <=> c.at = 2)
  BY <1>0, MachineKinds
<1>2. /\ Machine!Want(c.cfg, k) \in Int
      /\ Machine!Want(c.cfg, "wall") = c.cfg.wall
  BY <1>0, <1>1, WantIsInt
<1>3. CASE /\ ~Machine!Drifted(c.cfg, k) \/ (vm.status = "running" /\ ~Machine!Refuses(k))
           /\ cmd' = [cmd EXCEPT ![s] = w]
           /\ UNCHANGED <<vm, booted, guest, disk, boots, computer>>
  <2>1. c.at = 2 => vm.rec["wall"] = c.cfg.wall
    BY <1>1, <1>2, <1>3 DEF Machine!Refuses, Machine!Drifted
  <2>2. Counts(w, vm, booted, guest, disk, boots)
    BY <1>0, <2>1, NextRecordingCounts
  <2> QED BY <1>0, <1>3, <2>2, VerbGoesOn
<1>4. CASE /\ Machine!Drifted(c.cfg, k) /\ vm.status \in {"stopped", "broken"}
           /\ vm' = [vm EXCEPT !.rec[k] = Machine!Want(c.cfg, k)]
           /\ cmd' = [(IF k = "wall" THEN Machine!Overtaken(s, c.cfg) ELSE cmd) EXCEPT ![s] = w]
           /\ UNCHANGED <<booted, guest, disk, boots, computer>>
  <2> DEFINE want == Machine!Want(c.cfg, k)
             rec == [vm.rec EXCEPT ![k] = want]
  <2>1. vm \in VMs /\ vm.rec \in [Kinds -> Int] /\ want \in Int
    BY <1>0, <1>2 DEF VMInv, VMs
  <2>2. rec \in [Kinds -> Int] /\ (k = "wall" => rec["wall"] = want) /\ (k # "wall" => rec["wall"] = vm.rec["wall"])
    BY <1>1, <2>1 DEF Kinds
  <2>3. vm' = [vm EXCEPT !.rec = rec]
    BY <1>4, <2>1 DEF VMs
  <2>4. k = "wall" => want = c.cfg.wall
    BY <1>2
  <2> HIDE DEF rec
  <2> HIDE DEF want
  <2>5. vm' \in VMs /\ vm'.status = vm.status /\ vm'.rec = rec
    BY <2>1, <2>2, <2>3 DEF VMs
  <2>6. VMInv' /\ vm'.status # "running" /\ boots' = boots
    BY <1>0, <1>4, <2>5 DEF VMInv
  <2>7. CASE k # "wall"
    <3>1. Counts(c, vm', booted', guest', disk', boots')
      BY <1>0, <1>4, <2>2, <2>5, <2>6, <2>7 DEF Counts
    <3>2. Counts(w, vm', booted', guest', disk', boots')
      BY <1>0, <1>1, <2>7, <3>1, NextRecordingCounts
    <3>3. cmd' = [cmd EXCEPT ![s] = w]
      BY <1>4, <2>7
    <3>4. boots' >= boots /\ vm'.rec["wall"] \in {vm.rec["wall"], -1}
      BY <1>0, <2>2, <2>5, <2>6, <2>7
    <3> HIDE DEF w
    <3> QED BY <2>6, <3>2, <3>3, <3>4, VMMoves
  <2>8. CASE k = "wall"
    <3>1. vm'.rec["wall"] = c.cfg.wall /\ c.at = 2
      BY <1>1, <2>2, <2>4, <2>5, <2>8
    <3>2. Counts(c, vm', booted', guest', disk', boots')
      BY <1>0, <2>6, <3>1 DEF Counts, Past
    <3>3. Counts(w, vm', booted', guest', disk', boots')
      BY <1>0, <3>1, <3>2, NextRecordingCounts
    <3>4. cmd' = [Machine!Overtaken(s, c.cfg) EXCEPT ![s] = w]
      BY <1>4, <2>8
    <3> HIDE DEF w
    <3>5. /\ cmd' = [t \in Terminals |-> cmd'[t]]
          /\ cmd'[s] = w
          /\ \A t \in Terminals : t # s =>
               cmd'[t] = IF cmd[t].pc # "idle" /\ cmd[t].cfg.wall # c.cfg.wall
                           THEN [cmd[t] EXCEPT !.over = TRUE] ELSE cmd[t]
      BY <3>4 DEF Machine!Overtaken
    <3>6. ASSUME NEW t \in Terminals PROVE Counts(cmd'[t], vm', booted', guest', disk', boots')
      <4> DEFINE o == cmd[t]
      <4>1. Counts(o, vm, booted, guest, disk, boots) /\ o \in Cmds
        BY DEF MachineInv, Counts
      <4>2. t # s => cmd'[t] = IF o.pc # "idle" /\ o.cfg.wall # c.cfg.wall
                                 THEN [o EXCEPT !.over = TRUE] ELSE o
        BY <3>5
      <4> HIDE DEF o
      <4>3. CASE t # s /\ o.pc # "idle" /\ o.cfg.wall # c.cfg.wall
        <5> DEFINE u == [o EXCEPT !.over = TRUE]
        <5>1. /\ u \in Cmds /\ u.pc = o.pc /\ u.op = o.op /\ u.over = TRUE /\ u.boot = o.boot
              /\ u.at = o.at
          BY <4>1 DEF Cmds
        <5>2. cmd'[t] = u
          BY <4>2, <4>3
        <5> HIDE DEF u
        <5>3. Counts(u, vm', booted', guest', disk', boots')
          BY <1>4, <2>6, <4>1, <5>1 DEF Counts, Brings
        <5> QED BY <5>2, <5>3
      <4>4. CASE t # s /\ ~(o.pc # "idle" /\ o.cfg.wall # c.cfg.wall)
        <5>1. Counts(o, vm', booted', guest', disk', boots')
          BY <1>4, <2>6, <3>1, <4>1, <4>4 DEF Counts, Brings, Past
        <5> QED BY <4>2, <4>4, <5>1
      <4> QED BY <3>3, <3>5, <4>3, <4>4
    <3> QED BY <2>6, <3>5, <3>6 DEF MachineInv
  <2> QED BY <2>7, <2>8
<1>5. CASE Machine!Fail(s)
  BY <1>0, <1>5, FailGoesOn
<1> QED BY <1>3, <1>4, <1>5 DEF Machine!Record

(* The guest at power-on.                                                  *)
LEMMA PowersOn ==
  ASSUME NEW rec, disk \in Disks
  PROVE  /\ Machine!PowerOn(rec) \in Guests /\ Machine!PowerOn(rec).phase = "lima"
         /\ Machine!PowerOn(rec).report = "none"
<1> DEFINE f == IF rec.forwarder = 1 THEN "starting" ELSE "none"
<1>1. Machine!PowerOn(rec) = [Machine!NoGuest EXCEPT !.phase = "lima", !.wall = disk.wall, !.forwarder = f]
  BY DEF Machine!PowerOn
<1>2. f \in {"none", "starting"}
  OBVIOUS
<1> HIDE DEF f
<1> QED BY <1>1, <1>2, NewVM DEF Guests, Disks

(* A running VM is what its recording made it.                             *)
LEMMA StartStep ==
  ASSUME MachineInv, NEW s \in Terminals, Machine!Start(s)
  PROVE  MachineInv'
<1> DEFINE c == cmd[s]
           w == [c EXCEPT !.pc = "starting"]
<1>0. /\ Counts(c, vm, booted, guest, disk, boots) /\ c \in Cmds /\ c.pc = "start"
      /\ boots \in Nat /\ adopted' = adopted /\ VMInv
      /\ cmd' = [cmd EXCEPT ![s] = w]
  BY DEF MachineInv, VMInv, Counts, Machine!Start, Machine!Fixed, Machine!At, Machine!Goto
<1> HIDE DEF c
<1>1. /\ w \in Cmds /\ w.pc = "starting" /\ w.op = c.op /\ w.cfg = c.cfg /\ w.over = c.over
      /\ w.boot = c.boot
  BY <1>0 DEF Cmds
<1> HIDE DEF w
<1>2. CASE vm.status = "running"
  <2>1. UNCHANGED <<vm, booted, guest, boots, disk, computer>>
    BY <1>2 DEF Machine!Start
  <2>2. Counts(w, vm, booted, guest, disk, boots)
    BY <1>0, <1>1 DEF Counts, Brings, Past
  <2> QED BY <1>0, <2>1, <2>2, VerbGoesOn DEF VMInv
<1>3. CASE vm.status # "running"
  <2> DEFINE host == cmd[s].cfg.host
  <2>1. /\ vm' = [Machine!Stopped EXCEPT !.status = "running", !.scoped = host]
        /\ booted' = vm.rec /\ guest' = Machine!PowerOn(vm.rec) /\ boots' = boots + 1
        /\ UNCHANGED <<disk, computer>>
    BY <1>3 DEF Machine!Start
  <2>2. host \in BOOLEAN
    BY <1>0, ConfigsAssumption DEF Cmds, c
  <2> HIDE DEF host
  <2>3. vm \in VMs /\ disk \in Disks
    BY <1>0 DEF VMInv
  <2>4. Machine!Stopped \in VMs /\ Machine!Stopped.rec = vm.rec
    BY <2>3 DEF VMs, Machine!Stopped
  <2>5. vm' \in VMs /\ vm'.rec = vm.rec /\ vm'.status = "running"
    BY <2>1, <2>2, <2>4 DEF VMs
  <2>6. guest' \in Guests /\ guest'.phase = "lima" /\ guest'.report = "none"
    BY <2>1, <2>3, PowersOn
  <2>7. VMInv'
    BY <1>0, <2>1, <2>3, <2>5, <2>6 DEF VMInv, Reported, VMs
  <2>8. boots' > boots /\ boots' >= boots /\ boots' # boots /\ (c.boot <= boots => c.boot <= boots')
    BY <1>0, <2>1 DEF Cmds
  <2>9. Counts(w, vm', booted', guest', disk', boots')
    BY <1>0, <1>1, <2>5, <2>8 DEF Counts, Brings, Past
  <2> QED BY <1>0, <2>5, <2>7, <2>8, <2>9, VMMoves
<1> QED BY <1>2, <1>3

(* The VM that did not answer is stopped, or the stop failed.              *)
LEMMA ReviveStep ==
  ASSUME MachineInv, NEW s \in Terminals, Machine!Revive(s)
  PROVE  MachineInv'
<1> DEFINE c == cmd[s]
           w == [c EXCEPT !.pc = "start"]
<1>0. /\ Counts(c, vm, booted, guest, disk, boots) /\ c \in Cmds /\ c.pc = "revive"
      /\ boots \in Nat /\ adopted' = adopted /\ VMInv
      /\ cmd' = [cmd EXCEPT ![s].pc = "start"] /\ cmd' = [cmd EXCEPT ![s] = w]
  BY DEF MachineInv, VMInv, Counts, Machine!Revive, Machine!Fixed, Machine!At, Machine!Goto
<1>1. CASE UNCHANGED <<vm, booted, guest, disk, boots, computer>>
  BY <1>0, <1>1, MovesTo DEF Past, c
<1>2. CASE Machine!StopVM
  <2>1. vm'.status # "running" /\ vm'.rec = vm.rec /\ VMInv' /\ boots' = boots
    BY <1>0, <1>2, StopVMDowns DEF VMInv
  <2> HIDE DEF c
  <2>2. /\ w \in Cmds /\ w.pc = "start" /\ w.op = c.op /\ w.cfg = c.cfg /\ w.over = c.over
        /\ w.boot = c.boot
    BY <1>0 DEF Cmds
  <2> HIDE DEF w
  <2>3. Counts(w, vm', booted', guest', disk', boots')
    BY <1>0, <2>1, <2>2 DEF Counts, Brings, Past
  <2>4. boots' >= boots /\ vm'.rec["wall"] \in {vm.rec["wall"], -1}
    BY <1>0, <2>1
  <2> QED BY <1>0, <2>1, <2>3, <2>4, VMMoves
<1> QED BY <1>1, <1>2 DEF Machine!Revive

(* The boot that is checked reported what its scripts did, from what was   *)
(* recorded when it began.                                                 *)
LEMMA CheckGuestStep ==
  ASSUME MachineInv, NEW s \in Terminals, Machine!CheckGuest(s)
  PROVE  MachineInv'
<1> DEFINE c == cmd[s]
           w == [c EXCEPT !.pc = "forwarder", !.boot = boots]
<1>0. /\ Counts(c, vm, booted, guest, disk, boots) /\ c \in Cmds /\ c.pc = "guest"
      /\ boots \in Nat /\ adopted' = adopted /\ VMInv
  BY DEF MachineInv, VMInv, Counts, Machine!CheckGuest, Machine!Fixed, Machine!At
<1>1. CASE /\ Machine!Applied(c.cfg)
           /\ cmd' = [cmd EXCEPT ![s].pc = "forwarder", ![s].boot = boots]
           /\ UNCHANGED <<vm, booted, guest, disk, boots, computer>>
  <2>1. cmd' = [cmd EXCEPT ![s] = w]
    BY <1>1 DEF MachineInv
  <2> HIDE DEF c
  <2>2. /\ w \in Cmds /\ w.pc = "forwarder" /\ w.op = c.op /\ w.cfg = c.cfg /\ w.over = c.over
        /\ w.boot = boots
    BY <1>0 DEF Cmds
  <2> HIDE DEF w
  <2>3. /\ vm.status = "running" /\ guest.report # "none"
        /\ c.cfg.wall > 0 => guest.wall > 0 /\ disk.masked
    BY <1>1 DEF Machine!Applied, Machine!Report
  <2>4. guest.wall = vm.rec["wall"] /\ guest.wall # -1
    BY <1>0, <2>3 DEF VMInv, Reported
  <2>5. Counts(w, vm, booted, guest, disk, boots)
    BY <1>0, <2>2, <2>3, <2>4 DEF Counts, Brings, Past, Applies
  <2> QED BY <1>0, <1>1, <2>1, <2>5, VerbGoesOn DEF VMInv
<1> QED BY <1>0, <1>1, FailGoesOn DEF Machine!CheckGuest

(* `fy machine stop | delete` go on to the supervisor once the VM is down. *)
LEMMA LookFirstStep ==
  ASSUME MachineInv, NEW s \in Terminals, Machine!LookFirst(s)
  PROVE  MachineInv'
<1> DEFINE c == cmd[s]
<1>0. /\ Counts(c, vm, booted, guest, disk, boots) /\ c \in Cmds /\ c.pc = "look"
      /\ boots \in Nat /\ adopted' = adopted /\ VMInv /\ UNCHANGED <<vm, booted, guest, disk, boots, computer>>
  BY DEF MachineInv, VMInv, Counts, Machine!LookFirst, Machine!At
<1>1. PICK pc \in {"halt", "remove", "supervisor"}, boot \in {c.boot, boots}, blind \in BOOLEAN :
        /\ cmd' = [cmd EXCEPT ![s] = [c EXCEPT !.pc = pc, !.boot = boot, !.blind = blind]]
        /\ pc = "supervisor" => vm.status # "running" \/ blind
  <2>1. CASE cmd' = [cmd EXCEPT ![s].boot = boots,
               ![s].pc = IF vm.status = "running" THEN "halt"
                      ELSE IF cmd[s].op = "delete" /\ vm.status # "none" THEN "remove" ELSE "supervisor"]
    <3> DEFINE pc == IF vm.status = "running" THEN "halt"
                      ELSE IF cmd[s].op = "delete" /\ vm.status # "none" THEN "remove" ELSE "supervisor"
    <3>1. /\ pc \in {"halt", "remove", "supervisor"}
          /\ pc = "supervisor" => vm.status # "running"
      OBVIOUS
    <3>2. cmd' = [cmd EXCEPT ![s].boot = boots, ![s].pc = pc]
      BY <2>1
    <3> HIDE DEF pc
    <3>3. cmd' = [cmd EXCEPT ![s] = [c EXCEPT !.pc = pc, !.boot = boots]]
      BY <3>2 DEF MachineInv
    <3>4. c.blind \in BOOLEAN
      BY <1>0 DEF Cmds
    <3> HIDE DEF c
    <3>5. [c EXCEPT !.pc = pc, !.boot = boots] = [c EXCEPT !.pc = pc, !.boot = boots, !.blind = c.blind]
      BY <1>0 DEF Cmds
    <3> QED BY <3>1, <3>3, <3>4, <3>5
  <2>2. CASE cmd' = [cmd EXCEPT ![s].pc = "supervisor", ![s].blind = TRUE]
    <3>1. cmd' = [cmd EXCEPT ![s] = [c EXCEPT !.pc = "supervisor", !.blind = TRUE]]
      BY <2>2 DEF MachineInv
    <3> HIDE DEF c
    <3>2. [c EXCEPT !.pc = "supervisor", !.blind = TRUE]
            = [c EXCEPT !.pc = "supervisor", !.boot = c.boot, !.blind = TRUE]
      BY <1>0 DEF Cmds
    <3> QED BY <3>1, <3>2
  <2> QED BY <2>1, <2>2 DEF Machine!LookFirst
<1> DEFINE w == [c EXCEPT !.pc = pc, !.boot = boot, !.blind = blind]
<1> HIDE DEF c
<1>2. boot \in Nat /\ boot <= boots
  BY <1>0, <1>1 DEF Counts, Cmds
<1>3. w \in Cmds /\ w.pc = pc /\ w.op = c.op /\ w.boot = boot /\ w.blind = blind
  BY <1>0, <1>1, <1>2 DEF Cmds
<1> HIDE DEF w
<1>4. Counts(w, vm, booted, guest, disk, boots)
  BY <1>0, <1>1, <1>2, <1>3 DEF Counts, Brings, Past
<1> QED BY <1>0, <1>1, <1>4, VerbGoesOn DEF VMInv, w

(* A verb that stops or removes the VM goes on past it.                    *)
LEMMA DownsStep ==
  ASSUME MachineInv, NEW s \in Terminals, VMInv', boots' = boots, adopted' = adopted,
         vm'.status # "running", vm'.rec["wall"] \in {vm.rec["wall"], -1},
         NEW pc \in {"supervisor", "remove", "create"}, Brings(cmd[s]) => pc # "supervisor",
         cmd' = [cmd EXCEPT ![s].boot = boots, ![s].pc = pc]
  PROVE  MachineInv'
<1> DEFINE c == cmd[s]
           w == [c EXCEPT !.boot = boots, !.pc = pc]
<1>0. Counts(c, vm, booted, guest, disk, boots) /\ c \in Cmds /\ boots \in Nat
  BY DEF MachineInv, VMInv, Counts
<1>1. cmd' = [cmd EXCEPT ![s] = w]
  BY DEF MachineInv
<1>2. Brings(c) => pc # "supervisor"
  OBVIOUS
<1> HIDE DEF c
<1>3. w \in Cmds /\ w.pc = pc /\ w.op = c.op /\ w.boot = boots
  BY <1>0 DEF Cmds
<1> HIDE DEF w
<1>4. boots' >= boots /\ boots <= boots
  BY <1>0
<1>5. Counts(w, vm', booted', guest', disk', boots')
  BY <1>0, <1>2, <1>3, <1>4 DEF Counts, Brings, Past
<1> QED BY <1>1, <1>4, <1>5, VMMoves

LEMMA HaltStep ==
  ASSUME MachineInv, NEW s \in Terminals, Machine!Halt(s)
  PROVE  MachineInv'
<1>0. cmd[s].pc = "halt" /\ adopted' = adopted /\ adopted \in Configs
  BY DEF Machine!Halt, Machine!At, Machine!Fixed, MachineInv, VMInv
<1>1. CASE Machine!StopVM /\ cmd' = [cmd EXCEPT ![s].boot = boots,
             ![s].pc = IF cmd[s].op = "stop" THEN "supervisor" ELSE "remove"]
  <2> DEFINE pc == IF cmd[s].op = "stop" THEN "supervisor" ELSE "remove"
  <2>1. /\ pc \in {"supervisor", "remove", "create"} /\ (Brings(cmd[s]) => pc # "supervisor")
        /\ cmd' = [cmd EXCEPT ![s].boot = boots, ![s].pc = pc]
    BY <1>1 DEF Brings
  <2> HIDE DEF pc
  <2>2. vm'.status # "running" /\ vm'.rec = vm.rec /\ VMInv' /\ boots' = boots
    BY <1>0, <1>1, StopVMDowns
  <2> QED BY <1>0, <2>1, <2>2, DownsStep
<1>2. CASE Machine!Fail(s)
  BY <1>0, <1>2, FailGoesOn
<1>3. CASE /\ Machine!Goto(s, "remove")
           /\ UNCHANGED <<vm, booted, guest, disk, boots, computer>>
  BY <1>0, <1>3, MovesTo DEF Machine!Goto
<1> QED BY <1>1, <1>2, <1>3 DEF Machine!Halt

LEMMA RemoveStep ==
  ASSUME MachineInv, NEW s \in Terminals, Machine!Remove(s)
  PROVE  MachineInv'
<1>0. cmd[s].pc = "remove" /\ adopted' = adopted /\ adopted \in Configs
  BY DEF Machine!Remove, Machine!At, Machine!Fixed, MachineInv, VMInv
<1>1. CASE /\ vm' = Machine!NoVM /\ guest' = Machine!NoGuest
           /\ cmd' = [cmd EXCEPT ![s].boot = boots,
                ![s].pc = IF cmd[s].op = "delete" THEN "supervisor" ELSE "create"]
           /\ UNCHANGED <<booted, disk, boots, computer>>
  <2> DEFINE pc == IF cmd[s].op = "delete" THEN "supervisor" ELSE "create"
  <2>1. /\ pc \in {"supervisor", "remove", "create"} /\ (Brings(cmd[s]) => pc # "supervisor")
        /\ cmd' = [cmd EXCEPT ![s].boot = boots, ![s].pc = pc]
    BY <1>1 DEF Brings
  <2> HIDE DEF pc
  <2>2. /\ vm'.status = "none" /\ vm' \in VMs /\ vm'.rec["wall"] = -1 /\ boots' = boots
        /\ guest' \in Guests /\ guest'.phase = "off" /\ guest'.report = "none"
        /\ UNCHANGED <<booted, disk, computer>>
    BY <1>1, NewVM
  <2>3. VMInv'
    BY <1>0, <2>2 DEF MachineInv, VMInv, Reported
  <2> QED BY <1>0, <2>1, <2>2, <2>3, DownsStep
<1>2. CASE Machine!Fail(s)
  BY <1>0, <1>2, FailGoesOn
<1>3. CASE /\ Machine!Goto(s, "create")
           /\ UNCHANGED <<vm, booted, guest, disk, boots, computer>>
  BY <1>0, <1>3, MovesTo DEF Machine!Goto
<1> QED BY <1>1, <1>2, <1>3 DEF Machine!Remove

(* The guest's boot: it reports only what it did.                          *)
LEMMA BootStep ==
  ASSUME MachineInv, Machine!Boot
  PROVE  MachineInv'
<1>0. /\ UNCHANGED <<adopted, booted, boots, computer, cmd>> /\ VMInv
      /\ vm \in VMs /\ guest \in Guests /\ disk \in Disks /\ booted \in [Kinds -> Int]
      /\ boots \in Nat /\ Reported(booted, guest)
  BY DEF Machine!Boot, Machine!Fixed, MachineInv, VMInv
<1>1. booted["wall"] \in Int
  BY <1>0 DEF Kinds
<1>2. ASSUME vm' \in VMs, vm'.status = vm.status, vm'.rec = vm.rec,
             guest' \in Guests, disk' \in Disks, Reported(booted, guest'),
             disk.masked => disk'.masked,
             guest.report # "none" => guest'.report = guest.report /\ guest'.wall = guest.wall
      PROVE  MachineInv'
  <2>1. VMInv'
    BY <1>0, <1>2 DEF VMInv
  <2> QED BY <1>0, <1>2, <2>1, WorldMoves
<1>3. CASE Machine!LimaScripts
  <2>1. guest' = [guest EXCEPT !.phase = "ours"] /\ guest.phase = "lima" /\ disk' = disk
        /\ vm' = [vm EXCEPT !.socket = TRUE]
    BY <1>3 DEF Machine!LimaScripts, Machine!Phase
  <2>2. vm' \in VMs /\ vm'.status = vm.status /\ vm'.rec = vm.rec
    BY <1>0, <2>1 DEF VMs
  <2>3. guest' \in Guests /\ guest'.phase = "ours" /\ guest'.report = guest.report
    BY <1>0, <2>1 DEF Guests
  <2> QED BY <1>0, <1>2, <2>1, <2>2, <2>3 DEF Reported
<1>4. CASE Machine!NarrowSudo
  <2>1. guest.phase = "ours" /\ booted["wall"] # -1 /\ UNCHANGED <<vm, disk>>
        /\ guest' = [guest EXCEPT !.phase = "granted", !.narrow = TRUE]
    BY <1>4 DEF Machine!NarrowSudo, Machine!Unrecorded
  <2>2. guest' \in Guests /\ guest'.phase = "granted" /\ guest'.narrow /\ guest'.report = guest.report
    BY <1>0, <2>1 DEF Guests
  <2> QED BY <1>0, <1>2, <2>1, <2>2 DEF Reported
<1>5. CASE Machine!MaskRootful
  <2> DEFINE m == disk.masked \/ booted.wall > 0
  <2>1. guest.phase = "granted" /\ vm' = vm
        /\ guest' = [guest EXCEPT !.phase = "masked"] /\ disk' = [disk EXCEPT !.masked = m]
    BY <1>5 DEF Machine!MaskRootful, Machine!Phase
  <2>2. m \in BOOLEAN /\ (disk.masked => m)
    BY <1>0 DEF Disks
  <2> HIDE DEF m
  <2>3. disk' \in Disks /\ (disk.masked => disk'.masked)
    BY <1>0, <2>1, <2>2 DEF Disks
  <2>4. guest' \in Guests /\ guest'.phase = "masked" /\ guest'.narrow = guest.narrow
        /\ guest'.report = guest.report
    BY <1>0, <2>1 DEF Guests
  <2> QED BY <1>0, <1>2, <2>1, <2>3, <2>4 DEF Reported
<1>6. CASE Machine!WriteRules
  <2>1. guest.phase = "masked" /\ vm' = vm
        /\ guest' = [guest EXCEPT !.phase = "written"] /\ disk' = [disk EXCEPT !.wall = booted["wall"]]
    BY <1>6 DEF Machine!WriteRules, Machine!Phase
  <2>2. disk' \in Disks /\ disk'.masked = disk.masked
    BY <1>0, <1>1, <2>1 DEF Disks
  <2>3. guest' \in Guests /\ guest'.phase = "written" /\ guest'.narrow = guest.narrow
        /\ guest'.report = guest.report
    BY <1>0, <2>1 DEF Guests
  <2> QED BY <1>0, <1>2, <2>1, <2>2, <2>3 DEF Reported
<1>7. CASE Machine!RestartUnit
  <2>1. guest.phase = "written" /\ UNCHANGED <<vm, disk>>
        /\ guest' = [guest EXCEPT !.phase = "ruled", !.wall = booted["wall"]]
    BY <1>7 DEF Machine!RestartUnit
  <2>2. guest' \in Guests /\ guest'.phase = "ruled" /\ guest'.narrow = guest.narrow
        /\ guest'.report = guest.report /\ guest'.wall = booted["wall"]
    BY <1>0, <1>1, <2>1 DEF Guests
  <2> QED BY <1>0, <1>2, <2>1, <2>2 DEF Reported
<1>8. CASE Machine!Uninstall
  <2>1. guest.phase = "masked" /\ vm' = vm /\ booted["wall"] = 0
        /\ guest' = [guest EXCEPT !.phase = "ruled", !.wall = booted["wall"]]
        /\ disk' = [disk EXCEPT !.wall = booted["wall"]]
    BY <1>8 DEF Machine!Uninstall
  <2>2. disk' \in Disks /\ disk'.masked = disk.masked
    BY <1>0, <1>1, <2>1 DEF Disks
  <2>3. guest' \in Guests /\ guest'.phase = "ruled" /\ guest'.narrow = guest.narrow
        /\ guest'.report = guest.report /\ guest'.wall = booted["wall"]
    BY <1>0, <1>1, <2>1 DEF Guests
  <2> QED BY <1>0, <1>2, <2>1, <2>2, <2>3 DEF Reported
<1>9. CASE Machine!ReportState
  <2> DEFINE r == Machine!Report(booted.wall)
  <2>1. guest.phase = "ruled" /\ UNCHANGED <<vm, disk>>
        /\ guest' = [guest EXCEPT !.phase = "done", !.report = r]
    BY <1>9 DEF Machine!ReportState
  <2>2. r \in {"on", "off"}
    BY DEF Machine!Report
  <2> HIDE DEF r
  <2>3. guest' \in Guests /\ guest'.phase = "done" /\ guest'.narrow = guest.narrow
        /\ guest'.wall = guest.wall
    BY <1>0, <2>1, <2>2 DEF Guests
  <2> QED BY <1>0, <1>2, <2>1, <2>3 DEF Reported
<1>10. CASE Machine!BootFails
  <2>1. guest.phase # "done" /\ UNCHANGED <<vm, disk>> /\ guest' = [guest EXCEPT !.phase = "done"]
    BY <1>10 DEF Machine!BootFails
  <2>2. guest' \in Guests /\ guest'.phase = "done" /\ guest'.report = guest.report
        /\ guest'.wall = guest.wall
    BY <1>0, <2>1 DEF Guests
  <2> QED BY <1>0, <1>2, <2>1, <2>2 DEF Reported
<1>11. CASE Machine!ForwarderBoots
  <2>1. PICK f \in {"serving", "failed"} : guest' = [guest EXCEPT !.forwarder = f]
    BY <1>11 DEF Machine!ForwarderBoots
  <2>2. UNCHANGED <<vm, disk>>
    BY <1>11 DEF Machine!ForwarderBoots
  <2>3. guest' \in Guests /\ guest'.phase = guest.phase /\ guest'.report = guest.report
        /\ guest'.wall = guest.wall /\ guest'.narrow = guest.narrow
    BY <1>0, <2>1 DEF Guests
  <2> QED BY <1>0, <1>2, <2>2, <2>3 DEF Reported
<1> QED BY <1>3, <1>4, <1>5, <1>6, <1>7, <1>8, <1>9, <1>10, <1>11 DEF Machine!Boot

(* What happens to the VM, the computer and the terminals.                 *)
LEMMA HappensStep ==
  ASSUME MachineInv, Machine!Happens
  PROVE  MachineInv'
<1>0. /\ VMInv /\ vm \in VMs /\ guest \in Guests /\ disk \in Disks /\ booted \in [Kinds -> Int]
      /\ boots \in Nat /\ Reported(booted, guest) /\ computer \in Computers /\ adopted \in Configs
  BY DEF MachineInv, VMInv
<1>1. Machine!Stopped \in VMs /\ Machine!Stopped.status = "stopped" /\ Machine!Stopped.rec = vm.rec
  BY <1>0 DEF Machine!Stopped, VMs
<1>2. CASE Machine!VMFails
  <2>1. /\ vm.status = "running" /\ UNCHANGED <<adopted, booted, disk, boots, computer, cmd>>
        /\ guest' \in {guest, Machine!NoGuest}
    BY <1>2 DEF Machine!VMFails
  <2>2. /\ vm' \in VMs /\ vm'.rec = vm.rec /\ (vm'.status = "running" => guest' = guest)
    <3>1. CASE vm' = [vm EXCEPT !.socket = FALSE] /\ UNCHANGED guest
      BY <1>0, <3>1 DEF VMs
    <3>2. CASE vm' = [vm EXCEPT !.status = "broken", !.socket = FALSE] /\ UNCHANGED guest
      BY <1>0, <3>2 DEF VMs
    <3>3. CASE \E agent \in BOOLEAN : vm' = [Machine!Stopped EXCEPT !.agent = agent] /\ guest' = Machine!NoGuest
      BY <1>1, <3>3 DEF VMs
    <3> QED BY <1>2, <3>1, <3>2, <3>3 DEF Machine!VMFails
  <2>3. VMInv'
    BY <1>0, <2>1, <2>2, NewVM DEF VMInv, Reported
  <2> QED BY <1>0, <2>1, <2>2, <2>3, WorldMoves
<1>3. CASE Machine!GuestReboots
  <2>1. /\ vm.status = "running" /\ UNCHANGED <<adopted, booted, disk, computer, cmd>>
        /\ guest' = Machine!PowerOn(booted) /\ vm' = [vm EXCEPT !.socket = FALSE] /\ boots' = boots + 1
    BY <1>3 DEF Machine!GuestReboots
  <2>2. vm' \in VMs /\ vm'.rec = vm.rec /\ vm'.status = vm.status
    BY <1>0, <2>1 DEF VMs
  <2>3. guest' \in Guests /\ guest'.phase = "lima" /\ guest'.report = "none"
    BY <1>0, <2>1, PowersOn
  <2>4. VMInv'
    BY <1>0, <2>1, <2>2, <2>3 DEF VMInv, Reported
  <2>5. boots' >= boots /\ boots' # boots
    BY <1>0, <2>1
  <2> QED BY <2>1, <2>2, <2>4, <2>5, WorldMoves
<1>4. CASE Machine!HostReboots
  <2>1. /\ vm' = IF vm.status = "none" THEN vm ELSE Machine!Stopped
        /\ guest' = Machine!NoGuest /\ UNCHANGED <<adopted, booted, disk, boots>>
        /\ cmd' = [s \in Terminals |-> Machine!Idle]
    BY <1>4 DEF Machine!HostReboots
  <2>2. PICK t \in {FALSE, computer.table} :
          computer' = [computer EXCEPT !.table = t, !.supervisor = FALSE]
    BY <1>4 DEF Machine!HostReboots
  <2>3. computer' \in Computers
    BY <1>0, <2>2 DEF Computers
  <2>4. vm' \in VMs /\ vm'.rec = vm.rec /\ vm'.status # "running"
    BY <1>0, <1>1, <2>1
  <2>5. VMInv'
    BY <1>0, <2>1, <2>3, <2>4, NewVM DEF VMInv, Reported
  <2>6. Counts(Machine!Idle, vm', booted', guest', disk', boots')
    BY <1>0, <2>1, IdleVerb DEF Counts
  <2> QED BY <2>1, <2>5, <2>6 DEF MachineInv
<1>5. CASE Machine!RootLoads
  <2>1. UNCHANGED <<adopted, vm, booted, guest, disk, boots, cmd>> /\ computer' \in Computers
    BY <1>0, <1>5 DEF Machine!RootLoads, Computers
  <2> QED BY <2>1, <1>0 DEF MachineInv, VMInv
<1>6. CASE Machine!Adopt
  <2>1. UNCHANGED <<vm, booted, guest, disk, boots, computer, cmd>> /\ adopted' \in Configs
    BY <1>6 DEF Machine!Adopt
  <2> QED BY <2>1, <1>0 DEF MachineInv, VMInv
<1>7. CASE Machine!Killed
  <2>1. PICK s \in Terminals : cmd' = [cmd EXCEPT ![s] = Machine!Idle]
    BY <1>7 DEF Machine!Killed
  <2>2. UNCHANGED <<adopted, vm, booted, guest, disk, boots, computer>>
    BY <1>7 DEF Machine!Killed
  <2>3. Counts(Machine!Idle, vm, booted, guest, disk, boots)
    BY <1>0, IdleVerb DEF Counts
  <2> QED BY <1>0, <2>1, <2>2, <2>3, VerbGoesOn
<1> QED BY <1>2, <1>3, <1>4, <1>5, <1>6, <1>7 DEF Machine!Happens, Machine!Event

LEMMA MachineInvInit == Machine!Init => MachineInv
<1> SUFFICES ASSUME Machine!Init PROVE MachineInv
  OBVIOUS
<1> DEFINE old == [Machine!Created EXCEPT !.rec.mounts = 0]
<1>1. old \in VMs /\ old.status = "stopped"
  <2>1. Machine!Created.rec \in [Kinds -> Int]
    BY NewVM DEF VMs
  <2> DEFINE rec == [Machine!Created.rec EXCEPT !["mounts"] = 0]
  <2>2. rec \in [Kinds -> Int]
    BY <2>1, 0 \in Int
  <2>3. old = [Machine!Created EXCEPT !.rec = rec]
    BY NewVM DEF VMs
  <2> HIDE DEF rec
  <2> QED BY <2>2, <2>3, NewVM DEF VMs
<1>2. vm \in {Machine!NoVM, old}
  BY DEF Machine!Init
<1> HIDE DEF old
<1>3. vm \in VMs /\ vm.status # "running" /\ vm.rec \in [Kinds -> Int]
  BY <1>1, <1>2, NewVM DEF VMs
<1>4. /\ adopted \in Configs /\ booted = vm.rec /\ guest = Machine!NoGuest /\ disk = Machine!FreshDisk
      /\ boots = 0 /\ computer \in Computers /\ cmd = [s \in Terminals |-> Machine!Idle]
  BY DEF Machine!Init, Computers
<1>5. VMInv
  BY <1>3, <1>4, NewVM DEF VMInv, Reported
<1>6. Counts(Machine!Idle, vm, booted, guest, disk, boots)
  BY <1>4, IdleVerb DEF Counts
<1> QED BY <1>4, <1>5, <1>6 DEF MachineInv

LEMMA MachineInvNext == MachineInv /\ [Machine!Next]_(Machine!vars) => MachineInv'
<1> SUFFICES ASSUME MachineInv, [Machine!Next]_(Machine!vars) PROVE MachineInv'
  OBVIOUS
<1>1. CASE UNCHANGED Machine!vars
  BY <1>1 DEF Machine!vars, MachineInv, VMInv
<1>2. CASE Machine!Boot
  BY <1>2, BootStep
<1>3. CASE Machine!Happens
  BY <1>3, HappensStep
<1>4. ASSUME NEW s \in Terminals, Machine!Command(s) PROVE MachineInv'
  <2>1. CASE Machine!Exists(s)
    <3>1. CASE vm.status = "none"
      BY <2>1, <3>1, CreateStep DEF Machine!Exists
    <3>2. CASE vm.status # "none"
      BY <2>1, <3>2, QuietStep
    <3> QED BY <3>1, <3>2
  <2>2. CASE Machine!Recreate(s)
    <3>1. CASE vm.status = "none"
      BY <2>2, <3>1, CreateStep DEF Machine!Recreate
    <3>2. CASE vm.status # "none"
      BY <2>2, <3>2, FailGoesOn DEF Machine!Recreate, Machine!Create, Machine!Fixed
    <3> QED BY <3>1, <3>2
  <2> QED BY <1>4, <2>1, <2>2, QuietStep, RecordStep, ReviveStep, StartStep, CheckGuestStep,
             LookFirstStep, HaltStep, RemoveStep DEF Machine!Command
<1> QED BY <1>1, <1>2, <1>3, <1>4 DEF Machine!Next

LEMMA MachineInvHolds == Machine!Spec => []MachineInv
BY MachineInvInit, MachineInvNext, PTL DEF Machine!Spec

(* A `fy up` or `fy machine recreate` that went through left a VM whose    *)
(* boot applied what that verb's config records, for as long as that boot  *)
(* lasts and no verb recorded another wall meanwhile: for any number of    *)
(* terminals, verbs, mishaps and configs (machine.py ensure).              *)
THEOREM UpLeavesWhatItRecorded == Machine!Spec => []UpOnlyOnTheRecorded
<1>1. MachineInv => UpOnlyOnTheRecorded
  BY DEF MachineInv, VMInv, Counts, Brings, Applies, Reported, UpOnlyOnTheRecorded,
         Machine!UpOnlyOnTheRecorded, Machine!At
<1> QED BY <1>1, MachineInvHolds, PTL

(* A machine verb stops the supervisor only when the VM is down, unless it *)
(* was started again since the verb looked or the verb's listing failed    *)
(* (machine.py _stop_host_supervisor): for the same.                       *)
THEOREM VMHasItsSupervisor == Machine!Spec => SupervisorOutlivesVM
<1>1. MachineInv =>
        \A s \in Terminals : Machine!At(s, "supervisor") =>
          vm.status # "running" \/ boots # cmd[s].boot \/ cmd[s].blind
  BY DEF MachineInv, Counts, Machine!At
<1>2. MachineInv /\ [Machine!Next]_(Machine!vars) =>
        [ \A s \in Terminals :
            Machine!At(s, "supervisor") /\ computer.supervisor /\ ~computer'.supervisor
              /\ cmd'[s].pc = "ok" =>
              vm.status # "running" \/ boots # cmd[s].boot \/ cmd[s].blind ]_(Machine!vars)
  BY <1>1
<1> QED BY <1>2, MachineInvHolds, PTL DEF Machine!Spec, SupervisorOutlivesVM, Machine!SupervisorOutlivesVM

=============================================================================
