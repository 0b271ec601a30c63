----------------------------- MODULE Forwarder -----------------------------
(***************************************************************************)
(* A connection through the attributing forwarder: who it is stamped with, *)
(* how it is relayed to the proxy on the host and closed, and what the     *)
(* proxy logs it under.  One is enough: connections share nothing.  Data   *)
(* is counted in requests.                                                 *)
(***************************************************************************)
EXTENDS Integers, FiniteSets

CONSTANTS MaxRequests, MaxDials      \* bounds

(* Who connects from the VM's own namespace.                               *)
Senders == {"container", "build", "vm", "pasta"}

VARIABLES
  conn,          \* the client, the forwarder and the proxy
  key            \* the host's key file still holds what the guest's boot was given

vars == <<conn, key>>

NoConn == [pc |-> "none", who |-> "", proxied |-> TRUE, dials |-> 0, stamp |-> "",
           client |-> "open", proxy |-> "open", sent |-> 0, read |-> 0, given |-> 0, acked |-> 0,
           ends |-> {}, upstreamDone |-> FALSE, fin |-> "no", hostFirst |-> FALSE, late |-> FALSE,
           asked |-> 0, origin |-> "", rows |-> {}]

Init == conn = NoConn /\ key = TRUE

-----------------------------------------------------------------------------
(* A connection is accepted and attributed.                                *)

Now(c) == conn' = c /\ key' = key
Over == [conn EXCEPT !.pc = "gone"]

(* The redirect of the rootless namespace leads to the bridge listener,    *)
(* that of the VM's to the other; one that dialled them itself is refused. *)
Accept ==
  /\ conn.pc = "none"
  /\ \E p \in BOOLEAN, n \in 1..MaxRequests :
       LET new == [NoConn EXCEPT !.proxied = p, !.sent = n]
       IN  \/ Now([new EXCEPT !.pc = "gone"])
           \/ Now([new EXCEPT !.pc = "head", !.who = "ctr", !.stamp = "ctr"])
           \/ \E w \in Senders : Now([new EXCEPT !.pc = "owner", !.who = w])
 

(* The cgroup of the socket's owner; pasta's is a process's like any other. *)
Cgroup(who) == CASE who = "container" -> "libpod" [] who = "build" -> "buildah" [] OTHER -> "session"
Classify(path) == CASE path = "libpod" -> "container" [] path = "buildah" -> "build" [] OTHER -> "vm"

Owner(who) ==
  LET kind == Classify(Cgroup(who))
  IN  IF kind = "vm" /\ who = "pasta" THEN "pasta" ELSE kind

(* Mutant: the process is not looked at.                                   *)
Attribute_ByCgroup ==
  /\ conn.pc = "owner"
  /\ Now([conn EXCEPT !.pc = "head", !.stamp = Classify(Cgroup(conn.who))])
Attribute ==
  /\ conn.pc = "owner"
  /\ \/ Owner(conn.who) # "pasta" /\ Now([conn EXCEPT !.pc = "head", !.stamp = Owner(conn.who)])
     \/ Owner(conn.who) = "pasta" /\ Now(Over)
     \/ Now(Over)                    \* the socket or its process has gone
 

(* The head of the first request, on a proxy port; what the client claims  *)
(* there is taken out.  A head that does not come or is no request's ends  *)
(* the connection.                                                         *)
Head ==
  /\ conn.pc = "head"
  /\ \/ ~conn.proxied /\ Now([conn EXCEPT !.pc = "dial"])
     \/ conn.proxied /\ conn.sent > 0 /\ Now([conn EXCEPT !.pc = "dial", !.read = 1])
     \/ conn.proxied /\ Now(Over)
 

(* A connect that is not answered is dialled again; an error is an answer. *)
Dial ==
  /\ conn.pc = "dial"
  /\ \/ Now([conn EXCEPT !.pc = "splice"])
     \/ Now(Over)
     \/ conn.dials + 1 < MaxDials /\ Now([conn EXCEPT !.dials = @ + 1])
 

-----------------------------------------------------------------------------
(* Two coroutines copy, each until its side has ended.                     *)

Splicing == conn.pc = "splice"
Copies(way) == Splicing /\ way \notin conn.ends

ReadClient ==
  /\ Copies("up") /\ conn.read < conn.sent
  /\ Now([conn EXCEPT !.read = @ + 1])

(* What was read waits in the transport until the kernel takes it, and     *)
(* there until the other end acknowledges it.                              *)
Flush ==
  /\ conn.pc \in {"splice", "closing"} /\ conn.given < conn.read /\ conn.given = conn.acked
  /\ Now([conn EXCEPT !.given = @ + 1])

Acknowledge ==
  /\ conn.pc \in {"splice", "closing"} /\ conn.acked < conn.given /\ conn.proxy # "reset"
  /\ Now([conn EXCEPT !.acked = @ + 1])

(* The client's end is passed on as a FIN unless the proxy's came first.   *)
UpEnds == (conn.client = "eof" /\ conn.read = conn.sent) \/ conn.client = "reset" \/ conn.proxy = "reset"

(* Mutant: it is passed on whatever came first.                            *)
ToUpstream_Ends ==
  /\ Copies("up") /\ UpEnds
  /\ Now([conn EXCEPT !.ends = @ \cup {"up"}, !.fin = "sent"])
ToUpstream ==
  /\ Copies("up") /\ UpEnds
  /\ Now([conn EXCEPT !.ends = @ \cup {"up"}, !.fin = IF conn.upstreamDone THEN "no" ELSE "sent"])
 

ToClient ==
  /\ Copies("cl")
  /\ \/ /\ conn.proxy = "eof"
        /\ Now([conn EXCEPT !.ends = @ \cup {"cl"}, !.upstreamDone = TRUE,
                  !.hostFirst = "up" \notin conn.ends])
     \/ /\ conn.proxy = "reset" \/ conn.client = "reset"
        /\ Now([conn EXCEPT !.ends = @ \cup {"cl"}])
 

(* Both have ended.  If the proxy's end came first the close waits for     *)
(* what the kernel still holds, and then resets; a wait that is too long   *)
(* ends in a FIN.                                                          *)
Drain ==
  /\ Splicing /\ conn.ends = {"up", "cl"} /\ conn.upstreamDone /\ conn.fin = "no"
  /\ Now([conn EXCEPT !.pc = "closing"])

Close ==
  \/ /\ Splicing /\ conn.ends = {"up", "cl"} /\ ~(conn.upstreamDone /\ conn.fin = "no")
     /\ Now([conn EXCEPT !.pc = "gone", !.fin = "sent"])
  \/ /\ conn.pc = "closing" /\ conn.given = conn.acked
     /\ Now([conn EXCEPT !.pc = "gone", !.fin = "rst"])
  \/ /\ conn.pc = "closing" /\ conn.given > conn.acked
     /\ Now([conn EXCEPT !.pc = "gone", !.fin = "sent", !.late = TRUE])

Relay ==
  \/ Accept \/ Attribute \/ Head \/ Dial
  \/ ReadClient \/ Flush \/ Acknowledge \/ ToUpstream \/ ToClient \/ Drain \/ Close

-----------------------------------------------------------------------------
(* The two ends.  A client goes with its namespace, and at will.           *)

Open == conn.pc \notin {"none", "gone"}

ClientEnds ==
  /\ Open /\ conn.client = "open"
  /\ \E e \in {"eof", "reset"} : Now([conn EXCEPT !.client = e])

ProxyEnds ==
  /\ Splicing /\ conn.proxy # "reset"
  /\ \E e \in {"eof", "reset"} : Now([conn EXCEPT !.proxy = e])

(* _verify_origin: one stamp that verifies under the host's key.           *)
Verify(stamp) == IF stamp = "" THEN "unattributed" ELSE IF stamp = "claim" \/ ~key THEN "forged" ELSE stamp

(* _bind_origin: the connection's first request says whose it is, for all; *)
(* a later one may bring a claim of the client's.                          *)
(* Mutant: each request says it for itself.                                *)
Origin_Latest(claim) == Verify(IF conn.asked = 0 THEN conn.stamp ELSE claim)
Origin(claim) == IF conn.asked = 0 THEN Verify(conn.stamp) ELSE conn.origin

Serve ==
  /\ Splicing /\ conn.proxied /\ conn.asked < conn.acked /\ conn.proxy # "reset"
  /\ \E claim \in {"", "claim"} :
       Now([conn EXCEPT !.asked = @ + 1, !.origin = Origin(claim), !.rows = @ \cup {Origin(claim)}])
 

(* The host's key is made again, by a `fy' that cannot read it.            *)
KeyMadeAgain == key /\ key' = FALSE /\ UNCHANGED conn

Next == Relay \/ ClientEnds \/ ProxyEnds \/ Serve \/ KeyMadeAgain

Spec == Init /\ [][Next]_vars

-----------------------------------------------------------------------------
(* What the proxy logs for a request of a connection names who opened it,  *)
(* whatever the client's requests claim; at worst it is marked forged,     *)
(* after the host's key changed (egress_proxy.py _bind_origin).            *)
RowsNameTheSender ==
  \A r \in conn.rows : r = conn.who \/ (r = "forged" /\ ~key)

(* A connection whose upstream end was read first is not closed with a FIN *)
(* (it would leave a TIME_WAIT on the host), unless what was owed stayed   *)
(* unacknowledged or the proxy reset it (fwd.py relay).                    *)
HostFirstGetsNoFin ==
  conn.hostFirst /\ conn.fin = "sent" => conn.late \/ conn.proxy = "reset"

(* Not so: a reset discards nothing that is owed.  StreamWriter.drain      *)
(* returns with bytes still in the transport, and the kernel's queue may   *)
(* be empty just then (fwd.py:520).                                        *)
ResetLosesNothing == conn.fin = "rst" => conn.acked = conn.read
=============================================================================
