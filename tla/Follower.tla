------------------------------ MODULE Follower ------------------------------
(***************************************************************************)
(* How the attributing forwarder keeps a listener in the rootless network  *)
(* namespace, which goes with the last bridge container and comes back     *)
(* with the next.  A namespace is a generation and an inode; the inode of  *)
(* one that is freed may be given to the next.                             *)
(***************************************************************************)
EXTENDS Integers, FiniteSets

CONSTANTS
  Inodes,        \* what the kernel may number a namespace with
  MaxSpaces, MaxFaults      \* bounds

VARIABLES
  space,         \* the rootless namespace at its path
  spaces,        \* how many there have been
  loaded,        \* the namespaces with the redirect
  server,        \* the namespace the bridge listener stands in
  follower,      \* the follower's tick and what it remembers
  file,          \* /run/fy-fwd/netns
  faults

vars == <<space, spaces, loaded, server, follower, file, faults>>

NoSpace == [gen |-> 0, ino |-> 0]
Fault == faults < MaxFaults /\ faults' = faults + 1
Fine == faults' = faults

(* `unannounced' and `slipped' are history: the file could not be written, *)
(* the namespace was not the one looked at any more.                       *)
Idle == [pc |-> "idle", cur |-> 0, held |-> 0, announced |-> 0, seen |-> 0,
         slipped |-> FALSE, unannounced |-> FALSE]

Init ==
  /\ space = NoSpace /\ spaces = 0 /\ loaded = {} /\ server = NoSpace
  /\ follower = Idle /\ file = 0 /\ faults = 0

(* An inode in use is the path's or the one the listener keeps alive.      *)
SpaceMade ==
  /\ space = NoSpace /\ spaces < MaxSpaces
  /\ \E i \in Inodes \ {server.ino} : space' = [gen |-> spaces + 1, ino |-> i]
  /\ spaces' = spaces + 1
  /\ UNCHANGED <<loaded, server, follower, file, faults>>

SpaceGone ==
  /\ space # NoSpace /\ space' = NoSpace
  /\ UNCHANGED <<spaces, loaded, server, follower, file, faults>>

Announce(f, i) ==
  \/ Fine /\ file' = i /\ follower' = [f EXCEPT !.announced = i]
  \/ Fault /\ file' = file /\ follower' = [f EXCEPT !.unannounced = TRUE]

(* A tick that finds no namespace says so once, and keeps its listener.    *)
LookNone ==
  /\ follower.pc = "idle" /\ follower.announced # -1
  /\ space = NoSpace
  /\ Announce(follower, -1)
  /\ UNCHANGED <<space, spaces, loaded, server>>

(* The same when the pause process or the path is not to be read.          *)
LookBlind ==
  /\ follower.pc = "idle" /\ follower.announced # -1
  /\ space # NoSpace
  /\ Fault /\ file' = -1 /\ follower' = [follower EXCEPT !.announced = -1]
  /\ UNCHANGED <<space, spaces, loaded, server>>

(* A namespace whose inode it does not hold is one to follow.              *)
Look ==
  /\ follower.pc = "idle" /\ space # NoSpace /\ space.ino # follower.held
  /\ follower' = [follower EXCEPT !.pc = "load", !.cur = space.ino, !.seen = space.gen]
  /\ UNCHANGED <<space, spaces, loaded, server, file, faults>>

Failed == follower' = [follower EXCEPT !.pc = "idle"]

(* load(): nft in whatever namespace the path leads to now.                *)
Load ==
  /\ follower.pc = "load"
  /\ \/ /\ space # NoSpace /\ loaded' = loaded \cup {space.gen} /\ Fine
        /\ follower' = [follower EXCEPT !.pc = "listen"]
     \/ space = NoSpace /\ Failed /\ Fine /\ UNCHANGED loaded
     \/ Fault /\ Failed /\ UNCHANGED loaded
  /\ UNCHANGED <<space, spaces, server, file>>

(* The listener: in the namespace of this moment, where its own may stand  *)
(* already.  Then the old one is closed.                                   *)
Listen ==
  /\ follower.pc = "listen"
  /\ IF space = NoSpace \/ server = space
     THEN Failed /\ UNCHANGED server
     ELSE /\ server' = space
          /\ follower' = [follower EXCEPT !.pc = "put", !.held = follower.cur,
                            !.slipped = follower.slipped \/ space.gen # follower.seen]
  /\ UNCHANGED <<space, spaces, loaded, file, faults>>

Put ==
  /\ follower.pc = "put"
  /\ Announce([follower EXCEPT !.pc = "idle"], follower.cur)
  /\ UNCHANGED <<space, spaces, loaded, server>>

Next == SpaceMade \/ SpaceGone \/ LookNone \/ LookBlind \/ Look \/ Load \/ Listen \/ Put

Spec == Init /\ [][Next]_vars

-----------------------------------------------------------------------------
(* A namespace whose inode the follower holds is one its listener stands   *)
(* in: the listener keeps the namespace it leaves alive until then, so its *)
(* inode cannot come back as another's.  The same inode announced is one   *)
(* a container may start on (fwd.py Follower, wait.sh).                    *)
SoundInodes ==
  /\ space # NoSpace /\ space.ino = follower.held => server = space /\ space.gen \in loaded
  /\ space # NoSpace /\ space.ino = file /\ file = follower.announced /\ ~follower.unannounced
       /\ follower.pc = "idle" => server = space

(* It is so unless the namespace was another one by the time the listener  *)
(* was made: the follower goes by the inode it looked at (fwd.py:721), the *)
(* redirect and the listener by the path.                                  *)
UnslippedInodes == ~follower.slipped => SoundInodes
=============================================================================
