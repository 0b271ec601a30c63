--------------------------- MODULE AdoptedConfig ---------------------------
(***************************************************************************)
(* What adopting promises: the host runs nothing for a checkout, or one    *)
(* whole file set, which only an adoption replaces and only forgetting the *)
(* checkout drops.  A checkout whose adoptions crossed one another promises *)
(* nothing any more.                                                       *)
(***************************************************************************)
CONSTANTS Checkouts, FileSet, Nothing

VARIABLES
  runs,  \* what the host runs for each checkout
  was,   \* the file sets each checkout's adoptions were of
  lost   \* checkouts that are promised nothing

Init ==
  /\ runs \in [Checkouts -> FileSet \cup {Nothing}]
  /\ was = [c \in Checkouts |-> {runs[c]} \ {Nothing}]
  /\ lost = {}

Adopt(c) ==
  /\ c \notin lost
  /\ \E files \in FileSet :
       /\ runs' = [runs EXCEPT ![c] = files]
       /\ was' = [was EXCEPT ![c] = @ \cup {files}]
  /\ UNCHANGED lost

Drop(c) ==
  /\ c \notin lost
  /\ runs' = [runs EXCEPT ![c] = Nothing]
  /\ UNCHANGED <<was, lost>>

Lose(c) ==
  /\ lost' = lost \cup {c}
  /\ runs' = [runs EXCEPT ![c] = Nothing]
  /\ was' = [was EXCEPT ![c] = {}]

Next == \E c \in Checkouts : Adopt(c) \/ Drop(c) \/ Lose(c)

Spec == Init /\ [][Next]_<<runs, was, lost>>
=============================================================================
