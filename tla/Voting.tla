------------------------------ MODULE Voting ------------------------------
(***************************************************************************)
(* What a three-chain protocol must promise about its votes for committed  *)
(* blocks to agree: chained HotStuff without its messages, views, buffers  *)
(* and block stores.  The state is the votes each replica has ever cast.   *)
(***************************************************************************)
EXTENDS Blockchain

CONSTANT Replicas

VARIABLE voted      \* voted[r]: the blocks replica r has voted for

Block == {b \in Seq(Nat) : \A i, j \in 1 .. Len(b) : b[i] > 0 /\ (i < j => b[i] < b[j])}

Voters(b)    == {r \in Replicas : b \in voted[r]}
Certified(b) == Cardinality(Voters(b)) >= ByzNo * 2 + 1

(* Whoever votes for b has seen the QC of its parent, and is locked on the *)
(* parent of that.                                                         *)
LockOf(b) == IF Len(b) < 3 THEN 0 ELSE View(Parent(Parent(b)))

(* Of two votes of one replica, the one in the later view does not go      *)
(* below the lock of the other one.                                        *)
Respects(b, c) == View(c) < View(b) => View(Parent(b)) >= LockOf(c)

VotesSafe ==
  \A r \in Replicas : \A b \in voted[r] :
    /\ Parent(b) # Genesis => Certified(Parent(b))
    /\ \A c \in voted[r] : Respects(b, c)
    /\ \A q \in Replicas : \A c \in voted[q] : View(c) = View(b) => c = b

Init == voted = [r \in Replicas |-> {}]

(* Replica r votes; one event may cast several votes, for blocks that were *)
(* buffered.                                                               *)
Vote(r) ==
  /\ voted[r] \subseteq voted'[r] /\ voted[r] # voted'[r]
  /\ voted'[r] \subseteq Block
  /\ voted' = [voted EXCEPT ![r] = voted'[r]]
  /\ VotesSafe'

Next == \E r \in Replicas : Vote(r)

Spec == Init /\ [][Next]_voted

(* Three certified blocks of consecutive views commit the first. *)
Committed(c) ==
  LET c1 == Append(c, View(c) + 1)
      c2 == Append(c1, View(c) + 2)
  IN  c \in Block \ {Genesis} /\ Certified(c) /\ Certified(c1) /\ Certified(c2)

(* Any two committed blocks extend one another. *)
Agreement ==
  \A a, b \in Block : Committed(a) /\ Committed(b) => Extends(a, b) \/ Extends(b, a)
=============================================================================
