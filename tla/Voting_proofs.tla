--------------------------- MODULE Voting_proofs ---------------------------
(***************************************************************************)
(* Three-chain commits agree whenever the votes obey Voting: for every set *)
(* of replicas in which two quorums intersect and for all trees of blocks. *)
(***************************************************************************)
EXTENDS Voting, FiniteSetTheorems, SequenceTheorems, WellFoundedInduction, TLAPS

(* Zenon proves a step that names no prover; SMTT(20) sends one to the SMT solver. *)
USE ZenonT(20)

(* Two quorums have a replica in common: config.N() is below twice the     *)
(* 2 * ByzNo + 1 votes of Quorum.superMajority.                            *)
QuorumsIntersect ==
  /\ IsFiniteSet(Replicas)
  /\ Cardinality(Replicas) < 2 * (ByzNo * 2 + 1)

TypeOK == voted \in [Replicas -> SUBSET Block]

-----------------------------------------------------------------------------
(* Blocks as chains of views *)

(* The first n views of a chain.                                           *)
LEMMA PrefixFacts ==
  ASSUME NEW b \in Seq(Nat), NEW n \in 0 .. Len(b)
  PROVE  /\ SubSeq(b, 1, n) \in Seq(Nat)
         /\ Len(SubSeq(b, 1, n)) = n
         /\ \A i \in 1 .. n : SubSeq(b, 1, n)[i] = b[i]
<1>1. Len(b) \in Nat /\ \A i \in 1 .. n : b[i] \in Nat
  BY SMTT(20), LenProperties, ElementOfSeq
<1> QED BY SMTT(20), <1>1, SubSeqProperties

(* A block made on a is a block whose parent is a.                         *)
LEMMA AppendFacts ==
  ASSUME NEW a \in Seq(Nat), NEW v \in Nat
  PROVE  /\ Append(a, v) \in Seq(Nat)
         /\ Append(a, v) # Genesis
         /\ Parent(Append(a, v)) = a
         /\ View(Append(a, v)) = v
         /\ Len(Append(a, v)) = Len(a) + 1
  BY SMTT(20) DEF Parent, View, Genesis

(* The parent of a block is a block of an earlier view.                    *)
LEMMA ParentFacts ==
  ASSUME NEW b \in Block, b # Genesis
  PROVE  /\ Len(b) \in Nat /\ Len(b) > 0
         /\ Parent(b) \in Block
         /\ Len(Parent(b)) = Len(b) - 1
         /\ View(b) \in Nat \ {0} /\ View(Parent(b)) \in Nat
         /\ View(Parent(b)) < View(b)
<1>1. b \in Seq(Nat) /\ Len(b) \in Nat /\ Len(b) > 0 /\ Len(b) - 1 \in 0 .. Len(b)
  BY SMTT(20), EmptySeq DEF Block, Genesis
<1>2. /\ Parent(b) \in Seq(Nat) /\ Len(Parent(b)) = Len(b) - 1
      /\ \A i \in 1 .. Len(b) - 1 : Parent(b)[i] = b[i]
  BY <1>1, PrefixFacts DEF Parent
<1>3. \A i, j \in 1 .. Len(b) : b[i] > 0 /\ (i < j => b[i] < b[j])
  BY DEF Block
<1>4. Parent(b) \in Block
  <2>1. \A i, j \in 1 .. Len(Parent(b)) :
          Parent(b)[i] > 0 /\ (i < j => Parent(b)[i] < Parent(b)[j])
    <3> SUFFICES ASSUME NEW i \in 1 .. Len(b) - 1, NEW j \in 1 .. Len(b) - 1
                 PROVE  Parent(b)[i] > 0 /\ (i < j => Parent(b)[i] < Parent(b)[j])
      BY <1>2
    <3>1. Parent(b)[i] = b[i] /\ Parent(b)[j] = b[j]
      BY <1>2
    <3>2. i \in 1 .. Len(b) /\ j \in 1 .. Len(b)
      BY SMTT(20), <1>1
    <3> QED BY <1>3, <3>1, <3>2
  <2> QED BY <1>2, <2>1 DEF Block
<1>5. View(b) = b[Len(b)] /\ b[Len(b)] \in Nat /\ b[Len(b)] > 0
  BY SMTT(20), <1>1, <1>3 DEF View
<1>6. View(Parent(b)) \in Nat /\ View(Parent(b)) < View(b)
  <2>1. CASE Len(b) = 1
    <3>1. Parent(b) = Genesis
      BY SMTT(20), <1>1, <1>2, <2>1 DEF Genesis
    <3>2. View(Parent(b)) = 0
      BY <3>1 DEF View
    <3> QED BY SMTT(20), <3>2, <1>5
  <2>2. CASE Len(b) > 1
    <3>1. Parent(b) # Genesis
      BY SMTT(20), <1>1, <1>2, <2>2 DEF Genesis
    <3>2. View(Parent(b)) = b[Len(b) - 1]
      BY SMTT(20), <1>1, <1>2, <2>2, <3>1 DEF View
    <3> QED BY SMTT(20), <1>1, <1>3, <1>5, <2>2, <3>2
  <2>3. \A n \in Nat : n > 0 => n = 1 \/ n > 1
    BY SMTT(20)
  <2> QED BY <1>1, <2>1, <2>2, <2>3
<1> QED BY SMTT(20), <1>1, <1>2, <1>4, <1>5, <1>6

(* A block extends what its parent extends.                                *)
LEMMA ExtendsParent ==
  ASSUME NEW a \in Block, NEW b \in Block, b # Genesis, Extends(Parent(b), a)
  PROVE  Extends(b, a)
<1>1. /\ a \in Seq(Nat) /\ b \in Seq(Nat)
      /\ Len(a) \in Nat /\ Len(b) \in Nat /\ Len(b) > 0
  BY SMTT(20), EmptySeq DEF Block, Genesis
<1>a. Len(b) - 1 \in 0 .. Len(b)
  BY SMTT(20), <1>1
<1>2. /\ Len(Parent(b)) = Len(b) - 1 /\ Parent(b) \in Seq(Nat)
      /\ \A i \in 1 .. Len(b) - 1 : Parent(b)[i] = b[i]
  BY <1>1, <1>a, PrefixFacts DEF Parent
<1>3. /\ Len(a) <= Len(b) - 1
      /\ SubSeq(Parent(b), 1, Len(a)) = a
  BY <1>2 DEF Extends
<1>4. /\ Len(a) \in 0 .. Len(b) /\ Len(a) \in 0 .. Len(Parent(b))
  BY SMTT(20), <1>1, <1>2, <1>3
<1>5. \A i \in 1 .. Len(a) : SubSeq(Parent(b), 1, Len(a))[i] = Parent(b)[i]
  BY <1>2, <1>4, PrefixFacts
<1>6. \A i \in 1 .. Len(a) : SubSeq(b, 1, Len(a))[i] = a[i]
  <2> SUFFICES ASSUME NEW i \in 1 .. Len(a)
               PROVE  SubSeq(b, 1, Len(a))[i] = a[i]
    OBVIOUS
  <2>1. SubSeq(b, 1, Len(a))[i] = b[i]
    BY <1>1, <1>4, PrefixFacts
  <2>2. i \in 1 .. Len(b) - 1
    BY SMTT(20), <1>1, <1>3
  <2> QED BY <1>2, <1>3, <1>5, <2>1, <2>2
<1>7. SubSeq(b, 1, Len(a)) = a
  BY SMTT(20), <1>1, <1>4, <1>6, PrefixFacts, SeqEqual
<1> QED BY SMTT(20), <1>1, <1>3, <1>7 DEF Extends

-----------------------------------------------------------------------------
(* Two certified blocks have a voter in common.                            *)
LEMMA CommonVoter ==
  ASSUME QuorumsIntersect, NEW a, NEW b, Certified(a), Certified(b)
  PROVE  \E r \in Replicas : a \in voted[r] /\ b \in voted[r]
<1>1. IsFiniteSet(Replicas) /\ Voters(a) \subseteq Replicas /\ Voters(b) \subseteq Replicas
  BY DEF QuorumsIntersect, Voters
<1>2. IsFiniteSet(Voters(a)) /\ IsFiniteSet(Voters(b))
  BY <1>1, FS_Subset
<1>3. /\ Cardinality(Voters(a) \cup Voters(b))
           = Cardinality(Voters(a)) + Cardinality(Voters(b))
               - Cardinality(Voters(a) \cap Voters(b))
  BY <1>2, FS_Union
<1>4. Cardinality(Voters(a) \cup Voters(b)) <= Cardinality(Replicas)
  BY <1>1, FS_Subset
<1>5. /\ Cardinality(Voters(a)) \in Nat /\ Cardinality(Voters(b)) \in Nat
      /\ Cardinality(Replicas) \in Nat
      /\ IsFiniteSet(Voters(a) \cap Voters(b))
      /\ Cardinality(Voters(a) \cap Voters(b)) \in Nat
  BY <1>1, <1>2, FS_CardinalityType, FS_Intersection
<1>6. Cardinality(Voters(a) \cap Voters(b)) # 0
  BY SMTT(20), <1>3, <1>4, <1>5, ByzNoAssumption DEF Certified, QuorumsIntersect
<1>7. Voters(a) \cap Voters(b) # {}
  BY <1>6, FS_EmptySet
<1> QED BY <1>7 DEF Voters

(* Two certified blocks of one view are the same block.                    *)
LEMMA CertifiedUnique ==
  ASSUME QuorumsIntersect, VotesSafe, NEW a, NEW b,
         Certified(a), Certified(b), View(a) = View(b)
  PROVE  a = b
  BY CommonVoter DEF VotesSafe

(* A certified block was voted for, so it is a block.                      *)
LEMMA CertifiedIsVoted ==
  ASSUME QuorumsIntersect, TypeOK, NEW b, Certified(b)
  PROVE  b \in Block /\ \E r \in Replicas : b \in voted[r]
  BY CommonVoter DEF TypeOK

(* A non-empty set of views has a least one.                               *)
LEMMA LeastView ==
  ASSUME NEW T, T \subseteq Nat, T # {}
  PROVE  \E x \in T : \A y \in T : x <= y
<1>1. PICK x \in T : \A y \in T : ~ (<<y, x>> \in OpToRel(<, Nat))
  BY NatLessThanWellFounded, WFMin
<1>2. \A y \in T : ~ (y < x)
  <2> SUFFICES ASSUME NEW y \in T, y < x
               PROVE  FALSE
    OBVIOUS
  <2>1. <<y, x>> \in Nat \X Nat /\ <<y, x>>[1] < <<y, x>>[2]
    OBVIOUS
  <2> QED BY <1>1, <2>1 DEF OpToRel
<1> QED BY SMTT(20), <1>2

(* Whatever is certified from the view of a committed block on extends it. *)
(* The least view with a block that does not has, in its quorum, a voter   *)
(* of the three-chain's last block, whose lock is the committed block.     *)
LEMMA CertifiedExtends ==
  ASSUME QuorumsIntersect, TypeOK, VotesSafe, NEW a, Committed(a),
         NEW b, Certified(b), View(b) >= View(a)
  PROVE  Extends(b, a)
<1> DEFINE a1 == Append(a, View(a) + 1)
           a2 == Append(a1, View(a) + 2)
           Stray(c) == Certified(c) /\ View(c) >= View(a) /\ ~ Extends(c, a)
           Bad == {v \in Nat : \E c \in Block : View(c) = v /\ Stray(c)}
<1>1. /\ a \in Block /\ a # Genesis
      /\ Certified(a) /\ Certified(a1) /\ Certified(a2)
  BY DEF Committed
<1>2. /\ View(a) \in Nat /\ View(a) > 0 /\ a \in Seq(Nat)
      /\ Len(a) \in Nat /\ Len(a) > 0
  BY SMTT(20), <1>1, ParentFacts DEF Block
<1>3. /\ a1 \in Block /\ Parent(a1) = a /\ View(a1) = View(a) + 1 /\ a1 # Genesis
      /\ Len(a1) = Len(a) + 1
  BY SMTT(20), <1>1, <1>2, AppendFacts, CertifiedIsVoted
<1>4. /\ a2 \in Block /\ Parent(a2) = a1 /\ View(a2) = View(a) + 2 /\ a2 # Genesis
      /\ Len(a2) = Len(a) + 2
  <2>1. a1 \in Seq(Nat) /\ View(a) + 2 \in Nat
    BY SMTT(20), <1>2, <1>3 DEF Block
  <2> HIDE DEF a1
  <2>2. a2 \in Block
    BY <1>1, CertifiedIsVoted
  <2> QED BY SMTT(20), <1>2, <1>3, <2>1, <2>2, AppendFacts
<1>5. LockOf(a2) = View(a)
  <2> HIDE DEF a1, a2
  <2>1. Parent(Parent(a2)) = a /\ ~ Len(a2) < 3
    BY SMTT(20), <1>2, <1>3, <1>4
  <2> QED BY <2>1 DEF LockOf
<1>6. Extends(a, a) /\ Extends(a1, a) /\ Extends(a2, a)
  <2> HIDE DEF a1, a2
  <2>1. Extends(a, a)
    <3>1. Len(a) \in 0 .. Len(a)
      BY SMTT(20), <1>2
    <3>2. SubSeq(a, 1, Len(a)) = a
      BY <1>2, <3>1, PrefixFacts, SeqEqual
    <3> QED BY SMTT(20), <1>2, <3>2 DEF Extends
  <2>2. Extends(a1, a)
    BY <1>1, <1>3, <2>1, ExtendsParent
  <2> QED BY <1>1, <1>4, <2>1, <2>2, ExtendsParent
<1>7. SUFFICES ASSUME Bad # {}
               PROVE  FALSE
  <2>1. b \in Block
    BY CertifiedIsVoted
  <2>2. b # Genesis
    BY SMTT(20), <1>2 DEF View
  <2>3. View(b) \in Nat
    BY <2>1, <2>2, ParentFacts
  <2> QED BY <2>1, <2>3
<1> HIDE DEF a1, a2
<1>8. PICK v \in Bad : \A w \in Bad : v <= w
  BY <1>7, LeastView
<1>9. PICK c \in Block : View(c) = v /\ Stray(c)
  BY <1>8
<1>10. c # Genesis /\ View(c) \in Nat /\ Parent(c) \in Block
       /\ View(Parent(c)) \in Nat /\ View(Parent(c)) < View(c)
  <2>1. c # Genesis
    BY SMTT(20), <1>2, <1>9 DEF View
  <2> QED BY <2>1, ParentFacts
<1>11. View(c) # View(a) /\ View(c) # View(a1) /\ View(c) # View(a2)
  BY <1>1, <1>6, <1>9, CertifiedUnique
<1>12. View(a2) < View(c)
  BY SMTT(20), <1>2, <1>3, <1>4, <1>9, <1>10, <1>11
<1>13. PICK r \in Replicas : c \in voted[r] /\ a2 \in voted[r]
  BY <1>1, <1>9, CommonVoter
<1>14. View(Parent(c)) >= View(a)
  BY SMTT(20), <1>5, <1>12, <1>13 DEF VotesSafe, Respects
<1>15. Parent(c) # Genesis
  BY SMTT(20), <1>2, <1>14 DEF View
<1>16. Certified(Parent(c))
  BY <1>13, <1>15 DEF VotesSafe
<1>17. ~ Extends(Parent(c), a)
  BY <1>1, <1>9, <1>10, ExtendsParent
<1>18. View(Parent(c)) \in Bad
  BY <1>10, <1>14, <1>16, <1>17
<1> QED BY SMTT(20), <1>8, <1>9, <1>10, <1>18

-----------------------------------------------------------------------------
(* Every step of Voting keeps its votes safe. *)
THEOREM VotingSafe == VotesSafe /\ TypeOK /\ [Next]_voted => (VotesSafe /\ TypeOK)'
<1> SUFFICES ASSUME VotesSafe, TypeOK, [Next]_voted
             PROVE  VotesSafe' /\ TypeOK'
  OBVIOUS
<1>1. CASE UNCHANGED voted
  BY SMTT(20), <1>1 DEF VotesSafe, TypeOK, Certified, Voters
<1>2. ASSUME NEW r \in Replicas, Vote(r)
      PROVE  VotesSafe' /\ TypeOK'
  BY <1>2 DEF Vote, TypeOK
<1> QED BY <1>1, <1>2 DEF Next

(* Committed blocks agree in every behaviour of Voting, whatever the       *)
(* number of replicas and of views, as long as two quorums intersect.      *)
THEOREM VotingAgreement == ASSUME QuorumsIntersect PROVE Spec => []Agreement
<1>1. Init => VotesSafe /\ TypeOK
  BY DEF Init, VotesSafe, TypeOK
<1>2. VotesSafe /\ TypeOK => Agreement
  <2> SUFFICES ASSUME VotesSafe, TypeOK, NEW a \in Block, NEW b \in Block,
                      Committed(a), Committed(b)
               PROVE  Extends(a, b) \/ Extends(b, a)
    BY DEF Agreement
  <2>1. Certified(a) /\ Certified(b) /\ a # Genesis /\ b # Genesis
    BY DEF Committed
  <2>2. View(a) \in Nat /\ View(b) \in Nat
    BY <2>1, ParentFacts
  <2>3. CASE View(b) >= View(a)
    BY <2>1, <2>3, CertifiedExtends
  <2>4. CASE View(a) >= View(b)
    BY <2>1, <2>4, CertifiedExtends
  <2> QED BY SMTT(20), <2>2, <2>3, <2>4
<1> QED BY <1>1, <1>2, VotingSafe, PTL DEF Spec
=============================================================================
