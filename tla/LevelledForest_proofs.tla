----------------------- MODULE LevelledForest_proofs -----------------------
(***************************************************************************)
(* The levelled forest implements the block store, for every number of     *)
(* views: blocks arrive in any order, and the three loops of CommitBlock   *)
(* and PruneUpToLevel together do what one step of BlockStore does.        *)
(***************************************************************************)
EXTENDS LevelledForest, SequenceTheorems, TLAPS

(* Zenon proves a step that names no prover; SMTT(20) sends one to the SMT solver. *)
USE ZenonT(20)

(* The block of a chain that is its n-th. *)
Pre(b, n) == SubSeq(b, 1, n)

-----------------------------------------------------------------------------
(* Blocks as chains of views *)

(* A block is a sequence of increasing views that is not empty. *)
LEMMA BlockFacts ==
  ASSUME NEW b \in Blocks
  PROVE  /\ b \in Seq(1 .. MaxView) /\ Len(b) \in Nat /\ Len(b) >= 1 /\ DOMAIN b = 1 .. Len(b)
         /\ \A i \in 1 .. Len(b) : b[i] \in 1 .. MaxView
         /\ \A i, j \in 1 .. Len(b) : i < j => b[i] < b[j]
         /\ b # Genesis /\ View(b) = b[Len(b)] /\ View(b) \in 1 .. MaxView
<1>1. PICK n \in 1 .. MaxView : b \in [1 .. n -> 1 .. MaxView]
  BY DEF Blocks
<1>2. n \in Nat /\ n >= 1
  BY SMTT(20), <1>1, MaxViewAssumption
<1>3. b \in Seq(1 .. MaxView) /\ Len(b) = n
  <2>1. b \in Seq(1 .. MaxView)
    BY <1>1, <1>2, SeqDef
  <2>2. DOMAIN b = 1 .. n /\ DOMAIN b = 1 .. Len(b) /\ Len(b) \in Nat
    BY <1>1, <2>1, LenProperties
  <2> QED
    BY SMTT(20), <1>2, <2>1, <2>2
<1>4. DOMAIN b = 1 .. Len(b)
  BY <1>1, <1>3
<1>5. b # Genesis
  BY SMTT(20), <1>2, <1>3 DEF Genesis
<1>6. View(b) = b[Len(b)] /\ View(b) \in 1 .. MaxView
  BY SMTT(20), <1>1, <1>2, <1>3, <1>5 DEF View
<1>7. \A i, j \in 1 .. Len(b) : i < j => b[i] < b[j]
  BY <1>4 DEF Blocks
<1> QED
  BY <1>1, <1>2, <1>3, <1>4, <1>5, <1>6, <1>7

(* Any such sequence is a block. *)
LEMMA IsBlock ==
  ASSUME NEW n \in 1 .. MaxView, NEW b \in [1 .. n -> 1 .. MaxView],
         \A i, j \in 1 .. n : i < j => b[i] < b[j]
  PROVE  b \in Blocks
  BY DEF Blocks

(* Distinct places of a chain have distinct views, so a chain is no longer *)
(* than the highest view.                                                  *)
LEMMA PreFacts ==
  ASSUME NEW b \in Blocks, NEW n \in 1 .. Len(b)
  PROVE  /\ Pre(b, n) \in Blocks /\ Len(Pre(b, n)) = n
         /\ View(Pre(b, n)) = b[n]
         /\ Parent(Pre(b, n)) = Pre(b, n - 1)
<1>1. /\ b \in Seq(1 .. MaxView) /\ Len(b) \in Nat /\ DOMAIN b = 1 .. Len(b)
      /\ \A i \in 1 .. Len(b) : b[i] \in 1 .. MaxView
      /\ \A i, j \in 1 .. Len(b) : i < j => b[i] < b[j]
  BY BlockFacts
<1>2. Len(b) \in 1 .. MaxView
  <2>1. PICK k \in 1 .. MaxView : b \in [1 .. k -> 1 .. MaxView]
    BY DEF Blocks
  <2> QED
    BY SMTT(20), <1>1, <2>1, LenProperties, MaxViewAssumption
<1>3. n \in Nat /\ n >= 1 /\ n <= Len(b)
  BY SMTT(20), <1>1
<1>4. /\ Pre(b, n) \in Seq(1 .. MaxView) /\ Len(Pre(b, n)) = n
      /\ \A i \in 1 .. n : Pre(b, n)[i] = b[i]
  BY SMTT(20), <1>1, <1>3, SubSeqProperties DEF Pre
<1>5. Pre(b, n) \in [1 .. n -> 1 .. MaxView]
  BY <1>4, LenProperties
<1>6. Pre(b, n) \in Blocks
  <2>1. n \in 1 .. MaxView
    BY SMTT(20), <1>2, <1>3, MaxViewAssumption
  <2>2. \A i, j \in 1 .. n : i < j => Pre(b, n)[i] < Pre(b, n)[j]
    BY SMTT(20), <1>1, <1>3, <1>4
  <2> QED
    BY <1>5, <2>1, <2>2, IsBlock
<1>7. View(Pre(b, n)) = b[n]
  BY SMTT(20), <1>3, <1>4, <1>6, BlockFacts
<1>8. Parent(Pre(b, n)) = Pre(b, n - 1)
  <2>1. Parent(Pre(b, n)) = SubSeq(Pre(b, n), 1, n - 1)
    BY <1>4 DEF Parent
  <2>2. /\ SubSeq(Pre(b, n), 1, n - 1) \in Seq(1 .. MaxView)
        /\ Len(SubSeq(Pre(b, n), 1, n - 1)) = n - 1
        /\ \A i \in 1 .. n - 1 : SubSeq(Pre(b, n), 1, n - 1)[i] = Pre(b, n)[i]
    <3>1. n - 1 \in Int /\ \A i \in 1 .. n - 1 : Pre(b, n)[i] \in 1 .. MaxView
      BY SMTT(20), <1>3, <1>5
    <3> QED
      BY SMTT(20), <1>3, <3>1, SubSeqProperties
  <2>3. /\ Pre(b, n - 1) \in Seq(1 .. MaxView)
        /\ Len(Pre(b, n - 1)) = n - 1
        /\ \A i \in 1 .. n - 1 : Pre(b, n - 1)[i] = b[i]
    BY SMTT(20), <1>1, <1>3, SubSeqProperties DEF Pre
  <2>4. \A i \in 1 .. n - 1 : Pre(b, n)[i] = b[i]
    BY SMTT(20), <1>3, <1>4
  <2> QED
    BY SMTT(20), <2>1, <2>2, <2>3, <2>4, SeqEqual
<1> QED
  BY <1>4, <1>6, <1>7, <1>8

(* The last block of a chain is the chain, below the first is Genesis. *)
LEMMA PreEnds ==
  ASSUME NEW b \in Blocks
  PROVE  Pre(b, Len(b)) = b /\ Pre(b, 0) = Genesis
<1>1. b \in Seq(1 .. MaxView) /\ Len(b) \in Nat /\ \A i \in 1 .. Len(b) : b[i] \in 1 .. MaxView
  BY BlockFacts
<1>2. /\ Pre(b, Len(b)) \in Seq(1 .. MaxView) /\ Len(Pre(b, Len(b))) = Len(b)
      /\ \A i \in 1 .. Len(b) : Pre(b, Len(b))[i] = b[i]
  BY SMTT(20), <1>1, SubSeqProperties DEF Pre
<1>3. Pre(b, 0) \in Seq(1 .. MaxView) /\ Len(Pre(b, 0)) = 0
  BY SMTT(20), <1>1, SubSeqProperties DEF Pre
<1> QED
  BY <1>1, <1>2, <1>3, SeqEqual, EmptySeq DEF Genesis

Vertices == Blocks \cup {Genesis}

(* Views are levels, and grow along a chain from Genesis, which is no block. *)
LEMMA Views ==
  /\ \A x \in Vertices : View(x) \in Levels /\ View(x) \in Nat
  /\ View(Genesis) = 0 /\ Genesis \notin Blocks
  /\ \A b \in Blocks : /\ View(b) >= 1 /\ Parent(b) \in Vertices
                       /\ View(Parent(b)) < View(b)
                       /\ Parent(b) = Genesis \/ Parent(b) \in Prefixes(b)
<1>1. View(Genesis) = 0 /\ Genesis \notin Blocks
  BY BlockFacts DEF View
<1>2. \A b \in Blocks : View(b) \in Levels /\ View(b) \in Nat /\ View(b) >= 1
  BY SMTT(20), BlockFacts, MaxViewAssumption DEF Levels
<1>3. ASSUME NEW b \in Blocks
      PROVE  /\ Parent(b) \in Vertices /\ View(Parent(b)) < View(b)
             /\ Parent(b) = Genesis \/ Parent(b) \in Prefixes(b)
  <2>1. Len(b) \in Nat /\ Len(b) >= 1
    BY BlockFacts
  <2>2. Parent(b) = Pre(b, Len(b) - 1)
    BY DEF Parent, Pre
  <2>3. CASE Len(b) = 1
    BY SMTT(20), <1>1, <1>2, <2>2, <2>3, PreEnds DEF Vertices
  <2>4. CASE Len(b) # 1
    <3>1. Len(b) - 1 \in 1 .. Len(b) /\ Len(b) \in 1 .. Len(b) /\ Len(b) - 1 < Len(b)
      <4>1. \A n \in Nat : n >= 1 /\ n # 1 => n - 1 \in 1 .. n /\ n \in 1 .. n /\ n - 1 < n
        BY SMTT(20)
      <4> QED
        BY <2>1, <2>4, <4>1
    <3>2. Parent(b) \in Blocks /\ View(Parent(b)) = b[Len(b) - 1]
      BY <2>2, <3>1, PreFacts
    <3>3. View(b) = b[Len(b)] /\ b[Len(b) - 1] < b[Len(b)]
      BY <3>1, BlockFacts
    <3>4. Parent(b) \in Prefixes(b)
      BY <2>2, <3>1 DEF Prefixes, Pre
    <3> QED
      BY <3>2, <3>3, <3>4 DEF Vertices
  <2> QED
    BY <2>3, <2>4
<1> QED
  BY SMTT(20), <1>1, <1>2, <1>3, MaxViewAssumption DEF Vertices, Levels

(* The blocks of a chain are the chain's own prefixes, one per view. *)
LEMMA PrefixFacts ==
  ASSUME NEW b \in Blocks
  PROVE  /\ Prefixes(b) = {Pre(b, n) : n \in 1 .. Len(b)}
         /\ Prefixes(b) \subseteq Blocks /\ b \in Prefixes(b)
         /\ \A a, c \in Prefixes(b) : View(a) = View(c) => a = c
<1>1. Prefixes(b) = {Pre(b, n) : n \in 1 .. Len(b)}
  BY DEF Prefixes, Pre
<1>2. Prefixes(b) \subseteq Blocks
  BY <1>1, PreFacts
<1>3. b \in Prefixes(b)
  <2>1. Len(b) \in 1 .. Len(b)
    BY SMTT(20), BlockFacts
  <2> QED
    BY <1>1, <2>1, PreEnds
<1>4. ASSUME NEW a \in Prefixes(b), NEW c \in Prefixes(b), View(a) = View(c)
      PROVE  a = c
  <2>1. PICK m \in 1 .. Len(b) : a = Pre(b, m)
    BY <1>1
  <2>2. PICK n \in 1 .. Len(b) : c = Pre(b, n)
    BY <1>1
  <2>3. b[m] = b[n]
    BY <1>4, <2>1, <2>2, PreFacts
  <2>4. /\ \A i, j \in 1 .. Len(b) : i < j => b[i] < b[j]
        /\ \A i \in 1 .. Len(b) : b[i] \in 1 .. MaxView
        /\ Len(b) \in Nat
    BY BlockFacts
  <2>5. m = n
    BY SMTT(20), <2>3, <2>4, MaxViewAssumption
  <2> QED
    BY <2>1, <2>2, <2>5
<1> QED
  BY <1>1, <1>2, <1>3, <1>4

(* Views along a chain, by their places in it. *)
LEMMA ChainFacts ==
  ASSUME NEW b \in Blocks
  PROVE  /\ Len(b) \in Nat /\ Len(b) >= 1
         /\ \A i \in 1 .. Len(b) : b[i] \in Nat /\ b[i] >= 1 /\ View(Pre(b, i)) = b[i]
         /\ \A i, j \in 1 .. Len(b) : i < j => b[i] < b[j]
<1>1. /\ Len(b) \in Nat /\ Len(b) >= 1
      /\ \A i \in 1 .. Len(b) : b[i] \in 1 .. MaxView
      /\ \A i, j \in 1 .. Len(b) : i < j => b[i] < b[j]
  BY BlockFacts
<1>2. \A i \in 1 .. Len(b) : View(Pre(b, i)) = b[i]
  BY PreFacts
<1>3. \A i \in 1 .. Len(b) : b[i] \in Nat /\ b[i] >= 1
  BY SMTT(20), <1>1, MaxViewAssumption
<1> QED
  BY <1>1, <1>2, <1>3

(* What CommitBlock reaches from b: the blocks below which none is missing. *)
LEMMA LinkedFacts ==
  ASSUME NEW b \in Blocks, NEW bc
  PROVE  /\ Linked(bc, b) \subseteq {Pre(b, k) : k \in 1 .. Len(b)}
         /\ \A k \in 1 .. Len(b) :
              Pre(b, k) \in Linked(bc, b) <=> \A m \in k .. Len(b) : Pre(b, m) \in bc.tree
<1>1. Prefixes(b) = {Pre(b, k) : k \in 1 .. Len(b)} /\ Len(b) \in Nat
  BY PrefixFacts, BlockFacts
<1>2. \A k \in 1 .. Len(b) : Len(Pre(b, k)) = k
  BY PreFacts
<1>3. ASSUME NEW k \in 1 .. Len(b), \A m \in k .. Len(b) : Pre(b, m) \in bc.tree
      PROVE  Pre(b, k) \in Linked(bc, b)
  BY SMTT(20), <1>1, <1>2, <1>3 DEF Linked
<1>4. ASSUME NEW k \in 1 .. Len(b), Pre(b, k) \in Linked(bc, b), NEW m \in k .. Len(b)
      PROVE  Pre(b, m) \in bc.tree
  <2>1. m \in 1 .. Len(b) /\ m >= k
    BY SMTT(20), <1>1
  <2>2. Pre(b, m) \in Prefixes(b) /\ Len(Pre(b, m)) >= Len(Pre(b, k))
    BY <1>1, <1>2, <2>1
  <2> QED
    BY <1>4, <2>2 DEF Linked
<1> QED
  BY <1>1, <1>3, <1>4 DEF Linked

(* The chain b is stored from place n on: what CommitBlock returns. *)
LEMMA CommittedFacts ==
  ASSUME NEW bc, NEW b \in Blocks, NEW n \in 1 .. Len(b),
         bc.tree \subseteq Blocks, bc.lowest \in Nat,
         \A k \in n .. Len(b) : Pre(b, k) \in bc.tree,
         \A k \in n + 1 .. Len(b) : View(Pre(b, k)) > bc.lowest
  PROVE  /\ View(Pre(b, n)) <= bc.lowest
              => CommittedBlocks(bc, b) = {Pre(b, k) : k \in n + 1 .. Len(b)}
         /\ View(Pre(b, n)) > bc.lowest /\ Pre(b, n - 1) \notin bc.tree
              => CommittedBlocks(bc, b) = {Pre(b, k) : k \in n .. Len(b)}
<1>1. /\ Len(b) \in Nat /\ n \in Nat /\ n >= 1
      /\ \A i \in 1 .. Len(b) : b[i] \in Nat /\ View(Pre(b, i)) = b[i]
      /\ \A i, j \in 1 .. Len(b) : i < j => b[i] < b[j]
  BY SMTT(20), ChainFacts
<1>2. \A k \in n .. Len(b) : k \in 1 .. Len(b) /\ Pre(b, k) \in Linked(bc, b)
  BY SMTT(20), <1>1, LinkedFacts
<1>3. ASSUME View(Pre(b, n)) <= bc.lowest
      PROVE  CommittedBlocks(bc, b) = {Pre(b, k) : k \in n + 1 .. Len(b)}
  <2>1. ASSUME NEW k \in 1 .. Len(b), View(Pre(b, k)) > bc.lowest
        PROVE  k \in n + 1 .. Len(b)
    BY SMTT(20), <1>1, <1>3, <2>1
  <2>2. CommittedBlocks(bc, b) \subseteq {Pre(b, k) : k \in n + 1 .. Len(b)}
    BY <2>1, LinkedFacts DEF CommittedBlocks
  <2>3. \A k \in n + 1 .. Len(b) : k \in n .. Len(b)
    BY SMTT(20), <1>1
  <2>4. \A k \in n + 1 .. Len(b) : Pre(b, k) \in CommittedBlocks(bc, b)
    BY <1>2, <2>3 DEF CommittedBlocks
  <2> QED
    BY <2>2, <2>4
<1>4. ASSUME View(Pre(b, n)) > bc.lowest, Pre(b, n - 1) \notin bc.tree
      PROVE  CommittedBlocks(bc, b) = {Pre(b, k) : k \in n .. Len(b)}
  <2>1. ASSUME NEW k \in 1 .. Len(b), Pre(b, k) \in Linked(bc, b)
        PROVE  k \in n .. Len(b)
    <3>1. \A m \in k .. Len(b) : Pre(b, m) \in bc.tree
      BY <2>1, LinkedFacts
    <3>2. n - 1 \notin k .. Len(b)
      BY <1>4, <3>1
    <3> QED
      BY SMTT(20), <1>1, <3>2
  <2>2. CommittedBlocks(bc, b) \subseteq {Pre(b, k) : k \in n .. Len(b)}
    BY SMTT(20), <2>1, LinkedFacts DEF CommittedBlocks
  <2>3. \A k \in n .. Len(b) : k = n \/ k \in n + 1 .. Len(b)
    BY SMTT(20), <1>1
  <2>4. \A k \in n .. Len(b) : Pre(b, k) \in CommittedBlocks(bc, b)
    BY <1>2, <1>4, <2>3 DEF CommittedBlocks
  <2> QED
    BY <2>2, <2>4
<1> QED
  BY <1>3, <1>4

-----------------------------------------------------------------------------
(* The inductive invariant *)

WalkOps ==
  [phase : {"walk"}, block : Blocks, cur : Blocks,
   blocks : SUBSET Blocks, before : SUBSET Blocks]

LoopOps ==
  [phase : {"levels", "prune"}, block : Blocks,
   blocks : SUBSET Blocks, before : SUBSET Blocks,
   l : Nat, levels : SUBSET Nat, forked : SUBSET Blocks]

TypeInv ==
  /\ vertices \subseteq Vertices /\ full \subseteq Blocks /\ full \subseteq vertices
  /\ verticesAtLevel \in [Levels -> Seq(Vertices)]
  /\ LowestLevel \in Levels
  /\ op = Idle \/ op \in WalkOps \/ op \in LoopOps
  /\ known \subseteq Blocks

(* There is nothing below this level. *)
Bottom == IF op.phase = "prune" THEN op.l ELSE LowestLevel

(* The forest at any time: one block per view, the two indexes agree, and  *)
(* a parent that is not pruned has a container, which has its children.    *)
ForestInv ==
  /\ \A a, c \in known : View(a) = View(c) => a = c
  /\ \A x \in vertices : x = Genesis \/ x \in known
  /\ \A x \in vertices : View(x) >= Bottom
  /\ \A l \in Levels : Len(verticesAtLevel[l]) <= 1
  /\ \A l \in Levels : Range(verticesAtLevel[l]) = {x \in vertices : View(x) = l}
  /\ \A x \in full : View(Parent(x)) >= Bottom => Parent(x) \in vertices
  /\ ChildrenComplete

(* The store that CommitBlock was called on. *)
Called == [tree |-> op.before, lowest |-> LowestLevel, votes |-> {}]

(* The walk of CommitBlock is at the n-th block of the chain. *)
WalkInv ==
  op.phase = "walk" =>
    /\ full = op.before
    /\ \E n \in 1 .. Len(op.block) :
         /\ op.cur = Pre(op.block, n)
         /\ op.blocks = {Pre(op.block, k) : k \in n + 1 .. Len(op.block)}
         /\ \A k \in n .. Len(op.block) : Pre(op.block, k) \in full
         /\ \A k \in n + 1 .. Len(op.block) : View(Pre(op.block, k)) > LowestLevel

(* The walk of PruneUpToLevel is at the level of the n-th block. *)
LevelsInv ==
  op.phase = "levels" =>
    /\ full = op.before /\ op.forked = {}
    /\ op.blocks = CommittedBlocks(Called, op.block)
    /\ \E n \in 1 .. Len(op.block) :
         /\ op.l = View(Pre(op.block, n))
         /\ op.levels = {View(Pre(op.block, k)) : k \in n .. Len(op.block) - 1}
         /\ \A k \in n .. Len(op.block) : Pre(op.block, k) \in full

CommittedLevels ==
  {View(p) : p \in {q \in Linked(Called, op.block) : View(q) >= LowestLevel}}

(* The loop that deletes is done with the levels below op.l. *)
PruneInv ==
  op.phase = "prune" =>
    /\ LowestLevel <= op.l /\ op.l <= View(op.block)
    /\ op.block \in op.before
    /\ op.blocks = CommittedBlocks(Called, op.block)
    /\ \A l \in Nat : l < View(op.block) => (l \in op.levels <=> l \in CommittedLevels)
    /\ full = {x \in op.before : View(x) >= op.l}
    /\ op.forked = {x \in op.before : View(x) < op.l /\ View(x) > 1 /\ View(x) \notin op.levels}

Inv == TypeInv /\ ForestInv /\ WalkInv /\ LevelsInv /\ PruneInv

-----------------------------------------------------------------------------
(* AddVertex *)

(* Appending a container to a level, or none. *)
LEMMA Append1 ==
  ASSUME NEW S, NEW x \in S
  PROVE  << >> \o << >> = << >> /\ << >> \o <<x>> = <<x>> /\ <<x>> \o << >> = <<x>>
<1>1. << >> \in Seq(S) /\ <<x>> \in Seq(S)
  BY SMTT(20)
<1> QED
  BY <1>1, ConcatEmptySeq

(* With the chain of a new block there is still one block per view. *)
LEMMA KnownStep ==
  ASSUME TypeInv, ForestInv, NEW b \in Blocks, AddVertex(b)
  PROVE  /\ known' \subseteq Blocks /\ known \subseteq known' /\ b \in known'
         /\ Parent(b) = Genesis \/ Parent(b) \in known'
         /\ \A a, c \in known' \cup {Genesis} : View(a) = View(c) => a = c
<1>1. known' = known \cup Prefixes(b)
  BY DEF AddVertex
<1>2. known' \subseteq Blocks /\ b \in known'
  BY <1>1, PrefixFacts DEF TypeInv
<1>3. \A a, c \in known' : View(a) = View(c) => a = c
  BY <1>1, PrefixFacts DEF AddVertex, ForestInv
<1>4. \A a \in known' : View(a) >= 1 /\ View(a) \in Nat
  BY <1>2, Views DEF Vertices
<1> QED
  BY SMTT(20), <1>1, <1>2, <1>3, <1>4, Views

(* A level gets the containers of that level that are new. *)
LEMMA CreatedFacts ==
  ASSUME TypeInv, NEW b \in Blocks, NEW l \in Levels
  PROVE  \/ /\ Created(b, l) = << >>
            /\ \A x \in Touched(b) : x \in vertices \/ View(x) # l
         \/ \E x \in Touched(b) :
              /\ Created(b, l) = <<x>>
              /\ x \notin vertices /\ View(x) = l
              /\ \A y \in Touched(b) : y = x \/ View(y) # l
<1>1. b \in Vertices /\ Parent(b) \in Vertices /\ View(Parent(b)) # View(b)
  BY SMTT(20), Views DEF Vertices
<1>2. << >> \o << >> = << >>
  BY <1>1, Append1
<1>3. /\ << >> \o <<Parent(b)>> = <<Parent(b)>> /\ <<b>> \o << >> = <<b>>
  BY <1>1, Append1
<1>4. CASE b \notin vertices /\ View(b) = l
  <2>1. Container(b, l) = <<b>> /\ Container(Parent(b), l) = << >>
    BY <1>1, <1>4 DEF Container
  <2>2. Created(b, l) = <<b>> /\ \A y \in Touched(b) : y = b \/ View(y) # l
    BY <1>1, <1>3, <1>4, <2>1 DEF Created, Touched
  <2> QED
    BY <1>4, <2>2 DEF Touched
<1>5. CASE ~(b \notin vertices /\ View(b) = l)
  <2>1. Container(b, l) = << >>
    BY <1>5 DEF Container
  <2>2. CASE HasParent(b) /\ Parent(b) \notin vertices /\ View(Parent(b)) = l
    <3>1. Created(b, l) = <<Parent(b)>>
      BY <1>3, <2>1, <2>2 DEF Created, Container
    <3>2. Touched(b) = {b, Parent(b)} /\ View(b) # l
      BY <1>1, <2>2 DEF Touched
    <3> QED
      BY SMTT(20), <2>2, <3>1, <3>2
  <2>3. CASE ~(HasParent(b) /\ Parent(b) \notin vertices /\ View(Parent(b)) = l)
    <3>1. Created(b, l) = << >>
      BY <1>2, <2>1, <2>3 DEF Created, Container
    <3> QED
      BY <1>5, <2>3, <3>1 DEF Touched
  <2> QED
    BY <2>2, <2>3
<1> QED
  BY <1>4, <1>5

(* The index by level after AddVertex stored b. *)
LEMMA LevelsStep ==
  ASSUME TypeInv, ForestInv, NEW b \in Blocks, AddVertex(b),
         ~(View(b) < LowestLevel \/ b \in full), NEW l \in Levels
  PROVE  /\ verticesAtLevel'[l] \in Seq(Vertices)
         /\ Len(verticesAtLevel'[l]) <= 1
         /\ Range(verticesAtLevel'[l]) = {x \in vertices' : View(x) = l}
<1>1. /\ vertices' = vertices \cup Touched(b)
      /\ verticesAtLevel'[l] = verticesAtLevel[l] \o Created(b, l)
  BY DEF AddVertex
<1>2. /\ verticesAtLevel[l] \in Seq(Vertices) /\ Len(verticesAtLevel[l]) <= 1
      /\ Range(verticesAtLevel[l]) = {x \in vertices : View(x) = l}
  BY DEF TypeInv, ForestInv
<1>3. CASE /\ Created(b, l) = << >>
           /\ \A x \in Touched(b) : x \in vertices \/ View(x) # l
  <2>1. verticesAtLevel'[l] = verticesAtLevel[l]
    BY <1>1, <1>2, <1>3, ConcatEmptySeq
  <2> QED
    BY <1>1, <1>2, <1>3, <2>1
<1>4. ASSUME NEW x \in Touched(b), Created(b, l) = <<x>>, x \notin vertices, View(x) = l,
             \A y \in Touched(b) : y = x \/ View(y) # l
      PROVE  /\ verticesAtLevel'[l] \in Seq(Vertices)
             /\ Len(verticesAtLevel'[l]) <= 1
             /\ Range(verticesAtLevel'[l]) = {y \in vertices' : View(y) = l}
  <2>1. x \in known' \cup {Genesis} /\ x \in Vertices
    BY <1>4, KnownStep, Views DEF Touched, Vertices
  <2>2. \A y \in vertices : View(y) # l
    <3>1. \A y \in vertices : y \in known' \cup {Genesis}
      BY KnownStep DEF ForestInv
    <3> QED
      BY <1>4, <2>1, <3>1, KnownStep
  <2>3. verticesAtLevel[l] = << >>
    <3>1. SUFFICES ASSUME verticesAtLevel[l] # << >> PROVE FALSE
      OBVIOUS
    <3>2. 1 \in DOMAIN verticesAtLevel[l]
      BY SMTT(20), <1>2, <3>1, EmptySeq, LenProperties
    <3>3. verticesAtLevel[l][1] \in Range(verticesAtLevel[l])
      BY <3>2 DEF Range
    <3> QED
      BY <1>2, <2>2, <3>3
  <2>4. /\ verticesAtLevel'[l] \in Seq(Vertices) /\ Len(verticesAtLevel'[l]) = 1
        /\ Range(verticesAtLevel'[l]) = {x}
    <3>1. verticesAtLevel'[l] = <<x>>
      <4>1. << >> \o <<x>> = <<x>>
        BY <2>1, Append1
      <4> QED
        BY <1>1, <1>4, <2>3, <4>1
    <3> QED
      BY SMTT(20), <2>1, <3>1 DEF Range
  <2>5. {y \in vertices' : View(y) = l} = {x}
    BY <1>1, <1>4, <2>2
  <2> QED
    BY SMTT(20), <2>4, <2>5
<1> QED
  BY <1>3, <1>4, CreatedFacts

(* AddVertex registers b with its parent, and finds its children registered. *)
LEMMA AddChildren ==
  ASSUME TypeInv, ForestInv, NEW b \in Blocks, AddVertex(b),
         ~(View(b) < LowestLevel \/ b \in full)
  PROVE  /\ \A x \in full' : View(Parent(x)) >= LowestLevel => Parent(x) \in vertices'
         /\ ChildrenComplete'
<1>1. /\ op = Idle /\ vertices' = vertices \cup Touched(b) /\ full' = full \cup {b}
      /\ children' = IF HasParent(b) THEN children \cup {<<Parent(b), b>>} ELSE children
  BY DEF AddVertex
<1>2. Bottom = LowestLevel
  BY <1>1 DEF Bottom, Idle
<1>3. /\ \A x \in full : View(Parent(x)) >= LowestLevel => Parent(x) \in vertices
      /\ \A x \in vertices : View(x) >= LowestLevel
      /\ children = {e \in vertices \X full : e[1] = Parent(e[2])}
  BY <1>2 DEF ForestInv, ChildrenComplete
<1>4. /\ LowestLevel \in Nat /\ View(b) \in Nat /\ View(Parent(b)) \in Nat
      /\ View(Parent(b)) < View(b) /\ full \subseteq vertices
  BY SMTT(20), Views, MaxViewAssumption DEF TypeInv, Levels, Vertices
<1>5. HasParent(b) <=> View(Parent(b)) >= LowestLevel
  BY SMTT(20), <1>4 DEF HasParent
<1>6. \A x \in full' : View(Parent(x)) >= LowestLevel => Parent(x) \in vertices'
  BY <1>1, <1>3, <1>5 DEF Touched
<1>7. \A x \in vertices' : View(x) >= LowestLevel
  BY SMTT(20), <1>1, <1>3, <1>4, <1>5 DEF Touched
<1>8. ASSUME NEW x \in full', Parent(x) \in vertices', x # b
      PROVE  <<Parent(x), x>> \in children
  BY <1>1, <1>3, <1>7, <1>8
<1>9. children' \subseteq {e \in vertices' \X full' : e[1] = Parent(e[2])}
  <2>1. CASE HasParent(b)
    <3>1. <<Parent(b), b>> \in {e \in vertices' \X full' : e[1] = Parent(e[2])}
      BY <1>1, <2>1 DEF Touched
    <3>2. children \subseteq {e \in vertices' \X full' : e[1] = Parent(e[2])}
      BY <1>1, <1>3
    <3> QED
      BY <1>1, <3>1, <3>2
  <2>2. CASE ~HasParent(b)
    BY <1>1, <1>3, <2>2
  <2> QED
    BY <2>1, <2>2
<1>10. ASSUME NEW e \in vertices' \X full', e[1] = Parent(e[2])
       PROVE  e \in children'
  <2>1. e = <<Parent(e[2]), e[2]>> /\ e[2] \in full' /\ Parent(e[2]) \in vertices'
    BY SMTT(20), <1>10
  <2>2. CASE e[2] = b
    <3>1. HasParent(b)
      BY <1>5, <1>7, <2>1, <2>2
    <3> QED
      BY <1>1, <2>1, <2>2, <3>1
  <2>3. CASE e[2] # b
    BY <1>1, <1>8, <2>1, <2>3
  <2> QED
    BY <2>2, <2>3
<1>11. children' = {e \in vertices' \X full' : e[1] = Parent(e[2])}
  BY <1>9, <1>10
<1> QED
  BY <1>6, <1>11 DEF ChildrenComplete

(* AddVertex keeps the invariant. *)
LEMMA AddStep ==
  ASSUME Inv, NEW b \in Blocks, AddVertex(b)
  PROVE  Inv'
<1> USE DEF Inv
<1>1. op = Idle /\ op' = op /\ LowestLevel' = LowestLevel
  BY DEF AddVertex
<1>2. op.phase = "idle" /\ op'.phase = "idle" /\ Bottom = LowestLevel /\ Bottom' = LowestLevel
  BY <1>1 DEF Idle, Bottom
<1>3. WalkInv' /\ LevelsInv' /\ PruneInv'
  BY <1>2 DEF WalkInv, LevelsInv, PruneInv
<1>4. CASE View(b) < LowestLevel \/ b \in full
  <2>1. UNCHANGED <<vertices, full, children, verticesAtLevel>>
    BY <1>4 DEF AddVertex
  <2>2. TypeInv'
    BY <1>1, <2>1, KnownStep DEF TypeInv
  <2>3. ForestInv'
    BY <1>2, <2>1, KnownStep DEF ForestInv, ChildrenComplete
  <2> QED
    BY <1>3, <2>2, <2>3
<1>5. CASE ~(View(b) < LowestLevel \/ b \in full)
  <2>1. /\ vertices' = vertices \cup Touched(b) /\ full' = full \cup {b}
        /\ verticesAtLevel' = [l \in Levels |-> verticesAtLevel[l] \o Created(b, l)]
    BY <1>5 DEF AddVertex
  <2>2. b \in Vertices /\ Parent(b) \in Vertices /\ View(b) \in Nat /\ LowestLevel \in Nat
    BY SMTT(20), Views, MaxViewAssumption DEF Vertices, TypeInv, Levels
  <2>3. TypeInv'
    <3>1. verticesAtLevel' \in [Levels -> Seq(Vertices)]
      BY <1>5, <2>1, LevelsStep
    <3>2. vertices' \subseteq Vertices /\ full' \subseteq Blocks /\ full' \subseteq vertices'
      BY <2>1, <2>2 DEF TypeInv, Touched
    <3> QED
      BY <1>1, <3>1, <3>2, KnownStep DEF TypeInv
  <2>4. \A x \in vertices' : x = Genesis \/ x \in known'
    BY SMTT(20), <2>1, KnownStep DEF ForestInv, Touched
  <2>5. \A x \in vertices' : View(x) >= LowestLevel
    BY SMTT(20), <1>2, <1>5, <2>1, <2>2 DEF ForestInv, Touched, HasParent
  <2>6. ForestInv'
    BY <1>2, <1>5, <2>4, <2>5, KnownStep, LevelsStep, AddChildren DEF ForestInv
  <2> QED
    BY <1>3, <2>3, <2>6
<1> QED
  BY <1>4, <1>5

-----------------------------------------------------------------------------
(* CommitBlock *)

(* The kind of call is told by its phase. *)
LEMMA OpFacts ==
  ASSUME TypeInv
  PROVE  /\ op.phase = "walk" => op \in WalkOps
         /\ op.phase \in {"levels", "prune"} => op \in LoopOps
         /\ op = Idle <=> op.phase = "idle"
<1>1. /\ Idle.phase = "idle"
      /\ \A o \in WalkOps : o.phase = "walk"
      /\ \A o \in LoopOps : o.phase \in {"levels", "prune"}
  BY DEF Idle, WalkOps, LoopOps
<1> QED
  BY <1>1 DEF TypeInv

(* A step that leaves the forest alone and does not begin or end to prune. *)
LEMMA ForestStays ==
  ASSUME ForestInv, UNCHANGED <<forest, history>>,
         op.phase # "prune", op'.phase # "prune" \/ op'.l = LowestLevel
  PROVE  ForestInv'
<1>1. Bottom = LowestLevel /\ Bottom' = LowestLevel
  BY DEF Bottom, forest
<1>2. /\ vertices' = vertices /\ full' = full /\ children' = children
      /\ verticesAtLevel' = verticesAtLevel /\ known' = known
  BY DEF forest, history
<1> QED
  BY <1>1, <1>2 DEF ForestInv, ChildrenComplete

(* The call of CommitBlock keeps the invariant. *)
LEMMA CallStep ==
  ASSUME Inv, NEW b \in Blocks, CommitBlockCall(b)
  PROVE  Inv'
<1> USE DEF Inv
<1>1. /\ op = Idle /\ b \in full /\ UNCHANGED <<forest, history>>
      /\ op' = [phase |-> "walk", block |-> b, cur |-> b, blocks |-> {}, before |-> full]
  BY DEF CommitBlockCall
<1>2. /\ op.phase = "idle" /\ op'.phase = "walk" /\ op'.block = b /\ op'.cur = b
      /\ op'.blocks = {} /\ op'.before = full
  BY <1>1 DEF Idle
<1>3. full' = full /\ LowestLevel' = LowestLevel
  BY <1>1 DEF forest
<1>4. TypeInv'
  <2>1. op' \in WalkOps
    BY <1>1 DEF WalkOps, TypeInv
  <2> QED
    BY <1>1, <2>1 DEF TypeInv, forest, history
<1>5. ForestInv'
  BY <1>1, <1>2, ForestStays
<1>6. WalkInv'
  <2>1. Len(b) \in 1 .. Len(b) /\ Pre(b, Len(b)) = b /\ Len(b) \in Nat
    BY SMTT(20), ChainFacts, PreEnds
  <2>2. Len(b) + 1 .. Len(b) = {} /\ \A k \in Len(b) .. Len(b) : k = Len(b)
    BY SMTT(20), <2>1
  <2>3. {Pre(b, k) : k \in Len(b) + 1 .. Len(b)} = {}
    BY <2>2
  <2> QED
    BY SMTT(20), <1>1, <1>2, <1>3, <2>1, <2>2, <2>3 DEF WalkInv
<1>7. LevelsInv' /\ PruneInv'
  BY <1>2 DEF LevelsInv, PruneInv
<1> QED
  BY <1>4, <1>5, <1>6, <1>7

(* The walk calls PruneUpToLevel with what CommitBlock shall return. *)
LEMMA PruneCallStep ==
  ASSUME Inv, op.phase = "walk", UNCHANGED <<forest, history>>,
         op' = PruneCall(CommittedBlocks(Called, op.block))
  PROVE  Inv'
<1> USE DEF Inv
<1> DEFINE b == op.block
<1>1. /\ op'.phase = "levels" /\ op'.block = b /\ op'.before = op.before
      /\ op'.blocks = CommittedBlocks(Called, b) /\ op'.l = View(b)
      /\ op'.levels = {} /\ op'.forked = {}
  BY DEF PruneCall
<1>2. op \in WalkOps
  BY OpFacts
<1>3. b \in Blocks /\ op.before \subseteq Blocks
  BY <1>2 DEF WalkOps
<1>4. full' = full /\ LowestLevel' = LowestLevel /\ Called' = Called
  BY <1>1 DEF forest, Called
<1>5. /\ Len(b) \in Nat /\ Len(b) >= 1 /\ Len(b) \in 1 .. Len(b) /\ Pre(b, Len(b)) = b
      /\ b \in full /\ full = op.before
  <2>1. Len(b) \in Nat /\ Len(b) >= 1 /\ Len(b) \in 1 .. Len(b) /\ Pre(b, Len(b)) = b
    BY SMTT(20), <1>3, ChainFacts, PreEnds
  <2>2. PICK n \in 1 .. Len(b) : \A k \in n .. Len(b) : Pre(b, k) \in full
    BY DEF WalkInv
  <2> QED
    BY SMTT(20), <2>1, <2>2 DEF WalkInv
<1>6. TypeInv'
  <2>1. CommittedBlocks(Called, b) \subseteq Blocks
    BY <1>3, PrefixFacts DEF CommittedBlocks, Linked
  <2>2. View(b) \in Nat
    BY <1>3, Views DEF Vertices
  <2>3. op' \in LoopOps
    BY <1>3, <2>1, <2>2 DEF LoopOps, PruneCall
  <2> QED
    BY <2>3 DEF TypeInv, forest, history
<1>7. ForestInv'
  BY <1>1, ForestStays
<1>8. LevelsInv'
  <2>1. Len(b) .. Len(b) - 1 = {} /\ \A k \in Len(b) .. Len(b) : k = Len(b)
    BY SMTT(20), <1>5
  <2>2. {View(Pre(b, k)) : k \in Len(b) .. Len(b) - 1} = {}
    BY <2>1
  <2>3. \E n \in 1 .. Len(op'.block) :
          /\ op'.l = View(Pre(op'.block, n))
          /\ op'.levels = {View(Pre(op'.block, k)) : k \in n .. Len(op'.block) - 1}
          /\ \A k \in n .. Len(op'.block) : Pre(op'.block, k) \in full'
    BY <1>1, <1>4, <1>5, <2>1, <2>2
  <2> QED
    BY <1>1, <1>4, <1>5, <2>3 DEF LevelsInv
<1>9. WalkInv' /\ PruneInv'
  BY <1>1 DEF WalkInv, PruneInv
<1> QED
  BY <1>6, <1>7, <1>8, <1>9

(* An iteration of the loop of CommitBlock keeps the invariant. *)
LEMMA WalkStep ==
  ASSUME Inv, CommitWalk
  PROVE  Inv'
<1> USE DEF Inv
<1> DEFINE b == op.block
<1>1. op.phase = "walk" /\ UNCHANGED <<forest, history>>
  BY DEF CommitWalk
<1>2. op \in WalkOps
  BY <1>1, OpFacts
<1>3. b \in Blocks /\ op.before \subseteq Blocks /\ full = op.before /\ LowestLevel \in Nat
  BY SMTT(20), <1>1, <1>2, MaxViewAssumption DEF WalkOps, WalkInv, TypeInv, Levels
<1>4. PICK n \in 1 .. Len(b) :
        /\ op.cur = Pre(b, n)
        /\ op.blocks = {Pre(b, k) : k \in n + 1 .. Len(b)}
        /\ \A k \in n .. Len(b) : Pre(b, k) \in full
        /\ \A k \in n + 1 .. Len(b) : View(Pre(b, k)) > LowestLevel
  BY <1>1 DEF WalkInv
<1>5. /\ Len(b) \in Nat /\ n \in Nat /\ n >= 1 /\ n <= Len(b)
      /\ Parent(op.cur) = Pre(b, n - 1) /\ op.cur \in full /\ View(op.cur) \in Nat
  <2>1. Len(b) \in Nat /\ n \in Nat /\ n >= 1 /\ n <= Len(b)
    BY SMTT(20), <1>3, <1>4, ChainFacts
  <2>2. Parent(op.cur) = Pre(b, n - 1)
    BY <1>3, <1>4, PreFacts
  <2>3. op.cur \in full
    BY SMTT(20), <1>4, <2>1
  <2> QED
    BY <1>3, <2>1, <2>2, <2>3, Views DEF Vertices
<1>6. Called.tree = full /\ Called.lowest = LowestLevel
  BY <1>3 DEF Called
<1>7. /\ View(op.cur) <= LowestLevel
           => CommittedBlocks(Called, b) = {Pre(b, k) : k \in n + 1 .. Len(b)}
      /\ View(op.cur) > LowestLevel /\ Pre(b, n - 1) \notin full
           => CommittedBlocks(Called, b) = {Pre(b, k) : k \in n .. Len(b)}
  BY SMTT(20), <1>3, <1>4, <1>6, CommittedFacts
<1>8. CASE View(op.cur) <= LowestLevel
  <2>1. op' = PruneCall(CommittedBlocks(Called, b))
    BY <1>4, <1>7, <1>8 DEF CommitWalk
  <2> QED
    BY <1>1, <2>1, PruneCallStep
<1>9. CASE ~(View(op.cur) <= LowestLevel) /\ Parent(op.cur) \notin full
  <2>1. op' = PruneCall(op.blocks \cup {op.cur})
    BY <1>9 DEF CommitWalk
  <2>2. \A k : k \in n .. Len(b) <=> k = n \/ k \in n + 1 .. Len(b)
    BY SMTT(20), <1>5
  <2>3. op.blocks \cup {op.cur} = {Pre(b, k) : k \in n .. Len(b)}
    BY <1>4, <2>2
  <2>4. View(op.cur) > LowestLevel
    BY SMTT(20), <1>3, <1>5, <1>9
  <2>5. op' = PruneCall(CommittedBlocks(Called, b))
    BY <1>5, <1>7, <1>9, <2>1, <2>3, <2>4
  <2> QED
    BY <1>1, <2>5, PruneCallStep
<1>10. CASE ~(View(op.cur) <= LowestLevel) /\ Parent(op.cur) \in full
  <2>1. op' = [op EXCEPT !.blocks = @ \cup {op.cur}, !.cur = Parent(@)]
    BY <1>10 DEF CommitWalk
  <2>2. Parent(op.cur) \in Blocks /\ op.cur \in Blocks /\ op.blocks \subseteq Blocks
    BY <1>2, <1>10 DEF TypeInv, WalkOps
  <2>3. /\ op' \in WalkOps /\ op'.phase = "walk" /\ op'.block = b /\ op'.before = op.before
        /\ op'.cur = Parent(op.cur) /\ op'.blocks = op.blocks \cup {op.cur}
    BY <1>1, <1>2, <2>1, <2>2 DEF WalkOps
  <2>4. n # 1 /\ n - 1 \in 1 .. Len(b)
    <3>1. n # 1
      BY SMTT(20), <1>3, <1>5, <2>2, PreEnds, Views
    <3> QED
      BY SMTT(20), <1>5, <3>1
  <2>5. TypeInv'
    BY <1>1, <2>3 DEF TypeInv, forest, history
  <2>6. ForestInv'
    BY <1>1, <2>3, ForestStays
  <2>7. WalkInv'
    <3>1. full' = full /\ LowestLevel' = LowestLevel
      BY <1>1 DEF forest
    <3>2. /\ \A k : k \in n .. Len(b) <=> k = n \/ k \in n + 1 .. Len(b)
          /\ n - 1 + 1 = n
          /\ \A k : k \in n - 1 .. Len(b) <=> k = n - 1 \/ k \in n .. Len(b)
      BY SMTT(20), <1>5, <2>4
    <3>3. op'.blocks = {Pre(b, k) : k \in n .. Len(b)}
      BY <1>4, <2>3, <3>2
    <3>4. \A k \in n - 1 .. Len(b) : Pre(b, k) \in full
      BY <1>4, <1>5, <1>10, <3>2
    <3>5. \A k \in n .. Len(b) : View(Pre(b, k)) > LowestLevel
      BY SMTT(20), <1>3, <1>4, <1>5, <1>10, <3>2
    <3>6. \E m \in 1 .. Len(op'.block) :
            /\ op'.cur = Pre(op'.block, m)
            /\ op'.blocks = {Pre(op'.block, k) : k \in m + 1 .. Len(op'.block)}
            /\ \A k \in m .. Len(op'.block) : Pre(op'.block, k) \in full'
            /\ \A k \in m + 1 .. Len(op'.block) : View(Pre(op'.block, k)) > LowestLevel'
      <4>1. n - 1 \in 1 .. Len(op'.block)
        BY <2>3, <2>4
      <4>2. /\ op'.cur = Pre(op'.block, n - 1)
            /\ op'.blocks = {Pre(op'.block, k) : k \in n - 1 + 1 .. Len(op'.block)}
            /\ \A k \in n - 1 .. Len(op'.block) : Pre(op'.block, k) \in full'
            /\ \A k \in n - 1 + 1 .. Len(op'.block) : View(Pre(op'.block, k)) > LowestLevel'
        <5>1. n - 1 + 1 = n
          BY SMTT(20), <1>5
        <5> QED
          BY <1>5, <2>3, <3>1, <3>3, <3>4, <3>5, <5>1
      <4> QED
        BY <4>1, <4>2
    <3> QED
      BY <1>3, <2>3, <3>1, <3>6 DEF WalkInv
  <2>8. LevelsInv' /\ PruneInv'
    BY <2>3 DEF LevelsInv, PruneInv
  <2> QED
    BY <2>5, <2>6, <2>7, <2>8
<1> QED
  BY <1>8, <1>9, <1>10

-----------------------------------------------------------------------------
(* The first loop of PruneUpToLevel *)

(* A level with a full container has no other. *)
LEMMA FirstFacts ==
  ASSUME TypeInv, ForestInv, NEW x \in full
  PROVE  verticesAtLevel[View(x)] # << >> /\ First(View(x)) = x
<1> DEFINE s == verticesAtLevel[View(x)]
<1>1. x \in vertices /\ View(x) \in Levels
  BY Views DEF TypeInv
<1>2. s \in Seq(Vertices) /\ Range(s) = {y \in vertices : View(y) = View(x)} /\ Len(s) <= 1
  BY <1>1 DEF TypeInv, ForestInv
<1>3. PICK i \in DOMAIN s : s[i] = x
  BY <1>1, <1>2 DEF Range
<1>4. i = 1
  BY SMTT(20), <1>2, <1>3, LenProperties
<1> QED
  BY SMTT(20), <1>3, <1>4, EmptySeq DEF First

(* Where the loop stops it has found the committed levels. *)
LEMMA LevelsFound ==
  ASSUME Inv, op.phase = "levels", NEW n \in 1 .. Len(op.block),
         \A k \in n .. Len(op.block) : Pre(op.block, k) \in full,
         Pre(op.block, n - 1) \notin full,
         NEW l \in Nat, l < View(op.block)
  PROVE  l \in {View(Pre(op.block, k)) : k \in n .. Len(op.block) - 1} <=> l \in CommittedLevels
<1> USE DEF Inv
<1> DEFINE b == op.block
<1>1. b \in Blocks /\ full = op.before /\ full \subseteq vertices /\ Bottom = LowestLevel
  BY OpFacts DEF LoopOps, LevelsInv, TypeInv, Bottom
<1>2. Len(b) \in Nat /\ n \in Nat /\ n >= 1 /\ n <= Len(b) /\ Pre(b, Len(b)) = b
  BY SMTT(20), <1>1, ChainFacts, PreEnds
<1>3. Called.tree = full
  BY <1>1 DEF Called
<1>4. ASSUME NEW k \in n .. Len(b) - 1 PROVE View(Pre(b, k)) \in CommittedLevels
  <2>1. k \in 1 .. Len(b) /\ k \in n .. Len(b) /\ \A m \in k .. Len(b) : m \in n .. Len(b)
    BY SMTT(20), <1>2
  <2>2. Pre(b, k) \in Linked(Called, b)
    BY <1>1, <1>3, <2>1, LinkedFacts
  <2>3. View(Pre(b, k)) >= LowestLevel
    BY <1>1, <2>1 DEF ForestInv
  <2> QED
    BY <2>2, <2>3 DEF CommittedLevels
<1>5. ASSUME l \in CommittedLevels
      PROVE  l \in {View(Pre(b, k)) : k \in n .. Len(b) - 1}
  <2>1. PICK q \in Linked(Called, b) : l = View(q)
    BY <1>5 DEF CommittedLevels
  <2>2. PICK k \in 1 .. Len(b) : q = Pre(b, k)
    BY <1>1, LinkedFacts
  <2>3. \A m \in k .. Len(b) : Pre(b, m) \in full
    BY <1>1, <1>3, <2>2, LinkedFacts
  <2>4. n - 1 \notin k .. Len(b)
    BY <2>3
  <2>5. l < View(b) /\ l \in Nat
    OBVIOUS
  <2>6. k # Len(b)
    BY SMTT(20), <1>2, <2>1, <2>2, <2>5
  <2>7. k \in n .. Len(b) - 1
    BY SMTT(20), <1>2, <2>4, <2>6
  <2> QED
    BY <2>1, <2>2, <2>7
<1> QED
  BY <1>4, <1>5

(* The end of the first loop keeps the invariant. *)
LEMMA PruneLoopStep ==
  ASSUME Inv, op.phase = "levels", UNCHANGED <<forest, history>>, op' = PruneLoop,
         NEW n \in 1 .. Len(op.block),
         op.levels = {View(Pre(op.block, k)) : k \in n .. Len(op.block) - 1},
         \A k \in n .. Len(op.block) : Pre(op.block, k) \in full,
         Pre(op.block, n - 1) \notin full
  PROVE  Inv'
<1> USE DEF Inv
<1> DEFINE b == op.block
<1>1. op \in LoopOps
  BY OpFacts
<1>2. /\ b \in Blocks /\ op.before \subseteq Blocks /\ full = op.before /\ op.forked = {}
      /\ full \subseteq vertices /\ LowestLevel \in Nat /\ Bottom = LowestLevel
  BY SMTT(20), <1>1, MaxViewAssumption DEF LoopOps, LevelsInv, TypeInv, Levels, Bottom
<1>3. /\ op' \in LoopOps /\ op'.phase = "prune" /\ op'.block = b /\ op'.before = op.before
      /\ op'.blocks = op.blocks /\ op'.l = LowestLevel /\ op'.levels = op.levels
      /\ op'.forked = {}
  BY <1>1, <1>2 DEF LoopOps, PruneLoop
<1>4. full' = full /\ LowestLevel' = LowestLevel /\ Called' = Called
  BY <1>3 DEF forest, Called
<1>5. TypeInv'
  BY <1>3 DEF TypeInv, forest, history
<1>6. ForestInv'
  BY <1>3, ForestStays
<1>7. \A x \in full : View(x) >= LowestLevel /\ View(x) \in Nat
  BY <1>2, Views DEF ForestInv, Vertices
<1>8. PruneInv'
  <2>1. b \in full /\ View(b) \in Nat
    <3>1. Len(b) \in n .. Len(b) /\ Pre(b, Len(b)) = b
      BY SMTT(20), <1>2, ChainFacts, PreEnds
    <3> QED
      BY <1>2, <3>1, Views DEF Vertices
  <2>2. \A l \in Nat : l < View(b) => (l \in op.levels <=> l \in CommittedLevels)
    BY LevelsFound
  <2>3. CommittedLevels' = CommittedLevels
    BY <1>3, <1>4 DEF CommittedLevels
  <2>4. full = {x \in op.before : View(x) >= LowestLevel}
    BY <1>2, <1>7
  <2>5. {x \in op.before : View(x) < LowestLevel /\ View(x) > 1 /\ View(x) \notin op.levels} = {}
    BY SMTT(20), <1>2, <1>7
  <2>6. op.blocks = CommittedBlocks(Called, b)
    BY DEF LevelsInv
  <2> QED
    BY SMTT(20), <1>2, <1>3, <1>4, <1>7, <2>1, <2>2, <2>3, <2>4, <2>5, <2>6 DEF PruneInv
<1>9. WalkInv' /\ LevelsInv'
  BY <1>3 DEF WalkInv, LevelsInv
<1> QED
  BY <1>5, <1>6, <1>8, <1>9

(* An iteration of the first loop keeps the invariant. *)
LEMMA FindStep ==
  ASSUME Inv, FindLevels
  PROVE  Inv'
<1> USE DEF Inv
<1> DEFINE b == op.block
<1>1. op.phase = "levels" /\ UNCHANGED <<forest, history>>
  BY DEF FindLevels
<1>2. op \in LoopOps
  BY <1>1, OpFacts
<1>3. /\ b \in Blocks /\ op.before \subseteq Blocks /\ full = op.before
      /\ full \subseteq vertices /\ full \subseteq Blocks
      /\ LowestLevel \in Nat /\ Bottom = LowestLevel
  BY SMTT(20), <1>1, <1>2, MaxViewAssumption DEF LoopOps, LevelsInv, TypeInv, Levels, Bottom
<1>4. PICK n \in 1 .. Len(b) :
        /\ op.l = View(Pre(b, n))
        /\ op.levels = {View(Pre(b, k)) : k \in n .. Len(b) - 1}
        /\ \A k \in n .. Len(b) : Pre(b, k) \in full
  BY <1>1 DEF LevelsInv
<1>5. Len(b) \in Nat /\ n \in Nat /\ n >= 1 /\ n <= Len(b) /\ Pre(b, n) \in full
  BY SMTT(20), <1>3, <1>4, ChainFacts
<1>6. First(op.l) = Pre(b, n) /\ Parent(First(op.l)) = Pre(b, n - 1)
  BY SMTT(20), <1>3, <1>4, <1>5, FirstFacts, PreFacts
<1>7. op.l \in Nat /\ op.l >= LowestLevel
  BY SMTT(20), <1>3, <1>4, <1>5, Views DEF Vertices, ForestInv
<1>8. n = 1 => Pre(b, n - 1) \notin full
  <2>1. Pre(b, 0) \notin full
    BY <1>3, PreEnds, Views
  <2> QED
    BY SMTT(20), <2>1
<1>9. CASE op.l <= 1 \/ Pre(b, n - 1) \notin full \/ View(Pre(b, n - 1)) < LowestLevel
  <2>1. op' = PruneLoop
    BY <1>3, <1>6, <1>7, <1>9 DEF FindLevels
  <2>2. op.l <= 1 => n = 1
    <3>1. op.l = b[n] /\ b[1] \in Nat /\ b[1] >= 1 /\ (1 < n => b[1] < b[n])
      BY SMTT(20), <1>3, <1>4, <1>5, ChainFacts
    <3> QED
      BY SMTT(20), <1>5, <1>7, <3>1
  <2>3. \A x \in full : View(x) >= LowestLevel /\ View(x) \in Nat
    BY <1>3, Views DEF ForestInv, Vertices
  <2>4. Pre(b, n - 1) \notin full
    BY SMTT(20), <1>3, <1>8, <1>9, <2>2, <2>3
  <2> QED
    BY <1>1, <1>4, <2>1, <2>4, PruneLoopStep
<1>10. CASE ~(op.l <= 1 \/ Pre(b, n - 1) \notin full \/ View(Pre(b, n - 1)) < LowestLevel)
  <2> DEFINE v == View(Pre(b, n - 1))
  <2>1. op' = [op EXCEPT !.levels = @ \cup {v}, !.l = v]
    BY SMTT(20), <1>3, <1>6, <1>7, <1>10 DEF FindLevels
  <2>2. Pre(b, n - 1) \in full /\ v \in Nat
    BY <1>3, <1>10, Views DEF Vertices
  <2>3. n # 1 /\ n - 1 \in 1 .. Len(b)
    BY SMTT(20), <1>5, <1>8, <2>2
  <2>4. /\ op' \in LoopOps /\ op'.phase = "levels" /\ op'.block = b /\ op'.before = op.before
        /\ op'.blocks = op.blocks /\ op'.l = v /\ op'.levels = op.levels \cup {v}
        /\ op'.forked = op.forked
    BY <1>1, <1>2, <2>1, <2>2 DEF LoopOps
  <2>5. full' = full /\ LowestLevel' = LowestLevel /\ Called' = Called
    BY <1>1, <2>4 DEF forest, Called
  <2>6. TypeInv'
    BY <1>1, <2>4 DEF TypeInv, forest, history
  <2>7. ForestInv'
    BY <1>1, <2>4, ForestStays
  <2>8. LevelsInv'
    <3>1. /\ \A k : k \in n - 1 .. Len(b) - 1 <=> k = n - 1 \/ k \in n .. Len(b) - 1
          /\ \A k : k \in n - 1 .. Len(b) <=> k = n - 1 \/ k \in n .. Len(b)
      BY SMTT(20), <1>5, <2>3
    <3>2. op'.levels = {View(Pre(b, k)) : k \in n - 1 .. Len(b) - 1}
      BY <1>4, <2>4, <3>1
    <3>3. \A k \in n - 1 .. Len(b) : Pre(b, k) \in full
      BY <1>4, <2>2, <3>1
    <3>4. \E m \in 1 .. Len(op'.block) :
            /\ op'.l = View(Pre(op'.block, m))
            /\ op'.levels = {View(Pre(op'.block, k)) : k \in m .. Len(op'.block) - 1}
            /\ \A k \in m .. Len(op'.block) : Pre(op'.block, k) \in full'
      <4>1. n - 1 \in 1 .. Len(op'.block)
        BY <2>3, <2>4
      <4> QED
        BY <2>4, <2>5, <3>2, <3>3, <4>1
    <3>5. op.forked = {} /\ op.blocks = CommittedBlocks(Called, b)
      BY <1>1 DEF LevelsInv
    <3> QED
      BY <1>3, <2>4, <2>5, <3>4, <3>5 DEF LevelsInv
  <2>9. WalkInv' /\ PruneInv'
    BY <2>4 DEF WalkInv, PruneInv
  <2> QED
    BY <2>6, <2>7, <2>8, <2>9
<1> QED
  BY <1>9, <1>10

-----------------------------------------------------------------------------
(* The second loop of PruneUpToLevel *)

(* The level that is pruned, and what is on it. *)
LEMMA PruneFacts ==
  ASSUME Inv, op.phase = "prune"
  PROVE  /\ op \in LoopOps /\ op.block \in Blocks /\ op.before \subseteq Blocks
         /\ View(op.block) \in Levels /\ View(op.block) \in Nat
         /\ op.l \in Nat /\ op.l <= View(op.block) /\ op.l \in Levels
         /\ Range(verticesAtLevel[op.l]) = {x \in vertices : View(x) = op.l}
         /\ Bottom = op.l
<1> USE DEF Inv
<1>1. op \in LoopOps
  BY OpFacts
<1>2. op.block \in Blocks /\ op.before \subseteq Blocks /\ op.l \in Nat
  BY <1>1 DEF LoopOps
<1>3. View(op.block) \in Levels /\ View(op.block) \in Nat
  BY <1>2, Views DEF Vertices
<1>4. op.l <= View(op.block) /\ op.l \in Levels
  BY SMTT(20), <1>2, <1>3, MaxViewAssumption DEF PruneInv, Levels
<1> QED
  BY <1>1, <1>2, <1>3, <1>4 DEF ForestInv, Bottom

(* Deleting a level keeps the invariant. *)
LEMMA PruneLevelStep ==
  ASSUME Inv, PruneLevel
  PROVE  Inv'
<1> USE DEF Inv
<1>1. /\ op.phase = "prune" /\ op.l < View(op.block)
      /\ vertices' = vertices \ Pruned /\ full' = full \ Pruned
      /\ children' = {e \in children : e[1] \notin Pruned}
      /\ verticesAtLevel' = [verticesAtLevel EXCEPT ![op.l] = << >>]
      /\ LowestLevel' = LowestLevel /\ known' = known
  BY DEF PruneLevel, Prunes, history
<1>2. /\ op \in LoopOps /\ op.block \in Blocks /\ op.before \subseteq Blocks
      /\ op.l \in Nat /\ op.l \in Levels
      /\ Pruned = {x \in vertices : View(x) = op.l} /\ Bottom = op.l
      /\ View(op.block) \in Nat
  BY <1>1, PruneFacts DEF Pruned
<1>3. \A x \in vertices : View(x) \in Nat /\ View(x) >= op.l
  BY <1>2, Views DEF TypeInv, ForestInv
<1>4. \A x \in full : /\ x \in vertices /\ View(Parent(x)) \in Nat /\ View(Parent(x)) < View(x)
                      /\ View(x) \in Nat
  BY Views DEF TypeInv, Vertices
<1>5. LET f == IF IsForked THEN op.forked \cup (Pruned \cap full) ELSE op.forked
      IN  /\ op' \in LoopOps /\ op'.phase = "prune" /\ op'.block = op.block
          /\ op'.before = op.before /\ op'.blocks = op.blocks /\ op'.l = op.l + 1
          /\ op'.levels = op.levels /\ op'.forked = f
  <2> DEFINE f == IF IsForked THEN op.forked \cup (Pruned \cap full) ELSE op.forked
  <2>1. op' = [op EXCEPT !.l = op.l + 1, !.forked = f]
    BY DEF PruneLevel
  <2>2. f \in SUBSET Blocks /\ op.l + 1 \in Nat
    BY SMTT(20), <1>2 DEF LoopOps, TypeInv
  <2> HIDE DEF f
  <2>3. /\ op' \in LoopOps /\ op'.phase = "prune" /\ op'.block = op.block
        /\ op'.before = op.before /\ op'.blocks = op.blocks /\ op'.l = op.l + 1
        /\ op'.levels = op.levels /\ op'.forked = f
    BY <1>1, <1>2, <2>1, <2>2 DEF LoopOps
  <2> QED
    BY <2>3 DEF f
<1>6. Bottom' = op.l + 1
  BY <1>5 DEF Bottom
<1>7. TypeInv'
  <2>1. << >> \in Seq(Vertices)
    BY SMTT(20)
  <2>2. verticesAtLevel' \in [Levels -> Seq(Vertices)]
    BY <1>1, <1>2, <2>1 DEF TypeInv
  <2> QED
    BY <1>1, <1>5, <2>2 DEF TypeInv
<1>8. \A x \in vertices' : View(x) >= op.l + 1
  BY SMTT(20), <1>1, <1>2, <1>3
<1>9. ASSUME NEW l \in Levels
      PROVE  /\ Len(verticesAtLevel'[l]) <= 1
             /\ Range(verticesAtLevel'[l]) = {x \in vertices' : View(x) = l}
  <2>1. CASE l = op.l
    <3>1. verticesAtLevel'[l] = << >>
      BY <1>1, <1>2, <2>1 DEF TypeInv
    <3>2. Range(<< >>) = {} /\ Len(<< >>) = 0
      BY SMTT(20) DEF Range
    <3>3. {x \in vertices' : View(x) = l} = {}
      BY <1>1, <1>2, <2>1
    <3> QED
      BY SMTT(20), <3>1, <3>2, <3>3
  <2>2. CASE l # op.l
    <3>1. verticesAtLevel'[l] = verticesAtLevel[l]
      BY <1>1, <1>2, <2>2 DEF TypeInv
    <3>2. {x \in vertices' : View(x) = l} = {x \in vertices : View(x) = l}
      BY <1>1, <1>2, <2>2
    <3> QED
      BY <3>1, <3>2 DEF ForestInv
  <2> QED
    BY <2>1, <2>2
<1>10. \A x \in full' : View(Parent(x)) >= op.l + 1 => Parent(x) \in vertices'
  <2>1. ASSUME NEW x \in full', View(Parent(x)) >= op.l + 1
        PROVE  Parent(x) \in vertices /\ Parent(x) \notin Pruned
    BY SMTT(20), <1>1, <1>2, <1>4, <2>1 DEF ForestInv
  <2> QED
    BY <1>1, <2>1
<1>11. ChildrenComplete'
  <2>1. children = {e \in vertices \X full : e[1] = Parent(e[2])}
    BY DEF ForestInv, ChildrenComplete
  <2>2. \A x \in full : Parent(x) \in vertices' => x \in full'
    BY SMTT(20), <1>1, <1>2, <1>3, <1>4
  <2>3. children' = {e \in vertices' \X full' : e[1] = Parent(e[2])}
    BY <1>1, <2>1, <2>2
  <2> QED
    BY <2>3 DEF ChildrenComplete
<1>12. ForestInv'
  BY <1>1, <1>6, <1>8, <1>9, <1>10, <1>11 DEF ForestInv
<1>13. PruneInv'
  <2>1. /\ LowestLevel <= op.l /\ op.block \in op.before
        /\ op.blocks = CommittedBlocks(Called, op.block)
        /\ \A l \in Nat : l < View(op.block) => (l \in op.levels <=> l \in CommittedLevels)
        /\ full = {x \in op.before : View(x) >= op.l}
        /\ op.forked = {x \in op.before : View(x) < op.l /\ View(x) > 1 /\ View(x) \notin op.levels}
    BY <1>1 DEF PruneInv
  <2>2. Called' = Called /\ CommittedLevels' = CommittedLevels
    BY <1>1, <1>5 DEF Called, CommittedLevels
  <2>3. \A x \in op.before : View(x) \in Nat
    BY <1>2, Views DEF Vertices
  <2>4. Pruned \cap full = {x \in op.before : View(x) = op.l}
    BY SMTT(20), <1>2, <1>4, <2>1, <2>3
  <2>5. full' = {x \in op.before : View(x) >= op.l + 1}
    BY SMTT(20), <1>1, <1>2, <1>4, <2>1, <2>3
  <2>6. op'.forked = {x \in op.before : /\ View(x) < op.l + 1 /\ View(x) > 1
                                        /\ View(x) \notin op.levels}
    <3>1. CASE IsForked
      <4>1. op'.forked = op.forked \cup (Pruned \cap full)
        BY <1>5, <3>1
      <4>2. op.l \notin op.levels /\ op.l > 1
        BY <3>1 DEF IsForked
      <4> QED
        BY SMTT(20), <1>2, <2>1, <2>3, <2>4, <4>1, <4>2
    <3>2. CASE ~IsForked
      <4>1. op'.forked = op.forked
        BY <1>5, <3>2
      <4>2. op.l \in op.levels \/ ~(op.l > 1)
        BY <3>2 DEF IsForked
      <4> QED
        BY SMTT(20), <1>2, <2>1, <2>3, <4>1, <4>2
    <3> QED
      BY <3>1, <3>2
  <2>7. LowestLevel \in Nat /\ LowestLevel <= op.l + 1 /\ op.l + 1 <= View(op.block)
    BY SMTT(20), <1>1, <1>2, <2>1, MaxViewAssumption DEF TypeInv, Levels
  <2> QED
    BY <1>1, <1>5, <2>1, <2>2, <2>5, <2>6, <2>7 DEF PruneInv
<1>14. WalkInv' /\ LevelsInv'
  BY <1>5 DEF WalkInv, LevelsInv
<1> QED
  BY <1>7, <1>12, <1>13, <1>14

(* The end of PruneUpToLevel and CommitBlock keeps the invariant. *)
LEMMA PruneEndStep ==
  ASSUME Inv, PruneEnd
  PROVE  Inv'
<1> USE DEF Inv
<1>1. /\ op.phase = "prune" /\ ~(op.l < View(op.block)) /\ op' = Idle
      /\ LowestLevel' = View(op.block)
      /\ UNCHANGED <<vertices, full, children, verticesAtLevel, known>>
  BY DEF PruneEnd, Prunes
<1>2. op.l = View(op.block) /\ Bottom = op.l /\ View(op.block) \in Levels
  BY SMTT(20), <1>1, PruneFacts
<1>3. op'.phase = "idle" /\ Bottom' = Bottom
  BY <1>1, <1>2 DEF Idle, Bottom
<1>4. TypeInv'
  BY <1>1, <1>2 DEF TypeInv
<1>5. ForestInv'
  BY <1>1, <1>3 DEF ForestInv, ChildrenComplete
<1>6. WalkInv' /\ LevelsInv' /\ PruneInv'
  BY <1>3 DEF WalkInv, LevelsInv, PruneInv
<1> QED
  BY <1>4, <1>5, <1>6

-----------------------------------------------------------------------------
(* The forest is well formed *)

(* An empty forest is well formed. *)
LEMMA ForestInit == Init => Inv
<1> SUFFICES ASSUME Init PROVE Inv
  OBVIOUS
<1>1. op.phase = "idle" /\ op = Idle
  BY DEF Init, Idle
<1>2. TypeInv
  <2>1. << >> \in Seq(Vertices) /\ 0 \in Levels
    BY SMTT(20), MaxViewAssumption DEF Levels
  <2> QED
    BY <2>1 DEF Init, TypeInv
<1>3. ForestInv
  <2>1. Range(<< >>) = {} /\ Len(<< >>) = 0
    BY SMTT(20) DEF Range
  <2>2. \A l \in Levels : verticesAtLevel[l] = << >>
    BY DEF Init
  <2>3. ChildrenComplete
    BY DEF Init, ChildrenComplete
  <2> QED
    BY SMTT(20), <2>1, <2>2, <2>3 DEF Init, ForestInv
<1>4. WalkInv /\ LevelsInv /\ PruneInv
  BY <1>1 DEF WalkInv, LevelsInv, PruneInv
<1> QED
  BY <1>2, <1>3, <1>4 DEF Inv

(* Every step keeps the invariant. *)
LEMMA ForestStep == Inv /\ [Next]_vars => Inv'
<1> SUFFICES ASSUME Inv, [Next]_vars PROVE Inv'
  OBVIOUS
<1>1. CASE \E b \in Blocks : AddVertex(b)
  BY <1>1, AddStep
<1>2. CASE \E b \in Blocks : CommitBlockCall(b)
  BY <1>2, CallStep
<1>3. CASE CommitWalk
  BY <1>3, WalkStep
<1>4. CASE FindLevels
  BY <1>4, FindStep
<1>5. CASE PruneLevel
  BY <1>5, PruneLevelStep
<1>6. CASE PruneEnd
  BY <1>6, PruneEndStep
<1>7. CASE UNCHANGED vars
  <2>1. /\ vertices' = vertices /\ full' = full /\ children' = children /\ op' = op
        /\ verticesAtLevel' = verticesAtLevel /\ LowestLevel' = LowestLevel /\ known' = known
    BY <1>7 DEF vars, forest, history
  <2>2. Bottom' = Bottom /\ Called' = Called /\ CommittedLevels' = CommittedLevels
    BY <2>1 DEF Bottom, Called, CommittedLevels
  <2>3. TypeInv' /\ ForestInv'
    BY <2>1, <2>2 DEF Inv, TypeInv, ForestInv, ChildrenComplete
  <2>4. WalkInv' /\ LevelsInv'
    BY SMTT(20), <2>1, <2>2 DEF Inv, WalkInv, LevelsInv
  <2>5. PruneInv'
    BY <2>1, <2>2 DEF Inv, PruneInv
  <2> QED
    BY <2>3, <2>4, <2>5 DEF Inv
<1> QED
  BY <1>1, <1>2, <1>3, <1>4, <1>5, <1>6, <1>7 DEF Next

(* The invariant holds in every state. *)
LEMMA ForestInvariant == Spec => []Inv
  BY ForestInit, ForestStep, PTL DEF Spec

(* The two indexes of the forest hold the same containers, at most one per *)
(* level and none below the lowest, in whatever order AddVertex gets the   *)
(* blocks and between any two iterations of the loop that prunes.          *)
THEOREM LevelsIndexVertices == Spec => []IndexesAgree
<1>1. Inv => IndexesAgree
  <2> SUFFICES ASSUME Inv PROVE IndexesAgree
    OBVIOUS
  <2> QED
    BY DEF Inv, ForestInv, IndexesAgree, Bottom
<1> QED
  BY <1>1, ForestInvariant, PTL

(* A container has exactly the stored blocks that extend it as children,   *)
(* also those registered before it was full.                               *)
THEOREM ChildrenRegistered == Spec => []ChildrenComplete
<1>1. Inv => ChildrenComplete
  BY DEF Inv, ForestInv
<1> QED
  BY <1>1, ForestInvariant, PTL

(* The first container of every level the walk of PruneUpToLevel looks at  *)
(* is full, so that it never dereferences a nil vertex, and on the chain   *)
(* of the block that is committed.                                         *)
THEOREM WalkNeverNil == Spec => []WalkIsFull
<1>1. Inv => WalkIsFull
  <2> SUFFICES ASSUME Inv, op.phase = "levels"
               PROVE  /\ verticesAtLevel[op.l] # << >>
                      /\ First(op.l) \in full /\ Extends(op.block, First(op.l))
    BY DEF WalkIsFull
  <2> DEFINE b == op.block
  <2>1. b \in Blocks
    BY OpFacts DEF Inv, LoopOps
  <2>2. PICK n \in 1 .. Len(b) :
          /\ op.l = View(Pre(b, n))
          /\ \A k \in n .. Len(b) : Pre(b, k) \in full
    BY DEF Inv, LevelsInv
  <2>3. Len(b) \in Nat /\ n \in n .. Len(b) /\ n <= Len(b) /\ Pre(b, n) \in full
    BY SMTT(20), <2>1, <2>2, ChainFacts
  <2>4. verticesAtLevel[op.l] # << >> /\ First(op.l) = Pre(b, n)
    BY <2>2, <2>3, FirstFacts DEF Inv
  <2>5. Extends(b, Pre(b, n))
    BY <2>1, <2>2, <2>3, PreFacts DEF Extends, Pre
  <2> QED
    BY <2>3, <2>4, <2>5
<1> QED
  BY <1>1, ForestInvariant, PTL

-----------------------------------------------------------------------------
(* The forest implements the block store *)

(* BlockStore has the operators of Blockchain. *)
LEMMA SameOperators ==
  /\ \A b : Store!View(b) = View(b) /\ Store!Prefixes(b) = Prefixes(b)
  /\ \A s, b : Store!Linked(s, b) = Linked(s, b)
  /\ \A s, b : Store!CommittedBlocks(s, b) = CommittedBlocks(s, b)
  /\ \A s, b : Store!ForkedBlocks(s, b) = ForkedBlocks(s, b)
<1>1. \A b : Store!View(b) = View(b) /\ Store!Prefixes(b) = Prefixes(b)
  BY DEF Store!View, View, Store!Genesis, Genesis, Store!Prefixes, Prefixes
<1>2. \A s, b : Store!Linked(s, b) = Linked(s, b)
  BY <1>1 DEF Store!Linked, Linked
<1>3. \A s, b : Store!CommittedBlocks(s, b) = CommittedBlocks(s, b)
  BY <1>1, <1>2 DEF Store!CommittedBlocks, CommittedBlocks
<1>4. \A s, b : Store!ForkedBlocks(s, b) = ForkedBlocks(s, b)
  BY <1>1, <1>2 DEF Store!ForkedBlocks, ForkedBlocks
<1> QED
  BY <1>1, <1>2, <1>3, <1>4

(* The store that the forest stands for. *)
Stored ==
  [tree |-> IF op = Idle THEN full ELSE op.before, lowest |-> LowestLevel, votes |-> {}]

(* A step inside of CommitBlock does not change the store. *)
LEMMA StoreStutters ==
  ASSUME op # Idle \/ op'.before = full, op' # Idle, op # Idle => op'.before = op.before,
         UNCHANGED <<LowestLevel, committed, forked>>
  PROVE  UNCHANGED Store!vars
  BY DEF Store!vars

(* AddVertex adds a block to the store. *)
LEMMA AddRefines ==
  ASSUME Inv, NEW b \in Blocks, AddVertex(b)
  PROVE  Store!Next
<1>1. /\ op = Idle /\ op' = Idle /\ UNCHANGED <<LowestLevel, committed, forked>>
      /\ full' = IF View(b) < LowestLevel \/ b \in full THEN full ELSE full \cup {b}
  BY DEF AddVertex
<1>2. Stored' = Store!AddBlock(Stored, b)
  <2>1. Stored = [tree |-> full, lowest |-> LowestLevel, votes |-> {}]
    BY <1>1 DEF Stored
  <2>2. Stored' = [tree |-> full', lowest |-> LowestLevel, votes |-> {}]
    BY <1>1 DEF Stored
  <2>3. CASE View(b) < LowestLevel
    BY <1>1, <2>1, <2>2, <2>3, SameOperators DEF Store!AddBlock
  <2>4. CASE ~(View(b) < LowestLevel)
    <3>1. full' = full \cup {b}
      BY <1>1, <2>4
    <3> QED
      BY <2>1, <2>2, <2>4, <3>1, SameOperators DEF Store!AddBlock
  <2> QED
    BY <2>3, <2>4
<1>3. Store!Add(b)
  BY <1>1, <1>2 DEF Store!Add, Stored
<1> QED
  BY <1>3 DEF Store!Next

(* The end of CommitBlock is a commit of the store. *)
LEMMA EndRefines ==
  ASSUME Inv, PruneEnd
  PROVE  Store!Next
<1> USE DEF Inv
<1> DEFINE b == op.block
<1>1. /\ op.phase = "prune" /\ ~(op.l < View(b)) /\ op' = Idle
      /\ LowestLevel' = View(b) /\ full' = full
      /\ committed' = committed \cup op.blocks /\ forked' = forked \cup op.forked
  BY DEF PruneEnd, Prunes
<1>2. /\ b \in Blocks /\ op.before \subseteq Blocks /\ View(b) \in Nat /\ op.l = View(b)
      /\ LowestLevel \in Nat /\ op # Idle
  BY SMTT(20), <1>1, PruneFacts, MaxViewAssumption DEF TypeInv, Levels, Idle
<1>3. /\ LowestLevel <= View(b) /\ b \in op.before
      /\ op.blocks = CommittedBlocks(Called, b)
      /\ \A l \in Nat : l < View(b) => (l \in op.levels <=> l \in CommittedLevels)
      /\ full = {x \in op.before : View(x) >= View(b)}
      /\ op.forked = {x \in op.before : View(x) < View(b) /\ View(x) > 1 /\ View(x) \notin op.levels}
  BY <1>1, <1>2 DEF PruneInv
<1>4. Stored = Called /\ Stored' = [tree |-> full, lowest |-> View(b), votes |-> {}]
  BY <1>1, <1>2 DEF Stored, Called
<1>5. Stored' = Store!CommitBlock(Stored, b)
  <2>1. ~(View(b) < LowestLevel)
    BY SMTT(20), <1>2, <1>3
  <2>2. /\ Called.tree = op.before /\ Called.lowest = LowestLevel /\ Called.votes = {}
    BY DEF Called
  <2>3. {v \in Called.votes : v[1] \notin Store!CommittedBlocks(Called, b)} = {}
    BY <2>2
  <2>4. Store!CommitBlock(Called, b) =
          [tree |-> {x \in op.before : View(x) >= View(b)}, lowest |-> View(b), votes |-> {}]
    BY <2>1, <2>2, <2>3, SameOperators DEF Store!CommitBlock
  <2> QED
    BY <1>3, <1>4, <2>4
<1>6. op.blocks = Store!CommittedBlocks(Stored, b)
  BY <1>3, <1>4, SameOperators
<1>7. op.forked = Store!ForkedBlocks(Stored, b)
  <2>1. \A x \in op.before : View(x) \in Nat
    BY <1>2, Views DEF Vertices
  <2>2. ForkedBlocks(Called, b) =
          {x \in op.before : View(x) < View(b) /\ View(x) > 1 /\ View(x) \notin CommittedLevels}
    BY DEF ForkedBlocks, Called, CommittedLevels
  <2>3. op.forked = ForkedBlocks(Called, b)
    BY <1>3, <2>1, <2>2
  <2> QED
    BY <1>4, <2>3, SameOperators
<1>8. Store!Exists(Stored, b)
  BY <1>3, <1>4 DEF Store!Exists, Called
<1>9. Store!Commit(b)
  BY <1>1, <1>5, <1>6, <1>7, <1>8 DEF Store!Commit, Stored
<1> QED
  BY <1>2, <1>9 DEF Store!Next

(* The levelled forest implements the block store: what CommitBlock        *)
(* returns and leaves behind after its three loops, for blocks added in    *)
(* any order, is what one step of BlockStore says.                         *)
THEOREM ForestImplementsStore == Spec => ImplementsStore
<1>1. Init => Store!Init
  BY DEF Init, Store!Init, Store!NewBlockchain
<1>2. Inv /\ [Next]_vars => [Store!Next]_(Store!vars)
  <2> SUFFICES ASSUME Inv, [Next]_vars PROVE [Store!Next]_(Store!vars)
    OBVIOUS
  <2>1. CASE \E b \in Blocks : AddVertex(b)
    BY <2>1, AddRefines
  <2>2. ASSUME NEW b \in Blocks, CommitBlockCall(b) PROVE UNCHANGED Store!vars
    <3>1. /\ op = Idle /\ op'.before = full /\ op'.phase = "walk"
          /\ UNCHANGED <<LowestLevel, committed, forked>>
      BY <2>2 DEF CommitBlockCall, forest, history
    <3>2. op' # Idle
      BY SMTT(20), <3>1 DEF Idle
    <3> QED
      BY <3>1, <3>2, StoreStutters
  <2>3. CASE CommitWalk
    <3>1. op.phase = "walk" /\ op \in WalkOps /\ UNCHANGED <<LowestLevel, committed, forked>>
      BY <2>3, OpFacts DEF CommitWalk, forest, history, Inv
    <3>2. op'.before = op.before /\ op'.phase \in {"walk", "levels"}
      BY <2>3, <3>1 DEF CommitWalk, PruneCall, WalkOps
    <3> QED
      BY SMTT(20), <3>1, <3>2, StoreStutters DEF Idle
  <2>4. CASE FindLevels
    <3>1. op.phase = "levels" /\ op \in LoopOps /\ UNCHANGED <<LowestLevel, committed, forked>>
      BY <2>4, OpFacts DEF FindLevels, forest, history, Inv
    <3>2. op'.before = op.before /\ op'.phase \in {"levels", "prune"}
      BY <2>4, <3>1 DEF FindLevels, PruneLoop, LoopOps
    <3> QED
      BY SMTT(20), <3>1, <3>2, StoreStutters DEF Idle
  <2>5. CASE PruneLevel
    <3>1. op.phase = "prune" /\ op \in LoopOps /\ UNCHANGED <<LowestLevel, committed, forked>>
      BY <2>5, OpFacts DEF PruneLevel, history, Inv
    <3>2. op'.before = op.before /\ op'.phase = "prune"
      BY <2>5, <3>1 DEF PruneLevel, LoopOps
    <3> QED
      BY SMTT(20), <3>1, <3>2, StoreStutters DEF Idle
  <2>6. CASE PruneEnd
    BY <2>6, EndRefines
  <2>7. CASE UNCHANGED vars
    BY <2>7 DEF vars, forest, history, Store!vars
  <2> QED
    BY <2>1, <2>2, <2>3, <2>4, <2>5, <2>6, <2>7 DEF Next
<1> QED
  BY <1>1, <1>2, ForestInvariant, PTL DEF Spec, ImplementsStore, Store!Spec

-----------------------------------------------------------------------------
(* What CommitBlock returns *)

(* What was returned as committed is at or below the lowest level, which   *)
(* is the level of the block committed last.                               *)
HistoryInv ==
  /\ committed \subseteq known
  /\ \A c \in committed : View(c) <= LowestLevel
  /\ LowestLevel = 0 \/ \E c \in committed : View(c) = LowestLevel
  /\ op # Idle => /\ op.block \in op.before /\ op.before \subseteq known
                  /\ \A x \in op.before : View(x) >= LowestLevel

(* The end of PruneUpToLevel and CommitBlock. *)
LEMMA EndFacts ==
  ASSUME Inv, HistoryInv, PruneEnd
  PROVE  /\ op.blocks = CommittedBlocks(Called, op.block)
         /\ op.blocks \subseteq op.before
         /\ \A x \in op.blocks : View(x) <= View(op.block) /\ View(x) > LowestLevel
         /\ op.block \in op.blocks \cup committed
         /\ \A x \in op.before : View(x) = LowestLevel => x \in committed
<1> USE DEF Inv
<1> DEFINE b == op.block
<1>1. op.phase = "prune" /\ op # Idle
  BY SMTT(20) DEF PruneEnd, Idle
<1>2. /\ b \in Blocks /\ op.before \subseteq Blocks /\ View(b) \in Nat /\ LowestLevel \in Nat
  BY SMTT(20), <1>1, PruneFacts, MaxViewAssumption DEF TypeInv, Levels
<1>3. op.blocks = CommittedBlocks(Called, b)
  BY <1>1 DEF PruneInv
<1>4. Called.tree = op.before /\ Called.lowest = LowestLevel
  BY DEF Called
<1>5. /\ Len(b) \in Nat /\ Len(b) >= 1 /\ Pre(b, Len(b)) = b
      /\ \A i \in 1 .. Len(b) : b[i] \in Nat /\ View(Pre(b, i)) = b[i]
      /\ \A i, j \in 1 .. Len(b) : i < j => b[i] < b[j]
  BY <1>2, ChainFacts, PreEnds
<1>6. ASSUME NEW x \in op.blocks
      PROVE  x \in op.before /\ View(x) <= View(b) /\ View(x) > LowestLevel
  <2>1. x \in Linked(Called, b) /\ View(x) > LowestLevel
    BY <1>3, <1>4 DEF CommittedBlocks
  <2>2. PICK k \in 1 .. Len(b) : x = Pre(b, k)
    BY <1>2, <2>1, LinkedFacts
  <2>3. \A m \in k .. Len(b) : Pre(b, m) \in op.before
    BY <1>2, <1>4, <2>1, <2>2, LinkedFacts
  <2>4. k \in k .. Len(b) /\ Len(b) \in 1 .. Len(b)
    BY SMTT(20), <1>5
  <2>5. b[k] <= b[Len(b)] /\ View(x) = b[k] /\ View(b) = b[Len(b)]
    BY SMTT(20), <1>5, <2>2, <2>4
  <2> QED
    BY <2>1, <2>2, <2>3, <2>4, <2>5
<1>7. ASSUME NEW x \in op.before, View(x) = LowestLevel
      PROVE  x \in committed
  <2>1. View(x) >= 1
    BY <1>2, Views
  <2>2. PICK c \in committed : View(c) = LowestLevel
    BY SMTT(20), <1>2, <1>7, <2>1 DEF HistoryInv
  <2> QED
    BY <1>1, <1>7, <2>2 DEF HistoryInv, ForestInv
<1>8. b \in op.blocks \cup committed
  <2>1. b \in op.before /\ View(b) >= LowestLevel
    BY <1>1 DEF HistoryInv
  <2>2. CASE View(b) = LowestLevel
    BY <1>7, <2>1, <2>2
  <2>3. CASE View(b) > LowestLevel
    <3>1. Len(b) \in 1 .. Len(b) /\ \A m \in Len(b) .. Len(b) : Pre(b, m) = b
      BY SMTT(20), <1>5
    <3>2. b \in Linked(Called, b)
      BY SMTT(20), <1>2, <1>4, <1>5, <2>1, <3>1, LinkedFacts
    <3> QED
      BY <1>3, <1>4, <2>3, <3>2 DEF CommittedBlocks
  <2> QED
    BY SMTT(20), <1>2, <2>1, <2>2, <2>3
<1> QED
  BY <1>3, <1>6, <1>7, <1>8

(* Nothing was returned at the start. *)
LEMMA HistoryInit == Init => HistoryInv
  BY DEF Init, HistoryInv

(* Every step keeps the facts about what was returned. *)
LEMMA HistoryStep == Inv /\ HistoryInv /\ [Next]_vars => HistoryInv'
<1> SUFFICES ASSUME Inv, HistoryInv, [Next]_vars PROVE HistoryInv'
  OBVIOUS
<1>1. CASE \E b \in Blocks : AddVertex(b)
  <2>1. PICK b \in Blocks : AddVertex(b)
    BY <1>1
  <2>2. op = Idle /\ op' = Idle /\ known \subseteq known' /\ UNCHANGED <<LowestLevel, committed>>
    BY <2>1 DEF AddVertex
  <2> QED
    BY <2>2 DEF HistoryInv
<1>2. CASE \E b \in Blocks : CommitBlockCall(b)
  <2>1. PICK b \in Blocks : CommitBlockCall(b)
    BY <1>2
  <2>2. /\ op = Idle /\ b \in full /\ op'.before = full /\ op'.block = b
        /\ UNCHANGED <<LowestLevel, known, committed>>
    BY <2>1 DEF CommitBlockCall, forest, history
  <2>3. full \subseteq known /\ \A x \in full : View(x) >= LowestLevel
    <3>1. Bottom = LowestLevel
      BY <2>2 DEF Bottom, Idle
    <3> QED
      BY <3>1, Views DEF Inv, TypeInv, ForestInv
  <2> QED
    BY <2>2, <2>3 DEF HistoryInv
<1>3. ASSUME op # Idle, op'.before = op.before, op'.block = op.block,
             UNCHANGED <<LowestLevel, known, committed>>
      PROVE  HistoryInv'
  BY <1>3 DEF HistoryInv
<1>4. CASE CommitWalk
  <2>1. op.phase = "walk" /\ op \in WalkOps /\ UNCHANGED <<LowestLevel, known, committed>>
    BY <1>4, OpFacts DEF CommitWalk, forest, history, Inv
  <2>2. op'.before = op.before /\ op'.block = op.block /\ op # Idle
    BY SMTT(20), <1>4, <2>1 DEF CommitWalk, PruneCall, WalkOps, Idle
  <2> QED
    BY <1>3, <2>1, <2>2
<1>5. CASE FindLevels
  <2>1. op.phase = "levels" /\ op \in LoopOps /\ UNCHANGED <<LowestLevel, known, committed>>
    BY <1>5, OpFacts DEF FindLevels, forest, history, Inv
  <2>2. op'.before = op.before /\ op'.block = op.block /\ op # Idle
    BY SMTT(20), <1>5, <2>1 DEF FindLevels, PruneLoop, LoopOps, Idle
  <2> QED
    BY <1>3, <2>1, <2>2
<1>6. CASE PruneLevel
  <2>1. op.phase = "prune" /\ op \in LoopOps /\ UNCHANGED <<LowestLevel, known, committed>>
    BY <1>6, OpFacts DEF PruneLevel, history, Inv
  <2>2. op'.before = op.before /\ op'.block = op.block /\ op # Idle
    BY SMTT(20), <1>6, <2>1 DEF PruneLevel, LoopOps, Idle
  <2> QED
    BY <1>3, <2>1, <2>2
<1>7. CASE PruneEnd
  <2>1. /\ op' = Idle /\ LowestLevel' = View(op.block) /\ known' = known
        /\ committed' = committed \cup op.blocks /\ op.phase = "prune" /\ op # Idle
    BY SMTT(20), <1>7 DEF PruneEnd, Idle
  <2>2. View(op.block) \in Nat /\ LowestLevel \in Nat /\ View(op.block) >= LowestLevel
    BY SMTT(20), <2>1, PruneFacts, MaxViewAssumption DEF Inv, TypeInv, Levels, HistoryInv
  <2>3. \A c \in committed : View(c) \in Nat
    BY Views DEF HistoryInv, Inv, TypeInv, Vertices
  <2>4. committed' \subseteq known'
    BY <1>7, <2>1, EndFacts DEF HistoryInv
  <2>5. \A c \in committed' : View(c) <= View(op.block)
    BY SMTT(20), <1>7, <2>1, <2>2, <2>3, EndFacts DEF HistoryInv
  <2>6. op.block \in committed'
    BY <1>7, <2>1, EndFacts
  <2> QED
    BY <2>1, <2>4, <2>5, <2>6 DEF HistoryInv
<1>8. CASE UNCHANGED vars
  BY <1>8 DEF vars, forest, history, HistoryInv
<1> QED
  BY <1>1, <1>2, <1>4, <1>5, <1>6, <1>7, <1>8 DEF Next

(* CommitBlock accounts for every block that is stored when it is called:  *)
(* it stays or is returned as committed or as forked, only a fork of view  *)
(* 1 disappears; nothing but the block committed last is returned as both, *)
(* and a block is committed with its parent unless that is not stored.     *)
THEOREM CommitAccountsForAll == Spec => CommitAccounts
<1> DEFINE Accounts ==
      (op # Idle /\ op' = Idle) =>
        /\ \A b \in op.before : b \in full' \cup committed' \cup forked' \/ View(b) <= 1
        /\ \A b \in (forked' \ forked) \cap committed' : View(b) = LowestLevel
        /\ \A b \in committed' \ committed :
             Parent(b) \in committed' \/ Parent(b) \notin op.before
<1>1. Inv /\ HistoryInv /\ [Next]_vars => Accounts
  <2> SUFFICES ASSUME Inv, HistoryInv, [Next]_vars, op # Idle, op' = Idle PROVE Accounts
    OBVIOUS
  <2> DEFINE b == op.block
  <2>1. PruneEnd
    <3>1. /\ \A a \in Blocks : ~AddVertex(a) /\ ~CommitBlockCall(a)
          /\ ~UNCHANGED vars
      BY DEF AddVertex, CommitBlockCall, vars
    <3>2. op'.phase = "idle"
      BY DEF Idle
    <3>3. ~CommitWalk
      <4>1. CommitWalk => op \in WalkOps
        BY OpFacts DEF CommitWalk, Inv
      <4>2. CommitWalk => op'.phase \in {"walk", "levels"}
        BY SMTT(20), <4>1 DEF CommitWalk, PruneCall, WalkOps
      <4> QED
        BY <3>2, <4>2
    <3>4. ~FindLevels
      <4>1. FindLevels => op \in LoopOps
        BY OpFacts DEF FindLevels, Inv
      <4>2. FindLevels => op'.phase \in {"levels", "prune"}
        BY <4>1 DEF FindLevels, PruneLoop, LoopOps
      <4> QED
        BY <3>2, <4>2
    <3>5. ~PruneLevel
      <4>1. PruneLevel => op \in LoopOps
        BY OpFacts DEF PruneLevel, Inv
      <4>2. PruneLevel => op'.phase \in {"levels", "prune"}
        BY <4>1 DEF PruneLevel, LoopOps
      <4> QED
        BY <3>2, <4>2
    <3> QED
      BY <3>1, <3>3, <3>4, <3>5 DEF Next
  <2>2. /\ op.phase = "prune" /\ ~(op.l < View(b)) /\ full' = full
        /\ committed' = committed \cup op.blocks /\ forked' = forked \cup op.forked
    BY <2>1 DEF PruneEnd, Prunes
  <2>3. /\ b \in Blocks /\ op.before \subseteq Blocks /\ View(b) \in Nat /\ op.l = View(b)
        /\ LowestLevel \in Nat
    BY SMTT(20), <2>2, PruneFacts, MaxViewAssumption DEF Inv, TypeInv, Levels
  <2>4. /\ \A l \in Nat : l < View(b) => (l \in op.levels <=> l \in CommittedLevels)
        /\ full = {x \in op.before : View(x) >= View(b)}
        /\ op.forked = {x \in op.before : View(x) < View(b) /\ View(x) > 1 /\ View(x) \notin op.levels}
    BY <2>2, <2>3 DEF Inv, PruneInv
  <2>5. /\ op.blocks = CommittedBlocks(Called, b) /\ op.blocks \subseteq op.before
        /\ \A x \in op.blocks : View(x) > LowestLevel
        /\ \A x \in op.before : View(x) = LowestLevel => x \in committed
    BY <2>1, EndFacts
  <2>6. /\ \A x \in op.before : View(x) \in Nat /\ View(x) >= LowestLevel /\ x \in known
        /\ \A x, y \in known : View(x) = View(y) => x = y
    BY <2>3, Views DEF HistoryInv, Vertices, Inv, ForestInv
  <2>7. Called.tree = op.before /\ Called.lowest = LowestLevel
    BY DEF Called
  <2>8. \A q \in Linked(Called, b) : q \in op.before
    <3>1. ASSUME NEW q \in Linked(Called, b) PROVE q \in op.before
      <4>1. PICK k \in 1 .. Len(b) : q = Pre(b, k)
        BY <2>3, LinkedFacts
      <4>2. k \in k .. Len(b)
        BY SMTT(20), <2>3, ChainFacts
      <4> QED
        BY <2>3, <2>7, <4>1, <4>2, LinkedFacts
    <3> QED
      BY <3>1
  <2>9. ASSUME NEW x \in op.before
        PROVE  x \in full' \cup committed' \cup forked' \/ View(x) <= 1
    <3>1. CASE View(x) >= View(b)
      BY <2>2, <2>4, <3>1
    <3>2. CASE View(x) < View(b) /\ View(x) > 1 /\ View(x) \notin op.levels
      BY <2>2, <2>4, <3>2
    <3>3. CASE View(x) < View(b) /\ View(x) \in op.levels
      <4>1. View(x) \in CommittedLevels
        BY <2>4, <2>6, <3>3
      <4>2. PICK q \in Linked(Called, b) : View(q) = View(x)
        BY <4>1 DEF CommittedLevels
      <4>3. q = x
        BY <2>6, <2>8, <4>2
      <4>4. x \in committed \/ x \in CommittedBlocks(Called, b)
        BY SMTT(20), <2>3, <2>5, <2>6, <2>7, <4>3 DEF CommittedBlocks
      <4> QED
        BY <2>2, <2>5, <4>4
    <3> QED
      BY SMTT(20), <2>3, <2>6, <3>1, <3>2, <3>3
  <2>10. ASSUME NEW x \in (forked' \ forked) \cap committed'
         PROVE  View(x) = LowestLevel
    <3>1. x \in op.before /\ View(x) < View(b) /\ View(x) \notin op.levels
      BY <2>2, <2>4
    <3>2. x \notin op.blocks
      <4>1. x \in op.blocks => x \in Linked(Called, b) /\ View(x) >= LowestLevel
        BY <2>5, <2>6 DEF CommittedBlocks
      <4>2. x \in op.blocks => View(x) \in CommittedLevels
        BY <4>1 DEF CommittedLevels
      <4> QED
        BY <2>4, <2>6, <3>1, <4>2
    <3>3. x \in committed
      BY <2>2, <3>2
    <3> QED
      BY SMTT(20), <2>3, <2>6, <3>1, <3>3 DEF HistoryInv
  <2>11. ASSUME NEW x \in committed' \ committed, Parent(x) \in op.before
         PROVE  Parent(x) \in committed'
    <3>1. x \in op.blocks /\ x \in Linked(Called, b)
      BY <2>2, <2>5 DEF CommittedBlocks
    <3>2. PICK k \in 1 .. Len(b) : x = Pre(b, k)
      BY <2>3, <3>1, LinkedFacts
    <3>3. Parent(x) = Pre(b, k - 1) /\ Len(b) \in Nat
      BY <2>3, <3>2, PreFacts, ChainFacts
    <3>4. k # 1
      <4>1. Pre(b, 0) \notin op.before
        BY <2>3, PreEnds, Views
      <4> QED
        BY SMTT(20), <2>11, <3>3, <4>1
    <3>5. k - 1 \in 1 .. Len(b) /\ \A m \in k - 1 .. Len(b) : m = k - 1 \/ m \in k .. Len(b)
      BY SMTT(20), <3>3, <3>4
    <3>6. \A m \in k .. Len(b) : Pre(b, m) \in op.before
      BY <2>3, <2>7, <3>1, <3>2, LinkedFacts
    <3>7. Parent(x) \in Linked(Called, b)
      BY <2>3, <2>7, <2>11, <3>3, <3>5, <3>6, LinkedFacts
    <3>8. Parent(x) \in committed \/ Parent(x) \in CommittedBlocks(Called, b)
      BY SMTT(20), <2>3, <2>5, <2>6, <2>7, <2>11, <3>7 DEF CommittedBlocks
    <3> QED
      BY <2>2, <2>5, <3>8
  <2> QED
    BY <2>9, <2>10, <2>11
<1>2. Spec => []HistoryInv
  BY HistoryInit, HistoryStep, ForestInvariant, PTL DEF Spec
<1>3. CommitAccounts <=> [][Accounts]_vars
  BY DEF CommitAccounts
<1> QED
  BY <1>1, <1>2, <1>3, ForestInvariant, PTL DEF Spec
=============================================================================
