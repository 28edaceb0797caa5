---------------------------- MODULE Blockchain ----------------------------
(***************************************************************************)
(* The block store of one replica (blockchain/): the tree of blocks above  *)
(* the last committed one, and the votes collected per block.              *)
(*                                                                         *)
(* A block is identified by the views of its chain: <<1, 2, 4>> is the     *)
(* block of view 4 whose parent is <<1, 2>>.  This is what the hash in     *)
(* makeID gives: two blocks have the same identifier only if they have the *)
(* same view, the same leader and the same parent.  << >> is the zero      *)
(* identifier of the genesis QC, which no replica ever stores.  A QC is    *)
(* reduced to the block it certifies: honest votes carry the view of their *)
(* block, so QC.View is View(QC.BlockID).                                  *)
(*                                                                         *)
(* Leaders make at most one block per view (EventLoop!ViewsInOrder), so a  *)
(* level of the levelled forest holds one full vertex and the forest is a  *)
(* set of blocks here; LevelledForest shows that it implements that.       *)
(***************************************************************************)
EXTENDS Naturals, Sequences, FiniteSets

CONSTANT ByzNo      \* config.ByzNo: assumed number of Byzantine replicas

ASSUME ByzNoAssumption == ByzNo \in Nat

Genesis    == << >>
View(b)    == IF b = Genesis THEN 0 ELSE b[Len(b)]
Parent(b)  == SubSeq(b, 1, Len(b) - 1)
Prefixes(b) == {SubSeq(b, 1, n) : n \in 1 .. Len(b)}
Extends(b, a) == Len(a) <= Len(b) /\ SubSeq(b, 1, Len(a)) = a

NewBlockchain == [tree |-> {}, lowest |-> 0, votes |-> {}]

-----------------------------------------------------------------------------
(* Quorum: votes is a set of <<block, voter>>. *)

size(bc, b) == Cardinality({v \in bc.votes : v[1] = b})

(* Mutant: the quorum is one vote short. *)
quorumReached_short(bc, b) == size(bc, b) >= ByzNo * 2

quorumReached(bc, b) == size(bc, b) >= ByzNo * 2 + 1

(* Quorum.Add: the vote that completes the quorum builds the QC; later     *)
(* votes are not even recorded.                                            *)
AddVote(bc, b, voter) ==
  LET after == [bc EXCEPT !.votes = @ \cup {<<b, voter>>}]
  IN  IF quorumReached(bc, b)
      THEN [isBuilt |-> FALSE, bc |-> bc]
      ELSE [isBuilt |-> quorumReached(after, b), bc |-> after]

-----------------------------------------------------------------------------
(* BlockChain over the levelled forest *)

Exists(bc, b) == b \in bc.tree

(* GetParentBlock succeeds only if both the block and its parent are kept. *)
HasParentBlock(bc, b) == b \in bc.tree /\ Parent(b) \in bc.tree

(* AddVertex: nothing below the lowest level is stored. *)
AddBlock(bc, b) ==
  IF View(b) < bc.lowest THEN bc ELSE [bc EXCEPT !.tree = @ \cup {b}]

(* The part of the chain of b that can be walked from b by GetVertex. *)
Linked(bc, b) ==
  {p \in Prefixes(b) : \A q \in Prefixes(b) : Len(q) >= Len(p) => q \in bc.tree}

(* CommitBlock: from b down to the last committed level or to the first    *)
(* block that is missing.                                                  *)
CommittedBlocks(bc, b) == {p \in Linked(bc, b) : View(p) > bc.lowest}

(* PruneUpToLevel: what lies below b and not on a level of the walked      *)
(* chain is forked, except at levels 0 and 1.                              *)
ForkedBlocks(bc, b) ==
  LET committedLevels == {View(p) : p \in {q \in Linked(bc, b) : View(q) >= bc.lowest}}
  IN  {x \in bc.tree : /\ View(x) < View(b) /\ View(x) > 1
                       /\ View(x) \notin committedLevels}

(* What CommitBlock leaves behind: the votes of committed blocks are       *)
(* deleted and everything below b is pruned.  A block below the lowest     *)
(* level is an error of PruneUpToLevel, after the votes were deleted.      *)
CommitBlock(bc, b) ==
  LET left == {v \in bc.votes : v[1] \notin CommittedBlocks(bc, b)}
  IN  IF View(b) < bc.lowest
      THEN [bc EXCEPT !.votes = left]
      ELSE [tree   |-> {x \in bc.tree : View(x) >= View(b)},
            lowest |-> View(b),
            votes  |-> left]
=============================================================================
