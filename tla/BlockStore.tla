----------------------------- MODULE BlockStore -----------------------------
(***************************************************************************)
(* What the block store promises the protocols: blocks are added and       *)
(* committed in one step each, with the operators of Blockchain that the   *)
(* handlers of the protocol modules use.  LevelledForest implements it.    *)
(***************************************************************************)
EXTENDS Blockchain

CONSTANT Blocks         \* the blocks there can be

VARIABLES bc,           \* the store
          committed,    \* the blocks returned as committed so far
          forked        \* the blocks returned as forked so far

vars == <<bc, committed, forked>>

Init == bc = NewBlockchain /\ committed = {} /\ forked = {}

Add(b) ==
  /\ bc' = AddBlock(bc, b)
  /\ UNCHANGED <<committed, forked>>

Commit(b) ==
  /\ Exists(bc, b)
  /\ bc' = CommitBlock(bc, b)
  /\ committed' = committed \cup CommittedBlocks(bc, b)
  /\ forked' = forked \cup ForkedBlocks(bc, b)

Next == \E b \in Blocks : Add(b) \/ Commit(b)

Spec == Init /\ [][Next]_vars
=============================================================================
