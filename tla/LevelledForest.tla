--------------------------- MODULE LevelledForest ---------------------------
(***************************************************************************)
(* The levelled forest under the block store                               *)
(* (blockchain/leveled_forrest.go): containers, which are full or stand in *)
(* for a parent that is not known yet, indexed by identifier and by level, *)
(* and the three loops of CommitBlock and PruneUpToLevel, one iteration a  *)
(* step.  Blocks arrive in any order and more than once; there is at most  *)
(* one block per view (Replica!OneBlockPerView), whoever knows it.         *)
(***************************************************************************)
EXTENDS Blockchain, Functions

CONSTANT MaxView        \* bound: the highest view

ASSUME MaxViewAssumption == MaxView \in Nat \ {0}

Levels == 0 .. MaxView

(* Chains of increasing views. *)
Blocks ==
  {b \in UNION {[1 .. n -> 1 .. MaxView] : n \in 1 .. MaxView} :
     \A i, j \in DOMAIN b : i < j => b[i] < b[j]}

VARIABLES vertices,         \* the identifiers that have a container
          full,             \* those whose container has its vertex
          children,         \* children of containers: <<parent, child>>
          verticesAtLevel,  \* the list of containers of each level
          LowestLevel,
          op,               \* the call of CommitBlock in progress
          known,            \* history: the blocks that exist
          committed, forked \* history: the blocks that were returned

forest  == <<vertices, full, children, verticesAtLevel, LowestLevel>>
history == <<known, committed, forked>>
vars    == <<forest, op, history>>

Idle == [phase |-> "idle"]

Init ==
  /\ vertices = {} /\ full = {} /\ children = {}
  /\ verticesAtLevel = [l \in Levels |-> << >>]
  /\ LowestLevel = 0
  /\ op = Idle
  /\ known = {} /\ committed = {} /\ forked = {}

-----------------------------------------------------------------------------
(* AddVertex *)

(* Mutant: a parent below the lowest level gets a container too. *)
HasParent_pruned(b) == View(b) > LowestLevel

(* Mutant: a parent on the lowest level is taken for a pruned one. *)
HasParent_above(b) == View(b) > LowestLevel /\ View(Parent(b)) > LowestLevel

(* registerWithParent: the checks (a) and (b). *)
HasParent(b) == View(b) > LowestLevel /\ View(Parent(b)) >= LowestLevel

Touched(b) == IF HasParent(b) THEN {b, Parent(b)} ELSE {b}

(* getOrCreateVertexContainer: what it adds to level l. *)
Container(x, l) == IF x \notin vertices /\ View(x) = l THEN <<x>> ELSE << >>

(* It is called for the vertex and for its parent. *)
Created(b, l) ==
  Container(b, l) \o (IF HasParent(b) THEN Container(Parent(b), l) ELSE << >>)

AddVertex(b) ==
  /\ op = Idle
  /\ \A a \in known, c \in Prefixes(b) : View(a) = View(c) => a = c
  /\ known' = known \cup Prefixes(b)
  /\ IF View(b) < LowestLevel \/ b \in full
     THEN UNCHANGED <<vertices, full, children, verticesAtLevel>>
     ELSE /\ vertices' = vertices \cup Touched(b)
          /\ full' = full \cup {b}
          /\ children' = IF HasParent(b) THEN children \cup {<<Parent(b), b>>} ELSE children
          /\ verticesAtLevel' = [l \in Levels |-> verticesAtLevel[l] \o Created(b, l)]
  /\ UNCHANGED <<LowestLevel, op, committed, forked>>

-----------------------------------------------------------------------------
(* CommitBlock *)

CommitBlockCall(b) ==
  /\ op = Idle /\ b \in full
  /\ op' = [phase |-> "walk", block |-> b, cur |-> b, blocks |-> {}, before |-> full]
  /\ UNCHANGED <<forest, history>>

PruneCall(blocks) ==
  [phase |-> "levels", block |-> op.block, blocks |-> blocks, before |-> op.before,
   l |-> View(op.block), levels |-> {}, forked |-> {}]

(* From the block down to the last committed level or to a missing block. *)
CommitWalk ==
  /\ op.phase = "walk"
  /\ op' = IF View(op.cur) <= LowestLevel THEN PruneCall(op.blocks)
           ELSE IF Parent(op.cur) \notin full THEN PruneCall(op.blocks \cup {op.cur})
           ELSE [op EXCEPT !.blocks = @ \cup {op.cur}, !.cur = Parent(@)]
  /\ UNCHANGED <<forest, history>>

(* PruneUpToLevel.  First loop: find committed levels, one vertex a level. *)
First(l) == verticesAtLevel[l][1]

PruneLoop == [op EXCEPT !.phase = "prune", !.l = LowestLevel]

(* Mutant: the walk does not stop at a parent that is missing. *)
FindLevels_missing ==
  /\ op.phase = "levels"
  /\ LET parent == Parent(First(op.l))
     IN  op' = IF \/ op.l < LowestLevel \/ op.l <= 1
                  \/ View(parent) < LowestLevel
               THEN PruneLoop
               ELSE [op EXCEPT !.levels = @ \cup {View(parent)}, !.l = View(parent)]
  /\ UNCHANGED <<forest, history>>

FindLevels ==
  /\ op.phase = "levels"
  /\ op' = IF op.l < LowestLevel \/ op.l <= 1 THEN PruneLoop
           ELSE LET parent == Parent(First(op.l))
                IN  IF parent \notin full \/ View(parent) < LowestLevel THEN PruneLoop
                    ELSE [op EXCEPT !.levels = @ \cup {View(parent)}, !.l = View(parent)]
  /\ UNCHANGED <<forest, history>>

(* Second loop: delete the containers of a level; those of a level that is *)
(* not committed, 0 and 1 excepted, are forked.                            *)
Pruned == Range(verticesAtLevel[op.l])

(* Mutant: an off-by-one in the levels that cannot be forked. *)
IsForked_two == op.l \notin op.levels /\ op.l > 2

IsForked == op.l \notin op.levels /\ op.l > 1

(* Mutant: the level of the committed block is pruned too. *)
Prunes_equal(l) == l <= View(op.block)

Prunes(l) == l < View(op.block)

PruneLevel ==
  /\ op.phase = "prune" /\ Prunes(op.l)
  /\ vertices' = vertices \ Pruned
  /\ full' = full \ Pruned
  /\ children' = {e \in children : e[1] \notin Pruned}
  /\ verticesAtLevel' = [verticesAtLevel EXCEPT ![op.l] = << >>]
  /\ op' = [op EXCEPT !.l = @ + 1,
                      !.forked = IF IsForked THEN @ \cup (Pruned \cap full) ELSE @]
  /\ UNCHANGED <<LowestLevel, history>>

PruneEnd ==
  /\ op.phase = "prune" /\ ~Prunes(op.l)
  /\ LowestLevel' = View(op.block)
  /\ committed' = committed \cup op.blocks
  /\ forked' = forked \cup op.forked
  /\ op' = Idle
  /\ UNCHANGED <<vertices, full, children, verticesAtLevel, known>>

Next ==
  \/ \E b \in Blocks : AddVertex(b) \/ CommitBlockCall(b)
  \/ CommitWalk \/ FindLevels \/ PruneLevel \/ PruneEnd

Spec == Init /\ [][Next]_vars

-----------------------------------------------------------------------------
(* Properties *)

(* The index by level and the index by identifier hold the same            *)
(* containers, each once and none below the lowest level, so that pruning  *)
(* a level leaves nothing behind, also when a child came before its parent *)
(* or its parent is pruned already.                                        *)
IndexesAgree ==
  /\ \A l \in Levels : Len(verticesAtLevel[l]) <= 1
  /\ \A l \in Levels : Range(verticesAtLevel[l]) = {x \in vertices : View(x) = l}
  /\ \A x \in vertices : View(x) >= LowestLevel \/ op.phase = "prune"

(* A container knows exactly the stored blocks that extend it, in whatever *)
(* order parent and children were added.                                   *)
ChildrenComplete ==
  children = {e \in vertices \X full : e[1] = Parent(e[2])}

(* "assume each level has only one vertex": the first container of a level *)
(* the walk of PruneUpToLevel reaches is full and on the committed chain;  *)
(* otherwise it would dereference a nil vertex.                            *)
WalkIsFull ==
  (op.phase = "levels" /\ op.l >= LowestLevel /\ op.l > 1)
    => /\ verticesAtLevel[op.l] # << >>
       /\ First(op.l) \in full /\ Extends(op.block, First(op.l))

(* What CommitBlock does to a block that is stored when it is called.  It  *)
(* stays, or it is returned as committed or forked, so that its proposer   *)
(* learns its fate; only a fork of view 1 disappears (l > 1).  None is     *)
(* returned as both, except the block committed last when the walk does    *)
(* not get down to it.  A block is committed with its parent unless the    *)
(* parent is not stored.                                                   *)
CommitAccounts ==
  [][(op # Idle /\ op' = Idle) =>
       /\ \A b \in op.before : b \in full' \cup committed' \cup forked' \/ View(b) <= 1
       /\ \A b \in (forked' \ forked) \cap committed' : View(b) = LowestLevel
       /\ \A b \in committed' \ committed :
            Parent(b) \in committed' \/ Parent(b) \notin op.before]_vars

(* The forest implements the block store the protocols are modelled with:  *)
(* a call of CommitBlock is one step of it, at its end.                    *)
Store == INSTANCE BlockStore WITH
  bc <- [tree   |-> IF op = Idle THEN full ELSE op.before,
         lowest |-> LowestLevel,
         votes  |-> {}]

(* PruneUpToLevel and CommitBlock return and keep what Blockchain says. *)
ImplementsStore == Store!Spec
=============================================================================
