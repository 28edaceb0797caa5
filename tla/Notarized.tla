----------------------------- MODULE Notarized -----------------------------
(***************************************************************************)
(* What Streamlet (streamlet/) and LBFT (lbft/) write identically: the     *)
(* state of a replica with its notarized chain, and the rules on it.  The  *)
(* two files differ in whom a replica broadcasts to and in what is done    *)
(* with a QC of an earlier view.                                           *)
(*                                                                         *)
(* The levels of notarizedChain are slices of blocks; updateNotarizedChain *)
(* always appends a new one with a single block, so the chain is a         *)
(* sequence of blocks here.  An index out of range is a panic, which ends  *)
(* the process: a panicked replica takes no step any more.                 *)
(***************************************************************************)
EXTENDS Replica, TLC

(* The parent of a block is not in the store of its proposer: the first    *)
(* blocks have the identifier of "Genesis block" as parent.                *)
NewNotarized ==
  [pm                     |-> PM!AdvanceView(PM!NewPacemaker(Views), 0),
   bc                     |-> NewBlockchain,
   notarizedChain         |-> << >>,
   bufferedBlocks         |-> {},     \* at most one block per parent
   bufferedQCs            |-> {},
   bufferedNotarizedBlock |-> {},     \* at most one QC per parent of its block
   echoedBlock            |-> {},
   advancing              |-> {},     \* goroutines of processTC
   committed              |-> {},     \* sent on committedBlocks
   forked                 |-> {},     \* sent on forkedBlocks
   voted                  |-> {},     \* history: the blocks voted for
   panicked               |-> FALSE,
   out                    |-> {}]

(* Every replica echoes, so copies are told apart by their sender. *)
CopyOfBlock(from, to, b)       == BlockMsg(to, b) @@ [from |-> from]
CopyOfVote(from, to, b, voter) == VoteMsg(to, b, voter) @@ [from |-> from]

SendAll(s, msgs) == [s EXCEPT !.out = @ \cup msgs]

-----------------------------------------------------------------------------
GetNotarizedHeight(s) == Len(s.notarizedChain)
Tip(s)              == s.notarizedChain[GetNotarizedHeight(s)]

(* The maps keyed by the parent of the block. *)
ChildOf(blocks, b)      == {c \in blocks : Parent(c) = b}
PutUnder(blocks, b)     == (blocks \ ChildOf(blocks, Parent(b))) \cup {b}
BufferBlock(s, b)       == [s EXCEPT !.bufferedBlocks = PutUnder(@, b)]

Panic(s) == [s EXCEPT !.panicked = TRUE]

(* votingRule: the block extends the tail of the notarized chain.  Above   *)
(* view 2 it indexes the chain, which may still be empty.                  *)
votingPanics(s, b) == View(b) > 2 /\ GetNotarizedHeight(s) = 0

(* Mutant: the block may extend any notarized block. *)
votingRule_any(s, b) ==
  View(b) <= 2 \/ \E i \in 1 .. GetNotarizedHeight(s) : s.notarizedChain[i] = Parent(b)

votingRule(s, b) == View(b) <= 2 \/ Parent(b) = Tip(s)

(* The first block is notarized whatever its parent is; later the parent   *)
(* has to be notarized, at any height.  The search runs into index -1 when *)
(* it finds nothing in a chain of one or two blocks.                       *)
extendsNotarized(s, b) ==
  \/ GetNotarizedHeight(s) = 0
  \/ \E i \in 1 .. GetNotarizedHeight(s) : s.notarizedChain[i] = Parent(b)

updateNotarizedChain(s, b) ==
  IF extendsNotarized(s, b)
  THEN [s EXCEPT !.notarizedChain = Append(@, b)]
  ELSE IF GetNotarizedHeight(s) < 3 THEN Panic(s)
  ELSE [s EXCEPT !.bufferedNotarizedBlock = PutUnder(@, b)]

(* Mutant: the first two views need not be consecutive. *)
commitRule_gap(s) ==
  LET h == GetNotarizedHeight(s)
  IN  h >= 3 /\ View(s.notarizedChain[h - 1]) + 1 = View(s.notarizedChain[h])

(* The last three notarized blocks are of consecutive views; the second is *)
(* committed.  That they are a chain is not checked.                       *)
commitRule(s) ==
  LET h == GetNotarizedHeight(s)
  IN  /\ h >= 3
      /\ View(s.notarizedChain[h - 2]) + 1 = View(s.notarizedChain[h - 1])
      /\ View(s.notarizedChain[h - 1]) + 1 = View(s.notarizedChain[h])

toCommit(s) == s.notarizedChain[GetNotarizedHeight(s) - 1]

(* CommitBlock fails for a block that is not stored or below the lowest    *)
(* level.                                                                  *)
commits(s) == Exists(s.bc, toCommit(s)) /\ View(toCommit(s)) >= s.bc.lowest

commitNotarized(s) ==
  [commit(s, toCommit(s))
     EXCEPT !.echoedBlock = @ \ CommittedBlocks(s.bc, toCommit(s))]

forkChoice(s) == IF GetNotarizedHeight(s) = 0 THEN Genesis ELSE Tip(s)

(* Mutant: the TC of the current view counts as stale. *)
processNotarizedTC_late(s, view) ==
  IF view <= CurView(s) THEN s ELSE [s EXCEPT !.advancing = @ \cup {view}]

(* The view is advanced by a goroutine of its own. *)
processNotarizedTC(s, view) ==
  IF view < CurView(s) THEN s ELSE [s EXCEPT !.advancing = @ \cup {view}]

ProcessRemoteTmo(s, view, node) ==
  LET added == PM!ProcessRemoteTmo(s.pm, view, node)
      after == [s EXCEPT !.pm = added.pm]
  IN  IF added.isBuilt THEN processNotarizedTC(after, view) ELSE after

ProcessLocalTmo(r, s, view) ==
  ProcessRemoteTmo(Broadcast(r, s, TmoMsg(r, view, Genesis, r)), view, r)
=============================================================================
