------------------------------ MODULE Replica ------------------------------
(***************************************************************************)
(* What every protocol of the framework shares: the leaders, the messages  *)
(* and the state of a replica, and the steps that the protocols write      *)
(* identically.                                                            *)
(*                                                                         *)
(* A handler of a protocol is an operator from the state s of a replica r  *)
(* to its state after the call; what it sends is collected in s.out and    *)
(* enters the network when the event is over.                              *)
(*                                                                         *)
(* Signatures are always valid here: no replica of this program forges     *)
(* one.  A Byzantine replica of this program is one that never proposes    *)
(* (processNewView) and never aggregates votes (ProcessVote), so the fork  *)
(* rules of the proposers are never reached and are left out.              *)
(***************************************************************************)
EXTENDS Blockchain

CONSTANTS N,              \* config.N(): the size of the network
          Byz,            \* the Byzantine replicas
          HashLeader,     \* sha1(view + 1) % peerNo + 1, for the views above 3
          TimeoutViews,   \* bound: the views in which a timer may expire
          MaxView         \* bound: no block is proposed above MaxView

PM == INSTANCE Pacemaker

Replicas == 1 .. N
Views    == 0 .. MaxView + 2

ASSUME ReplicaAssumption ==
  /\ N \in Nat \ {0}
  /\ Byz \subseteq Replicas
  /\ MaxView \in Nat \ {0}
  /\ TimeoutViews \subseteq Views
  /\ HashLeader \in [4 .. MaxView + 3 -> Replicas]

VARIABLE conf       \* config.Configuration: algo and master, never changed

-----------------------------------------------------------------------------
(* Static: one leader for all views. *)
Static(view) == conf.master

(* Mutant: one is added twice to the remainder. *)
Rotation_next(view) == IF view <= 3 THEN N ELSE HashLeader[view] + 1

(* Rotation: the first three views are led by the last replica. *)
Rotation(view) == IF view <= 3 THEN N ELSE HashLeader[view]

(* NewReplica picks the election by the master in the configuration. *)
FindLeaderFor(view) == IF conf.master = 0 THEN Rotation(view) ELSE Static(view)

Proposer(b) == FindLeaderFor(View(b))

(* Messages.  The HighQC of a VMO is read by nobody. *)
BlockMsg(to, b)      == [type |-> "block", to |-> to, view |-> View(b), block |-> b]
VoteMsg(to, b, r)    == [type |-> "vote", to |-> to, view |-> View(b), block |-> b, node |-> r]
TmoMsg(to, v, qc, r) == [type |-> "tmo", to |-> to, view |-> v, highQC |-> qc, node |-> r]
VmoMsg(to, v, r)     == [type |-> "vmo", to |-> to, view |-> v, node |-> r]

(* What a message and the state of a replica are made of. *)
Block == Seq(1 .. MaxView)

Message ==
  [type : {"block"}, to : Replicas, view : Views, block : Block]
    \cup [type : {"vote"}, to : Replicas, view : Views, block : Block, node : Replicas]
    \cup [type : {"tmo"}, to : Replicas, view : Views, highQC : Block, node : Replicas]
    \cup [type : {"vmo"}, to : Replicas, view : Views, node : Replicas]

ReplicaState ==
  [pm             : [curView     : Views,
                     newViewChan : Seq(Views),
                     timeouts    : [Views -> SUBSET Replicas],
                     viewChanges : [Views -> SUBSET Replicas]],
   bc             : [tree   : SUBSET Block,
                     lowest : 0 .. MaxView,
                     votes  : SUBSET (Block \X Replicas)],
   preferredView  : 0 .. MaxView,
   highQC         : Block,
   bufferedBlocks : SUBSET Block,
   bufferedQCs    : SUBSET Block,
   recivedVMO     : SUBSET Views,
   recivedBlock   : SUBSET Views,
   committed      : SUBSET Block,
   forked         : SUBSET Block,
   seen           : SUBSET Block,
   voted          : SUBSET Block,
   out            : SUBSET Message]

Send(s, m) == [s EXCEPT !.out = @ \cup {m}]

(* A copy of the message m for every other replica. *)
Broadcast(r, s, m) == [s EXCEPT !.out = @ \cup {[m EXCEPT !.to = q] : q \in Replicas \ {r}}]

NewReplica ==
  [pm             |-> PM!NewPacemaker(Views),
   bc             |-> NewBlockchain,
   preferredView  |-> 0,
   highQC         |-> Genesis,
   bufferedBlocks |-> {},     \* at most one block per view
   bufferedQCs    |-> {},     \* at most one QC per block
   recivedVMO     |-> {},     \* the views of the stored VMOs
   recivedBlock   |-> {},     \* the views of the stored blocks
   committed      |-> {},     \* sent on committedBlocks
   forked         |-> {},     \* sent on forkedBlocks
   seen           |-> {},     \* history: the blocks that arrived
   voted          |-> {},     \* history: the blocks voted for
   out            |-> {}]

-----------------------------------------------------------------------------
(* Steps that the protocols write identically *)

CurView(s) == s.pm.curView

(* Bound: no view above MaxView + 2 is entered. *)
Advance(s, view) ==
  IF view > MaxView + 1 THEN s ELSE [s EXCEPT !.pm = PM!AdvanceView(@, view)]

(* A replica that has seen no view yet joins view 1. *)
JoinFirstView(s) == IF CurView(s) < 1 THEN Advance(s, 0) ELSE s

updateHighQC(s, qc) ==
  IF View(qc) > View(s.highQC) THEN [s EXCEPT !.highQC = qc] ELSE s

processTC(s, view) == IF view < CurView(s) THEN s ELSE Advance(s, view)

BufferQC(s, qc) == [s EXCEPT !.bufferedQCs = @ \cup {qc}]

(* bufferedBlocks is a map keyed by the view of the block (minus one). *)
Buffered(s, view) == {b \in s.bufferedBlocks : View(b) = view}
Unbuffer(s, view) == [s EXCEPT !.bufferedBlocks = @ \ Buffered(s, view)]
Buffer(s, b)      == [s EXCEPT !.bufferedBlocks = (@ \ Buffered(s, View(b))) \cup {b}]
Waiting(s, view)  == CHOOSE b \in Buffered(s, view) : TRUE

(* The next leader counts VMOs; a VC enters the next view. *)
CountVmo(s, view, node) ==
  LET added == PM!ProcessRemoteVmo(s.pm, view, node)
      after == [s EXCEPT !.pm = added.pm]
  IN  IF added.isBuilt THEN Advance(after, view) ELSE after

CountTmo(s, view, node) ==
  LET added == PM!ProcessRemoteTmo(s.pm, view, node)
      after == [s EXCEPT !.pm = added.pm]
  IN  IF added.isBuilt THEN processTC(after, view) ELSE after

(* With the VMO and the block of a view: post the VMO to the next leader,  *)
(* forget both, and leave the view.  Without the block, stay.              *)
LeaveView(r, s, view) ==
  LET next   == FindLeaderFor(view + 1)
      posted == IF next = r THEN s ELSE Send(s, VmoMsg(next, view, r))
  IN  IF view \notin s.recivedBlock THEN [ok |-> FALSE, s |-> s]
      ELSE [ok |-> TRUE,
            s  |-> Advance([posted EXCEPT !.recivedVMO = @ \ {view},
                                          !.recivedBlock = @ \ {view}], view)]

(* CommitBlock, then the blocks are sent on committedBlocks and            *)
(* forkedBlocks.                                                           *)
commit(s, b) ==
  [s EXCEPT !.bc = CommitBlock(@, b),
            !.committed = @ \cup CommittedBlocks(s.bc, b),
            !.forked = @ \cup ForkedBlocks(s.bc, b)]

(* The QC of the proposal is the highest one known. *)
MakeProposal(s, view) == Append(s.highQC, view)

-----------------------------------------------------------------------------
(* Handlers call each other for a block or a VMO that was stored: call     *)
(* holds ProcessBlock and ProcessRemoteVmo of the replica itself, as they  *)
(* are called from inside a handler.                                       *)

ProcessBuffered(call, s, view) ==
  IF Buffered(s, view) = {} THEN s
  ELSE call.ProcessBlock[Unbuffer(s, view)][Waiting(s, view)]

(* Once both the VMO and the block of a view are here, it is left. *)
ProcessVMOAndBlock(call, r, s, view) ==
  IF view \notin s.recivedVMO THEN [ok |-> FALSE, s |-> s]
  ELSE LeaveView(r, ProcessBuffered(call, s, view), view)

(* The VMO of the next view may already be here. *)
ProcessNextVmo(call, left, view) ==
  IF left.ok /\ view + 1 \in left.s.recivedVMO
  THEN call.ProcessRemoteVmo[left.s][view + 1]
  ELSE left.s

ProcessStoredVmo(call, r, s, view) ==
  IF CurView(s) < view THEN s
  ELSE ProcessNextVmo(call, ProcessVMOAndBlock(call, r, s, view), view)

(* ProcessBlock, once the view of the block is reached: leave the view if  *)
(* its VMO is here.                                                        *)
ReceiveBlock(call, r, s, b) ==
  ProcessVMOAndBlock(call, r, [s EXCEPT !.recivedBlock = @ \cup {View(b)}], View(b)).s
=============================================================================
