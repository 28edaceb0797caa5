--------------------------- MODULE FastHotStuff ---------------------------
(***************************************************************************)
(* Fast-HotStuff (fasthostuff/fhs.go) on the shared replica.  It decides   *)
(* on its vote before it takes the QC of the block, and a block it does    *)
(* not vote for leaves no other trace than being stored.  A QC below the   *)
(* current view is not processed, so only the aggregator of the votes      *)
(* raises its lock; the others take the QC of a block as their highest.    *)
(***************************************************************************)
EXTENDS Replica

(* Certificates *)

FH_preferredViewKnown(s, qc) == View(qc) < 2 \/ Exists(s.bc, qc)

FH_updatePreferredView(s, qc) ==
  IF View(qc) >= 2 /\ View(qc) > s.preferredView
  THEN [s EXCEPT !.preferredView = View(qc)]
  ELSE s

FH_processCertificate(s, qc) ==
  IF View(qc) < CurView(s) THEN s
  ELSE IF FH_preferredViewKnown(s, qc)
  THEN updateHighQC(FH_updatePreferredView(s, qc), qc)
  ELSE BufferQC(s, qc)

(* Two blocks of consecutive views below the block, the second certified   *)
(* by its QC.                                                              *)
FH_commitRule(s, b) ==
  HasParentBlock(s.bc, Parent(b)) /\ View(Parent(Parent(b))) + 1 = View(Parent(b))

(* Mutant: the view of the block need not follow that of its parent. *)
FH_CheckCommit_gap(s, b) ==
  IF View(Parent(b)) >= 2 /\ FH_commitRule(s, b)
  THEN commit(s, Parent(Parent(b)))
  ELSE s

FH_CheckCommit(s, b) ==
  IF View(Parent(b)) >= 2 /\ View(Parent(b)) + 1 = View(b) /\ FH_commitRule(s, b)
  THEN commit(s, Parent(Parent(b)))
  ELSE s

(* lastVotedView is compared but never assigned: it is always 0. *)
FH_votingRule(s, b) ==
  \/ View(b) <= 2
  \/ HasParentBlock(s.bc, b) /\ View(b) > 0 /\ View(Parent(b)) >= s.preferredView

-----------------------------------------------------------------------------
(* The handlers of the Safety interface; call as in Replica. *)

(* The next leader counts VMOs towards a VC; every other replica stores    *)
(* the VMO until it has the block too.                                     *)
FH_ProcessRemoteVmo(call, r, s, view, node) ==
  IF FindLeaderFor(view + 1) = r
  THEN CountVmo(s, view, node)
  ELSE ProcessStoredVmo(call, r, JoinFirstView([s EXCEPT !.recivedVMO = @ \cup {view}]), view)

(* broadcast a VMO and process it locally *)
FH_ProcessLocalVmo(call, r, s, view) ==
  FH_ProcessRemoteVmo(call, r, Broadcast(r, s, VmoMsg(r, view, r)), view, r)

(* The VMO is for the view of the QC. *)
FH_ProcessNewQC(call, r, s, qc) ==
  IF Exists(s.bc, qc) THEN FH_ProcessLocalVmo(call, r, FH_processCertificate(s, qc), View(qc))
  ELSE BufferQC(s, qc)

FH_ProcessVote(call, r, s, b, voter) ==
  LET added == AddVote(s.bc, b, voter)
      after == [s EXCEPT !.bc = added.bc]
  IN  IF r \in Byz THEN s
      ELSE IF added.isBuilt THEN FH_ProcessNewQC(call, r, after, b) ELSE after

(* The vote goes to the leader of the next view. *)
FH_Vote(call, r, s, b) ==
  LET next == FindLeaderFor(View(b) + 1)
  IN  IF next = r THEN FH_ProcessVote(call, r, s, b, r) ELSE Send(s, VoteMsg(next, b, r))

(* A QC that waited for this block is processed, and the next leader       *)
(* starts the view change it could not start before.                       *)
FH_ReleaseQC(call, r, s, b) ==
  LET done == [FH_processCertificate(s, b) EXCEPT !.bufferedQCs = @ \ {b}]
  IN  IF b \notin s.bufferedQCs THEN s
      ELSE IF FindLeaderFor(View(b) + 1) = r THEN FH_ProcessLocalVmo(call, r, done, View(b))
      ELSE done

FH_TakeQC(r, s, b) ==
  IF Proposer(b) = r THEN updateHighQC(s, Parent(b))
  ELSE FH_processCertificate(updateHighQC(s, Parent(b)), Parent(b))

FH_ProcessNextBlock(call, s, view) ==
  IF Buffered(s, view) = {} THEN s ELSE call.ProcessBlock[s][Waiting(s, view)]

FH_VoteFor(call, r, s, b) ==
  LET sent == FH_Vote(call, r, [s EXCEPT !.voted = @ \cup {b}], b)
  IN  FH_ProcessNextBlock(call, sent, View(b) + 1)

FH_VoteOn(call, r, s, b) ==
  IF FH_votingRule(s, b)
  THEN FH_VoteFor(call, r, FH_ReleaseQC(call, r, FH_CheckCommit(FH_TakeQC(r, s, b), b), b), b)
  ELSE s

(* The steps of ProcessBlock once the view of the block is reached: leave  *)
(* the view if its VMO is here, store the block, decide on the vote; then  *)
(* take the QC, commit, vote and go on with the block buffered for the     *)
(* next view, which stays in the buffer.                                   *)
FH_AcceptBlock(call, r, s, b) ==
  LET received == ReceiveBlock(call, r, s, b)
  IN  IF View(b) > CurView(s) THEN Buffer(s, b)
      ELSE FH_VoteOn(call, r, [received EXCEPT !.bc = AddBlock(@, b)], b)

FH_ProcessBlock(call, r, s, b) ==
  FH_AcceptBlock(call, r, JoinFirstView([s EXCEPT !.seen = @ \cup {b}]), b)

(* The QC of the message is not looked at. *)
FH_ProcessRemoteTmo(s, view, qc, node) == CountTmo(s, view, node)

FH_ProcessLocalTmo(r, s, view) ==
  FH_ProcessRemoteTmo(Broadcast(r, s, TmoMsg(r, view, s.highQC, r)), view, s.highQC, r)
=============================================================================
