----------------------------- MODULE HotStuff -----------------------------
(***************************************************************************)
(* Chained HotStuff (hotstuff/hotstuff.go) on the shared replica: the      *)
(* three-chain commit rule, the lock on the parent of the certified block  *)
(* (preferredView), and the handlers of the Safety interface.              *)
(***************************************************************************)
EXTENDS Replica

(* Certificates *)

(* updatePreferredView locks on the parent of the certified block; it is   *)
(* an error if one of the two blocks is not stored.                        *)
HS_preferredViewKnown(s, qc) == View(qc) <= 2 \/ HasParentBlock(s.bc, qc)

(* Mutant: the lock is on the block that is about to be committed. *)
HS_updatePreferredView_grand(s, qc) ==
  IF View(qc) > 2 /\ View(Parent(Parent(qc))) > s.preferredView
  THEN [s EXCEPT !.preferredView = View(Parent(Parent(qc)))]
  ELSE s

HS_updatePreferredView(s, qc) ==
  IF View(qc) > 2 /\ View(Parent(qc)) > s.preferredView
  THEN [s EXCEPT !.preferredView = View(Parent(qc))]
  ELSE s

(* Three blocks of consecutive views, the last one certified. *)
HS_commitRule(s, qc) ==
  /\ HasParentBlock(s.bc, qc)
  /\ HasParentBlock(s.bc, Parent(qc))
  /\ View(Parent(Parent(qc))) + 1 = View(Parent(qc))
  /\ View(Parent(qc)) + 1 = View(qc)

HS_processCertificate(s, qc) ==
  LET locked == updateHighQC(HS_updatePreferredView(s, qc), qc)
  IN  IF ~HS_preferredViewKnown(s, qc)
      THEN BufferQC(s, qc)
      ELSE IF View(qc) >= 3 /\ HS_commitRule(locked, qc)
           THEN commit(locked, Parent(Parent(qc)))
           ELSE locked

(* Mutant: the lock is not checked. *)
HS_votingRule_free(s, b) == View(b) <= 2 \/ HasParentBlock(s.bc, b)

(* Mutant: the parent has to be of the view before. *)
HS_votingRule_next(s, b) ==
  \/ View(b) <= 2
  \/ HasParentBlock(s.bc, b) /\ View(Parent(b)) + 1 = View(b)

(* An error (the parent is not stored) and a refusal both end ProcessBlock *)
(* without a vote.                                                         *)
HS_votingRule(s, b) ==
  \/ View(b) <= 2
  \/ HasParentBlock(s.bc, b) /\ View(Parent(b)) >= s.preferredView

-----------------------------------------------------------------------------
(* The handlers of the Safety interface; call as in Replica. *)

(* The next leader counts VMOs towards a VC; every other replica stores    *)
(* the VMO until it has the block too.                                     *)
HS_ProcessRemoteVmo(call, r, s, view, node) ==
  IF FindLeaderFor(view + 1) = r
  THEN CountVmo(s, view, node)
  ELSE ProcessStoredVmo(call, r, JoinFirstView([s EXCEPT !.recivedVMO = @ \cup {view}]), view)

(* Mutant: the VMO is not broadcast. *)
HS_ProcessLocalVmo_quiet(call, r, s, view) == HS_ProcessRemoteVmo(call, r, s, view, r)

(* broadcast a VMO and process it locally *)
HS_ProcessLocalVmo(call, r, s, view) ==
  HS_ProcessRemoteVmo(call, r, Broadcast(r, s, VmoMsg(r, view, r)), view, r)

(* The VMO is for the current view, whatever the view of the QC. *)
HS_StartViewChange(call, r, s) == HS_ProcessLocalVmo(call, r, s, CurView(s))

HS_ProcessNewQC(call, r, s, qc) ==
  IF Exists(s.bc, qc) THEN HS_StartViewChange(call, r, HS_processCertificate(s, qc))
  ELSE BufferQC(s, qc)

HS_ProcessVote(call, r, s, b, voter) ==
  LET added == AddVote(s.bc, b, voter)
      after == [s EXCEPT !.bc = added.bc]
  IN  IF r \in Byz THEN s
      ELSE IF added.isBuilt THEN HS_ProcessNewQC(call, r, after, b) ELSE after

(* The vote goes to the leader of the next view. *)
HS_Vote(call, r, s, b) ==
  LET next == FindLeaderFor(View(b) + 1)
  IN  IF next = r THEN HS_ProcessVote(call, r, s, b, r) ELSE Send(s, VoteMsg(next, b, r))

(* A QC that waited for this block is processed, and the next leader       *)
(* starts the view change it could not start before.                       *)
HS_ReleaseQC(call, r, s, b) ==
  LET done == [HS_processCertificate(s, b) EXCEPT !.bufferedQCs = @ \ {b}]
  IN  IF b \notin s.bufferedQCs THEN s
      ELSE IF FindLeaderFor(View(b) + 1) = r THEN HS_ProcessLocalVmo(call, r, done, View(b))
      ELSE done

(* Mutant: the QC is only remembered. *)
HS_TakeQC_only(r, s, b) == updateHighQC(s, Parent(b))

HS_TakeQC(r, s, b) ==
  IF Proposer(b) = r THEN updateHighQC(s, Parent(b))
  ELSE HS_processCertificate(updateHighQC(s, Parent(b)), Parent(b))

HS_StoreBlock(call, r, s, b) == HS_ReleaseQC(call, r, [s EXCEPT !.bc = AddBlock(@, b)], b)

HS_ProcessNextBlock(call, s, view) ==
  IF Buffered(s, view) = {} THEN s
  ELSE Unbuffer(call.ProcessBlock[s][Waiting(s, view)], view)

HS_VoteOn(call, r, s, b) ==
  IF HS_votingRule(s, b)
  THEN LET sent == HS_Vote(call, r, [s EXCEPT !.voted = @ \cup {b}], b)
       IN  HS_ProcessNextBlock(call, sent, View(b) + 1)
  ELSE s

(* The steps of ProcessBlock once the view of the block is reached: leave  *)
(* the view if its VMO is here, take the QC, store the block, vote, and go *)
(* on with the block buffered for the next view.                           *)
HS_AcceptBlock(call, r, s, b) ==
  IF View(b) > CurView(s) THEN Buffer(s, b)
  ELSE LET taken == HS_TakeQC(r, ReceiveBlock(call, r, s, b), b)
       IN  HS_VoteOn(call, r, HS_StoreBlock(call, r, taken, b), b)

HS_ProcessBlock(call, r, s, b) ==
  HS_AcceptBlock(call, r, JoinFirstView([s EXCEPT !.seen = @ \cup {b}]), b)

HS_ProcessRemoteTmo(s, view, qc, node) == CountTmo(HS_processCertificate(s, qc), view, node)

HS_ProcessLocalTmo(r, s, view) ==
  HS_ProcessRemoteTmo(Broadcast(r, s, TmoMsg(r, view, s.highQC, r)), view, s.highQC, r)
=============================================================================
