------------------------------- MODULE Tchs -------------------------------
(***************************************************************************)
(* Two-chain HotStuff (tchs/tchs.go) on the shared replica.  It commits    *)
(* when a block arrives, not when its QC does; it votes for every block it *)
(* processes; and it leaves a buffered block in the buffer when it has     *)
(* processed it after its predecessor.                                     *)
(***************************************************************************)
EXTENDS Replica

(* Certificates *)

TC_preferredViewKnown(s, qc) == View(qc) < 2 \/ HasParentBlock(s.bc, qc)

TC_updatePreferredView(s, qc) ==
  IF View(qc) >= 2 /\ View(Parent(qc)) > s.preferredView
  THEN [s EXCEPT !.preferredView = View(Parent(qc))]
  ELSE s

TC_processCertificate(s, qc) ==
  IF TC_preferredViewKnown(s, qc)
  THEN updateHighQC(TC_updatePreferredView(s, qc), qc)
  ELSE BufferQC(s, qc)

(* Two blocks of consecutive views below the block, the second certified   *)
(* by its QC.                                                              *)
TC_commitRule(s, b) ==
  HasParentBlock(s.bc, Parent(b)) /\ View(Parent(Parent(b))) + 1 = View(Parent(b))

TC_CheckCommit(s, b) ==
  IF View(Parent(b)) >= 2 /\ View(Parent(b)) + 1 = View(b) /\ TC_commitRule(s, b)
  THEN commit(s, Parent(Parent(b)))
  ELSE s

(* The conditions on the lock and on the last voted view are commented out. *)
TC_votingRule(s, b) == TRUE

-----------------------------------------------------------------------------
(* The handlers of the Safety interface; call as in Replica. *)

(* The next leader counts VMOs towards a VC; every other replica stores    *)
(* the VMO until it has the block too.                                     *)
TC_ProcessRemoteVmo(call, r, s, view, node) ==
  IF FindLeaderFor(view + 1) = r
  THEN CountVmo(s, view, node)
  ELSE ProcessStoredVmo(call, r, JoinFirstView([s EXCEPT !.recivedVMO = @ \cup {view}]), view)

(* broadcast a VMO and process it locally *)
TC_ProcessLocalVmo(call, r, s, view) ==
  TC_ProcessRemoteVmo(call, r, Broadcast(r, s, VmoMsg(r, view, r)), view, r)

(* The VMO is for the current view, whatever the view of the QC. *)
TC_StartViewChange(call, r, s) == TC_ProcessLocalVmo(call, r, s, CurView(s))

TC_ProcessNewQC(call, r, s, qc) ==
  IF Exists(s.bc, qc) THEN TC_StartViewChange(call, r, TC_processCertificate(s, qc))
  ELSE BufferQC(s, qc)

TC_ProcessVote(call, r, s, b, voter) ==
  LET added == AddVote(s.bc, b, voter)
      after == [s EXCEPT !.bc = added.bc]
  IN  IF r \in Byz THEN s
      ELSE IF added.isBuilt THEN TC_ProcessNewQC(call, r, after, b) ELSE after

(* The vote goes to the leader of the next view. *)
TC_Vote(call, r, s, b) ==
  LET next == FindLeaderFor(View(b) + 1)
  IN  IF next = r THEN TC_ProcessVote(call, r, s, b, r) ELSE Send(s, VoteMsg(next, b, r))

(* A QC that waited for this block is processed, and the next leader       *)
(* starts the view change it could not start before.                       *)
TC_ReleaseQC(call, r, s, b) ==
  LET done == [TC_processCertificate(s, b) EXCEPT !.bufferedQCs = @ \ {b}]
  IN  IF b \notin s.bufferedQCs THEN s
      ELSE IF FindLeaderFor(View(b) + 1) = r THEN TC_ProcessLocalVmo(call, r, done, View(b))
      ELSE done

TC_TakeQC(r, s, b) ==
  IF Proposer(b) = r THEN updateHighQC(s, Parent(b))
  ELSE TC_processCertificate(updateHighQC(s, Parent(b)), Parent(b))

TC_StoreBlock(call, r, s, b) ==
  TC_ReleaseQC(call, r, TC_CheckCommit([s EXCEPT !.bc = AddBlock(@, b)], b), b)

(* Unlike in HotStuff, the block stays in the buffer. *)
TC_ProcessNextBlock(call, s, view) ==
  IF Buffered(s, view) = {} THEN s ELSE call.ProcessBlock[s][Waiting(s, view)]

TC_VoteOn(call, r, s, b) ==
  IF TC_votingRule(s, b)
  THEN LET sent == TC_Vote(call, r, [s EXCEPT !.voted = @ \cup {b}], b)
       IN  TC_ProcessNextBlock(call, sent, View(b) + 1)
  ELSE s

(* The steps of ProcessBlock once the view of the block is reached: leave  *)
(* the view if its VMO is here, take the QC, store the block, commit, vote *)
(* and go on with the block buffered for the next view.                    *)
TC_AcceptBlock(call, r, s, b) ==
  IF View(b) > CurView(s) THEN Buffer(s, b)
  ELSE LET taken == TC_TakeQC(r, ReceiveBlock(call, r, s, b), b)
       IN  TC_VoteOn(call, r, TC_StoreBlock(call, r, taken, b), b)

TC_ProcessBlock(call, r, s, b) ==
  TC_AcceptBlock(call, r, JoinFirstView([s EXCEPT !.seen = @ \cup {b}]), b)

(* The QC of the message is not looked at. *)
TC_ProcessRemoteTmo(s, view, qc, node) ==
  IF view < CurView(s) THEN s ELSE CountTmo(s, view, node)

TC_ProcessLocalTmo(r, s, view) ==
  TC_ProcessRemoteTmo(Broadcast(r, s, TmoMsg(r, view, s.highQC, r)), view, s.highQC, r)
=============================================================================
