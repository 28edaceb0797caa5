----------------------------- MODULE MCFaults -----------------------------
(***************************************************************************)
(* Bamboo with lossy links and otherwise prompt replicas.  The links may   *)
(* lose any MaxLost messages (socket.Send under Drop, Flaky and Crash);    *)
(* everything else is delivered, to the lowest replica that has something  *)
(* to do, and timers expire only when nobody has.  Every step but a loss   *)
(* is a step of Bamboo, and a lost message is one that Bamboo never takes. *)
(***************************************************************************)
EXTENDS MCBamboo, FiniteSetsExt

CONSTANT MaxLost

VARIABLE lost

Lose(m) ==
  /\ lost < MaxLost
  /\ lost' = lost + 1
  /\ net' = net \ {m}
  /\ UNCHANGED <<conf, rep, hand>>

(* Replica r does what it has to do, its next message is delivered to it,  *)
(* or this message is lost.                                                *)
Act(r) ==
  \/ (KickOff(r) \/ Event(r)) /\ UNCHANGED lost
  \/ /\ hand[r] = None /\ ~ViewEntered(r) /\ Receivable(r) # {}
     /\ LET m == First(Receivable(r))
        IN  \/ Lose(m)
            \/ (Handle(r, m) \/ OnBlock(r, m)) /\ UNCHANGED lost

FaultsNext ==
  LET busy  == {r \in Replicas : Busy(r)}
      timed == {r \in Replicas : TimerRuns(r)}
  IN  \/ busy # {} /\ Act(Min(busy))
      \/ busy = {} /\ timed # {} /\ Timeout(Min(timed)) /\ UNCHANGED lost

FaultsSpec == Init /\ lost = 0 /\ [][FaultsNext]_<<vars, lost>>

-----------------------------------------------------------------------------
(* A replica that votes for a block has applied its QC: it is locked on    *)
(* the parent of the certified block if it stores both, or still keeps the *)
(* QC for later.  processCertificate buffers a QC whose blocks are missing *)
(* and ProcessBlock deletes buffered ones; none is lost for a voter.       *)
VoteTakesLock ==
  conf.algo # "fasthotstuff" =>
    \A r \in Replicas : \A b \in rep[r].voted :
      LET qc == Parent(b)
      IN  Proposer(b) # r /\ View(qc) >= 3 /\ HasParentBlock(rep[r].bc, qc)
            => rep[r].preferredView >= View(Parent(qc)) \/ qc \in rep[r].bufferedQCs

(* A lost message, whichever it is, never stops the replicas: blocks,      *)
(* VMOs, QCs in blocks and TMOs together bring a super majority to the     *)
(* last view, in which no timer expires, and the block of one of the last  *)
(* two views is certified; in two-chain HotStuff that of the last one.     *)
LossTolerated ==
  (lost <= 1 /\ Quiescent)
    => /\ PM!superMajority({r \in Replicas : CurView(rep[r]) >= MaxView})
       /\ \E b \in Blocks :
            /\ View(b) >= IF conf.algo = "tchs" THEN MaxView ELSE MaxView - 1
            /\ Certified(b)

(* Nothing but a missing parent or a lock keeps a replica from voting      *)
(* again after the timeouts of earlier views: if a super majority stores   *)
(* the parent of the last block and is not locked above it, that block is  *)
(* certified.                                                              *)
OnlyLocksStopVotes ==
  (lost <= 1 /\ Quiescent)
    => \A b \in {c \in Blocks : View(c) = MaxView} :
         PM!superMajority({r \in Replicas : /\ Parent(b) \in rep[r].bc.tree
                                            /\ rep[r].preferredView <= View(Parent(b))})
           => Certified(b)

(* README: "all finalized blocks remain in a single chain", for the two    *)
(* protocols that check a lock before they vote.                           *)
AgreementAfterLoss == conf.algo # "tchs" => Agreement

VT == INSTANCE Voting
        WITH voted <- [r \in Replicas |-> IF conf.algo = "hotstuff" THEN rep[r].voted ELSE {}]

(* The votes of HotStuff obey the rules from which three-chain commits     *)
(* agree (Voting): the lock of an earlier vote is respected by every later *)
(* one, also of replicas that missed blocks or QCs.                        *)
ImplementsVoting == VT!Spec
=============================================================================
