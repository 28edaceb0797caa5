--------------------------- MODULE LongestChain ---------------------------
(***************************************************************************)
(* The deployment of Bamboo with Streamlet or LBFT as its protocol.  The   *)
(* cases of NewReplica that would pick them are commented out, since the   *)
(* two packages miss the VMO handlers of the Safety interface; neither     *)
(* ever sends a VMO, so the rest of replica.go drives them as it is.       *)
(***************************************************************************)
EXTENDS Bamboo

SL == INSTANCE Streamlet
LB == INSTANCE Lbft

Alive(r) == ~rep[r].panicked

ProcessOneBlock(r, s, b) ==
  IF conf.algo = "streamlet" THEN SL!ProcessBlock(r, s, b) ELSE LB!ProcessBlock(r, s, b)

ProcessOneVote(r, s, b, voter) ==
  IF conf.algo = "streamlet" THEN SL!ProcessVote(r, s, b, voter)
  ELSE LB!ProcessVote(r, s, b, voter)

(* proposeBlock: Streamlet's ProcessBlock is left to broadcast the block. *)
Propose(r, s, view) ==
  LET b == Append(SL!forkChoice(s), view)
  IN  ProcessOneBlock(r, IF conf.algo = "streamlet" THEN s
                         ELSE LB!BroadcastBlock(r, s, b), b)

-----------------------------------------------------------------------------
(* The constructors enter view 1. *)
StartAll ==
  /\ conf \in [algo : Algorithms, master : Masters]
  /\ rep = [r \in Replicas |-> SL!NewNotarized]
  /\ hand = [r \in Replicas |-> None]
  /\ net = {}

TakeBlock(r, m) ==
  /\ hand[r] = None
  /\ m.to = r /\ m.type = "block"
  /\ Done(r, ProcessOneBlock(r, rep[r], m.block), {m})
  /\ UNCHANGED hand

TakeVote(r) ==
  /\ Receives(r, "vote")
  /\ Done(r, ProcessOneVote(r, rep[r], hand[r].block, hand[r].node), {})

TakeTmo(r) ==
  /\ Receives(r, "tmo")
  /\ Done(r, SL!ProcessRemoteTmo(rep[r], hand[r].view, hand[r].node), {})

(* processNewView *)
TakeNewView(r) ==
  LET s == [rep[r] EXCEPT !.pm.newViewChan = Tail(@)]
      v == Head(rep[r].pm.newViewChan)
  IN  /\ ViewEntered(r)
      /\ Done(r, IF FindLeaderFor(v) = r /\ r \notin Byz THEN Propose(r, s, v) ELSE s, {})
      /\ UNCHANGED hand

(* The goroutine of processTC. *)
EnterNextView(r) ==
  /\ \E v \in rep[r].advancing :
       Done(r, Advance([rep[r] EXCEPT !.advancing = @ \ {v}], v), {})
  /\ UNCHANGED hand

Expire(r) ==
  /\ TimerRuns(r)
  /\ Done(r, SL!ProcessLocalTmo(r, rep[r], CurView(rep[r])), {})
  /\ UNCHANGED hand

NotarizingEvent(r) ==
  Alive(r) /\ (TakeVote(r) \/ TakeTmo(r) \/ TakeNewView(r) \/ EnterNextView(r))

Works(r) == Alive(r) /\ (hand[r] # None \/ ViewEntered(r) \/ Receivable(r) # {}
                           \/ rep[r].advancing # {})

AllHandled == \A r \in Replicas : ~Works(r) /\ ~(Alive(r) /\ TimerRuns(r))

-----------------------------------------------------------------------------
(* Properties *)

(* Every committed block lies on three certified blocks of consecutive     *)
(* views, each the parent of the next, with the second one committed:      *)
(* commitRule compares only views, and notarizedChain takes blocks from    *)
(* several branches in the order in which their QCs were built.            *)
CommitLinked ==
  \A r \in Replicas : \A b \in rep[r].committed :
    \E c \in rep[r].committed :
      /\ Extends(c, b) /\ View(Parent(c)) + 1 = View(c)
      /\ Certified(Parent(c)) /\ Certified(c) /\ Certified(Append(c, View(c) + 1))

(* "get the tail of the longest notarized chain": votingRule and           *)
(* forkChoice take the last notarized block for it.  Its chain is longer   *)
(* than that of every block notarized before, although a block is appended *)
(* whichever notarized block it extends and whenever its votes arrive.     *)
TailIsLongest ==
  \A r \in Replicas :
    LET chain == rep[r].notarizedChain
    IN  \A i \in 1 .. Len(chain) - 1 : Len(chain[i]) < Len(chain[Len(chain)])
=============================================================================
