------------------------------ MODULE Bamboo ------------------------------
(***************************************************************************)
(* The replicas of one deployment (replica/replica.go) with the protocol   *)
(* that NewReplica picks by the configured name, and the network between   *)
(* them.  An action is one whole event of the event loop, one timeout of   *)
(* ListenLocalEvent, or one message taken by the handle goroutine.         *)
(*                                                                         *)
(* The network delays, reorders and loses messages (socket.Send under the  *)
(* Slow, Flaky, Drop and Crash faults: a message sent while a link is slow *)
(* is overtaken by one sent after it recovered); a lost message is one     *)
(* that is never taken.  It neither invents nor duplicates messages.       *)
(***************************************************************************)
EXTENDS HotStuff, Tchs, FastHotStuff, TLC

CONSTANTS Algorithms,     \* the values of "algo" that are run
          Masters         \* the values of "master" that are run, 0 for none

VARIABLES rep,      \* the state of each replica
          hand,     \* the message each handle goroutine offers, or None
          net       \* the messages in flight

vars == <<conf, rep, hand, net>>

ASSUME BambooAssumption == Masters \subseteq 0 .. N

None == [type |-> "none"]

(* Every replica has been started by a client transaction. *)
Init ==
  /\ conf \in [algo : Algorithms, master : Masters]
  /\ rep = [r \in Replicas |-> NewReplica]
  /\ hand = [r \in Replicas |-> None]
  /\ net = {}

-----------------------------------------------------------------------------
(* Safety: the protocol of the configuration; any other name is HotStuff.  *)

SafetyBlock(call, r, s, b) ==
  CASE conf.algo = "tchs"         -> TC_ProcessBlock(call, r, s, b)
    [] conf.algo = "fasthotstuff" -> FH_ProcessBlock(call, r, s, b)
    [] OTHER                      -> HS_ProcessBlock(call, r, s, b)

SafetyVmo(call, r, s, view, node) ==
  CASE conf.algo = "tchs"         -> TC_ProcessRemoteVmo(call, r, s, view, node)
    [] conf.algo = "fasthotstuff" -> FH_ProcessRemoteVmo(call, r, s, view, node)
    [] OTHER                      -> HS_ProcessRemoteVmo(call, r, s, view, node)

SafetyVote(call, r, s, b, voter) ==
  CASE conf.algo = "tchs"         -> TC_ProcessVote(call, r, s, b, voter)
    [] conf.algo = "fasthotstuff" -> FH_ProcessVote(call, r, s, b, voter)
    [] OTHER                      -> HS_ProcessVote(call, r, s, b, voter)

(* Bound: how deep the handlers of one event call each other. *)
MaxDepth == 8 * (MaxView + 3)

(* The handlers of replica r, as one of them calls another.  A call that   *)
(* would be deeper than MaxDepth is an error of the model.                 *)
Calls[depth \in Nat] ==
  [r \in Replicas |->
    [ProcessBlock |->
       [s \in ReplicaState |-> [b \in Block |->
          IF depth = 0 THEN IF Assert(FALSE, "MaxDepth") THEN s ELSE s
          ELSE SafetyBlock(Calls[depth - 1][r], r, s, b)]],
     ProcessRemoteVmo |->
       [s \in ReplicaState |-> [view \in Views |->
          IF depth = 0 THEN IF Assert(FALSE, "MaxDepth") THEN s ELSE s
          ELSE SafetyVmo(Calls[depth - 1][r], r, s, view, r)]]]]

ProcessBlock(r, s, b)              == SafetyBlock(Calls[MaxDepth][r], r, s, b)
ProcessVote(r, s, b, voter)        == SafetyVote(Calls[MaxDepth][r], r, s, b, voter)
ProcessRemoteVmo(r, s, view, node) == SafetyVmo(Calls[MaxDepth][r], r, s, view, node)

ProcessRemoteTmo(s, view, qc, node) ==
  CASE conf.algo = "tchs"         -> TC_ProcessRemoteTmo(s, view, qc, node)
    [] conf.algo = "fasthotstuff" -> FH_ProcessRemoteTmo(s, view, qc, node)
    [] OTHER                      -> HS_ProcessRemoteTmo(s, view, qc, node)

ProcessLocalTmo(r, s, view) ==
  CASE conf.algo = "tchs"         -> TC_ProcessLocalTmo(r, s, view)
    [] conf.algo = "fasthotstuff" -> FH_ProcessLocalTmo(r, s, view)
    [] OTHER                      -> HS_ProcessLocalTmo(r, s, view)

(* proposeBlock: broadcast the block, then process it locally.  Under the  *)
(* name "streamlet" the broadcast is left to the protocol.                 *)
proposeBlock(r, s, view) ==
  LET b == MakeProposal(s, view)
  IN  ProcessBlock(r, IF conf.algo = "streamlet" THEN s
                      ELSE Broadcast(r, s, BlockMsg(r, b)), b)

-----------------------------------------------------------------------------
(* Events.  An event that leaves replica r in state s sends what it        *)
(* collected; taken is what it takes off the network.                      *)
Done(r, s, taken) ==
  /\ rep' = [rep EXCEPT ![r] = [s EXCEPT !.out = {}]]
  /\ net' = (net \ taken) \cup s.out
  /\ UNCHANGED conf

(* handleTxn: the first leader kicks off the protocol. *)
KickOff(r) ==
  /\ CurView(rep[r]) = 0 /\ FindLeaderFor(1) = r
  /\ Done(r, Advance(rep[r], 0), {})
  /\ UNCHANGED hand

(* HandleVote, HandleTmo and HandleVmo drop stale messages; under the name *)
(* "streamlet" stale votes are kept.  HandleBlock drops nothing.           *)
Fresh(r, m) ==
  \/ m.type = "block"
  \/ m.type = "vote" /\ conf.algo = "streamlet"
  \/ m.view >= CurView(rep[r])

(* The handlers offer the message to the event loop, which may be busy     *)
(* until it is stale.                                                      *)
Handle(r, m) ==
  /\ hand[r] = None
  /\ m.to = r /\ m.type # "block" /\ Fresh(r, m)
  /\ hand' = [hand EXCEPT ![r] = m]
  /\ net' = net \ {m}
  /\ UNCHANGED <<conf, rep>>

(* A block is offered whatever its view, so it goes from the network to    *)
(* the loop.                                                               *)
OnBlock(r, m) ==
  /\ hand[r] = None
  /\ m.to = r /\ m.type = "block"
  /\ Done(r, ProcessBlock(r, rep[r], m.block), {m})
  /\ UNCHANGED hand

(* The event loop receives a message of this type from the handler. *)
Receives(r, type) ==
  /\ hand[r].type = type
  /\ hand' = [hand EXCEPT ![r] = None]

OnVote(r) ==
  /\ Receives(r, "vote")
  /\ Done(r, ProcessVote(r, rep[r], hand[r].block, hand[r].node), {})

OnTmo(r) ==
  /\ Receives(r, "tmo")
  /\ Done(r, ProcessRemoteTmo(rep[r], hand[r].view, hand[r].highQC, hand[r].node), {})

OnVmo(r) ==
  /\ Receives(r, "vmo")
  /\ Done(r, ProcessRemoteVmo(r, rep[r], hand[r].view, hand[r].node), {})

ViewEntered(r) == rep[r].pm.newViewChan # << >> /\ Head(rep[r].pm.newViewChan) <= MaxView

(* Mutant: the entered view is not consumed. *)
OnNewView_peek(r) ==
  LET v == Head(rep[r].pm.newViewChan)
  IN  /\ ViewEntered(r)
      /\ Done(r, IF FindLeaderFor(v) = r /\ r \notin Byz
                 THEN proposeBlock(r, rep[r], v) ELSE rep[r], {})
      /\ UNCHANGED hand

(* processNewView: the leader proposes unless it is Byzantine. *)
OnNewView(r) ==
  LET s == [rep[r] EXCEPT !.pm.newViewChan = Tail(@)]
      v == Head(rep[r].pm.newViewChan)
  IN  /\ ViewEntered(r)
      /\ Done(r, IF FindLeaderFor(v) = r /\ r \notin Byz THEN proposeBlock(r, s, v) ELSE s, {})
      /\ UNCHANGED hand

(* The timer of ListenLocalEvent; bound: once per replica and view. *)
TimerRuns(r) == CurView(rep[r]) \in TimeoutViews /\ r \notin rep[r].pm.timeouts[CurView(rep[r])]

Timeout(r) ==
  /\ TimerRuns(r)
  /\ Done(r, ProcessLocalTmo(r, rep[r], CurView(rep[r])), {})
  /\ UNCHANGED hand

Event(r) == OnVote(r) \/ OnTmo(r) \/ OnVmo(r) \/ OnNewView(r)

Next ==
  \E r \in Replicas :
    \/ KickOff(r) \/ Event(r) \/ Timeout(r)
    \/ \E m \in net : Handle(r, m) \/ OnBlock(r, m)

Spec == Init /\ [][Next]_vars

(* What replica r can be given, and when one of its actions is enabled. *)
Receivable(r) == {m \in net : m.to = r /\ Fresh(r, m)}
Busy(r) ==
  \/ CurView(rep[r]) = 0 /\ FindLeaderFor(1) = r
  \/ hand[r] # None \/ ViewEntered(r) \/ Receivable(r) # {}

(* Every replica has handled all it will ever receive. *)
Quiescent == \A r \in Replicas : ~Busy(r) /\ ~TimerRuns(r)

(* No replica stops while an event is pending: messages are delivered in   *)
(* the end and running timers expire.  Every event uses up a message, a    *)
(* view or a timer, so this alone brings each of them about.  This is      *)
(* WF_vars(Next) with its ENABLED written out as a state predicate.        *)
Fairness == []<>Quiescent \/ []<><<Next>>_vars

FairSpec == Spec /\ Fairness

-----------------------------------------------------------------------------
(* Properties *)

Blocks       == (UNION {rep[r].seen : r \in Replicas})
                  \cup {m.block : m \in {n \in net : n.type = "block"}}
Voters(b)    == {r \in Replicas : b \in rep[r].voted}
Certified(b) == Cardinality(Voters(b)) >= ByzNo * 2 + 1
AllCommitted(view) ==
  \A r \in Replicas : 1 .. view \subseteq {View(b) : b \in rep[r].committed}

TypeOK ==
  /\ rep \in [Replicas -> {s \in ReplicaState : s.out = {}}]
  /\ hand \in [Replicas -> Message \cup {None}]
  /\ net \subseteq Message

(* A view has at most one block, whoever receives it and however often     *)
(* timers, VMOs and TCs race to advance the leader into the view: the      *)
(* pacemaker announces a view once and the leader proposes once for it.    *)
OneBlockPerView == \A a, b \in Blocks : View(a) = View(b) => a = b

(* No replica ever holds a QC, as its highest one or waiting for a block,  *)
(* that fewer than 2 * ByzNo + 1 replicas have voted for: quorum.Add       *)
(* counts each voter once, also when votes and blocks overtake each other. *)
QCsCertified ==
  \A r \in Replicas : \A qc \in {rep[r].highQC} \cup rep[r].bufferedQCs :
    qc # Genesis => Certified(qc)

(* README: "Rules dictate that all finalized blocks remain in a single     *)
(* chain": any two committed blocks, of any replicas, extend one another.  *)
Agreement ==
  \A a, b \in UNION {rep[r].committed : r \in Replicas} : Extends(a, b) \/ Extends(b, a)

(* A block is committed only if it or a committed descendant heads blocks  *)
(* of consecutive views c, c1 and c2, through all buffering of blocks and  *)
(* QCs: HotStuff has a QC of each of the three; two-chain HotStuff has QCs *)
(* of c and c1 and has received c2; Fast-HotStuff has also voted for c2.   *)
CommitBacked ==
  \A r \in Replicas : \A b \in rep[r].committed :
    \E c \in rep[r].committed :
      LET c1 == Append(c, View(c) + 1)
          c2 == Append(c1, View(c) + 2)
      IN  /\ Extends(c, b) /\ Certified(c) /\ Certified(c1)
          /\ CASE conf.algo = "tchs"         -> c2 \in rep[r].seen
               [] conf.algo = "fasthotstuff" -> c2 \in rep[r].voted
               [] OTHER                      -> Certified(c2)

(* A replica that has committed a block is locked on it at least, and in   *)
(* HotStuff above it, so it will not vote for a later block whose parent   *)
(* is older than what it committed.  Commit and lock are done in different *)
(* places, and the proposer skips one of them.                             *)
LockCoversCommit ==
  \A r \in Replicas :
    /\ conf.algo = "hotstuff" /\ rep[r].committed # {}
         => rep[r].preferredView > rep[r].bc.lowest
    /\ conf.algo = "tchs" => rep[r].preferredView >= rep[r].bc.lowest

(* If no message is lost and no timer expires, every view is left and the  *)
(* blocks of all views but the last three are committed by every replica.  *)
EventuallyCommitted == <>AllCommitted(MaxView - 3)

(* A block that reached a replica stays with it, stored in the forest or   *)
(* buffered until its view is reached ("buffer the block" in ProcessBlock), *)
(* until the chain is committed past it.                                   *)
BlockNotLost ==
  \A r \in Replicas : \A b \in rep[r].seen :
    b \in rep[r].bc.tree \cup rep[r].bufferedBlocks \/ View(b) < rep[r].bc.lowest
=============================================================================
