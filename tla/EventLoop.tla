---------------------------- MODULE EventLoop ----------------------------
(***************************************************************************)
(* The goroutines of one started replica and the pacemaker they share      *)
(* (replica/replica.go, pacemaker/):                                       *)
(*                                                                         *)
(*   handle    node.handle: takes a message off the network, drops it if   *)
(*             it is stale, and offers it on the unbuffered eventChan;     *)
(*   listener  ListenLocalEvent: offers each entered view on eventChan,    *)
(*             and on a timeout runs ProcessLocalTmo itself;               *)
(*   loop      the event loop of Start: one event at a time;               *)
(*   txn       node.txn: the first transaction kicks off view 1.           *)
(*                                                                         *)
(* AdvanceView is two steps, because it sends on newViewChan, which has a  *)
(* finite buffer, while it holds the lock.  What the protocol does inside  *)
(* an event is abstracted to its effect on the pacemaker: a TMO or a VMO   *)
(* goes through its controller, and any other event calls AdvanceView any  *)
(* number of times with a view it has reached (the guards curView >= view  *)
(* of ProcessBlock and ProcessRemoteVmo), as one event does when it works  *)
(* off buffered blocks and VMOs.                                           *)
(***************************************************************************)
EXTENDS Pacemaker

CONSTANTS Nodes,        \* the replicas of the network
          Self,         \* this replica
          LeadsFirst,   \* does this replica lead view 1?
          Cap,          \* the buffer of newViewChan (100 in NewPacemaker)
          MaxView       \* bound: no event enters a view above MaxView + 1

ASSUME EventLoopAssumption ==
  /\ IsFiniteSet(Nodes)
  /\ N = Cardinality(Nodes)
  /\ Self \in Nodes
  /\ LeadsFirst \in BOOLEAN
  /\ Cap \in Nat \ {0}
  /\ MaxView \in Nat

VARIABLES curView,      \* Pacemaker.curView
          newViewChan,  \* Pacemaker.newViewChan
          mu,           \* the goroutine that holds Pacemaker.mu, or Free
          timeouts,     \* TimeoutController.timeouts
          viewChanges,  \* ViewChangeController.viewChanges
          pc,           \* where each goroutine is
          arg,          \* the message or view each goroutine works on
          handled,      \* history: the last entered view the loop received
          tcs,          \* history: number of TCs built for each view
          vcs           \* history: number of VCs built for each view

vars == <<curView, newViewChan, mu, timeouts, viewChanges, pc, arg, handled,
          tcs, vcs>>

Views    == 0 .. MaxView
Threads  == {"handle", "listener", "loop", "txn"}
Free     == "free"
Kinds    == {"tmo", "vmo", "block", "view"}
Events   == [kind : Kinds, view : 0 .. MaxView + 1, node : Nodes]
Labels   == {"ready", "send", "body", "read", "add", "check", "advance", "push"}
(* What other replicas send: a TMO for the view they are in, a VMO for a   *)
(* view in which a block was certified.                                    *)
Messages == [kind : {"tmo"}, view : Views, node : Nodes \ {Self}]
              \cup [kind : {"vmo"}, view : Views \ {0}, node : Nodes \ {Self}]
Idle     == [kind |-> "block", view |-> 0, node |-> Self]

controllers == <<timeouts, viewChanges, tcs, vcs>>
viewState   == <<curView, newViewChan, mu>>

Init ==
  /\ curView = NewPacemaker(Views).curView
  /\ newViewChan = NewPacemaker(Views).newViewChan
  /\ timeouts = NewPacemaker(Views).timeouts
  /\ viewChanges = NewPacemaker(Views).viewChanges
  /\ mu = Free
  /\ pc = [t \in Threads |-> "ready"]
  /\ arg = [t \in Threads |-> Idle]
  /\ handled = 0
  /\ tcs = [v \in Views |-> 0]
  /\ vcs = [v \in Views |-> 0]

At(t, l)      == pc[t] = l
Goto(t, l)    == pc' = [pc EXCEPT ![t] = l]
Set(t, e)     == arg' = [arg EXCEPT ![t] = e]

(* Where a goroutine goes when a pacemaker call returns: the body of the   *)
(* event for the loop, its own loop for the others.                        *)
After(t)      == IF t = "loop" THEN "body" ELSE "ready"
Finish(t)     == Goto(t, After(t)) /\ Set(t, Idle)
Continue(t, l) == Goto(t, l) /\ UNCHANGED arg

-----------------------------------------------------------------------------
(* node.handle with HandleBlock, HandleVote, HandleTmo and HandleVmo.  The *)
(* stale check reads the view under the lock; a block is never stale.      *)
Handle ==
  /\ At("handle", "ready")
  /\ \/ Set("handle", Idle)
     \/ \E e \in Messages : mu = Free /\ e.view >= curView /\ Set("handle", e)
  /\ Goto("handle", "send")
  /\ UNCHANGED <<viewState, controllers, handled>>

(* The event loop receives from eventChan what handle offers ... *)
ReceiveMessage ==
  /\ At("handle", "send") /\ At("loop", "ready")
  /\ pc' = [pc EXCEPT !["handle"] = "ready",
                      !["loop"] = IF arg["handle"].kind = "block"
                                  THEN "body" ELSE "read"]
  /\ arg' = [arg EXCEPT !["loop"] = arg["handle"], !["handle"] = Idle]
  /\ UNCHANGED <<viewState, controllers, handled>>

(* ... or the entered view that ListenLocalEvent offers. *)
ReceiveView ==
  /\ At("listener", "send") /\ At("loop", "ready")
  /\ handled' = arg["listener"].view
  /\ pc' = [pc EXCEPT !["listener"] = "ready", !["loop"] = "body"]
  /\ arg' = [arg EXCEPT !["loop"] = arg["listener"], !["listener"] = Idle]
  /\ UNCHANGED <<viewState, controllers>>

(* The body of an event: it advances from the view it reads ... *)
BodyAdvance ==
  /\ At("loop", "body") /\ mu = Free /\ curView <= MaxView
  /\ Set("loop", [kind |-> "block", view |-> curView, node |-> Self])
  /\ Goto("loop", "advance")
  /\ UNCHANGED <<viewState, controllers, handled>>

(* ... or counts its own VMO (ProcessLocalVmo of the next leader) ... *)
BodyVmo ==
  /\ At("loop", "body") /\ mu = Free /\ curView \in 1 .. MaxView
  /\ Set("loop", [kind |-> "vmo", view |-> curView, node |-> Self])
  /\ Goto("loop", "read")
  /\ UNCHANGED <<viewState, controllers, handled>>

(* ... or is over. *)
BodyDone ==
  /\ At("loop", "body")
  /\ Goto("loop", "ready") /\ Set("loop", Idle)
  /\ UNCHANGED <<viewState, controllers, handled>>

(* Mutant: the view is announced and stays in the channel. *)
EnteringView_peek ==
  /\ At("listener", "ready") /\ newViewChan # << >>
  /\ Set("listener", [kind |-> "view", view |-> Head(newViewChan), node |-> Self])
  /\ Goto("listener", "send")
  /\ UNCHANGED <<newViewChan, curView, mu, controllers, handled>>

(* ListenLocalEvent: an entered view ... *)
EnteringView ==
  /\ At("listener", "ready") /\ newViewChan # << >>
  /\ Set("listener", [kind |-> "view", view |-> Head(newViewChan), node |-> Self])
  /\ newViewChan' = Tail(newViewChan)
  /\ Goto("listener", "send")
  /\ UNCHANGED <<curView, mu, controllers, handled>>

(* ... or a timeout: ProcessLocalTmo(GetCurView()) in this goroutine. *)
Timeout ==
  /\ At("listener", "ready") /\ mu = Free /\ curView <= MaxView
  /\ Set("listener", [kind |-> "tmo", view |-> curView, node |-> Self])
  /\ Goto("listener", "read")
  /\ UNCHANGED <<viewState, controllers, handled>>

(* handleTxn: the leader of view 1 kicks off the protocol. *)
KickOff ==
  /\ At("txn", "ready") /\ mu = Free /\ curView = 0 /\ LeadsFirst
  /\ Set("txn", Idle)
  /\ Goto("txn", "advance")
  /\ UNCHANGED <<viewState, controllers, handled>>

-----------------------------------------------------------------------------
(* Pacemaker.ProcessRemoteTmo and ProcessRemoteVmo read curView without    *)
(* the lock: the read may return any view written so far.                  *)
Read(t) ==
  /\ At(t, "read")
  /\ \E seen \in 0 .. curView :
       IF arg[t].view < seen THEN Finish(t) ELSE Continue(t, "add")
  /\ UNCHANGED <<viewState, controllers, handled>>

(* AddTmo under the lock of the controller. *)
Tmo(t) ==
  LET added == AddTmo(timeouts, arg[t].view, arg[t].node)
  IN  /\ At(t, "add") /\ arg[t].kind = "tmo"
      /\ timeouts' = added.timeouts
      /\ tcs' = IF added.isBuilt THEN [tcs EXCEPT ![arg[t].view] = @ + 1] ELSE tcs
      /\ IF added.isBuilt THEN Continue(t, "check") ELSE Finish(t)
      /\ UNCHANGED <<viewState, viewChanges, vcs, handled>>

(* AddVmo under the lock of the controller; a VC advances unchecked. *)
Vmo(t) ==
  LET added == AddVmo(viewChanges, arg[t].view, arg[t].node)
  IN  /\ At(t, "add") /\ arg[t].kind = "vmo"
      /\ viewChanges' = added.viewChanges
      /\ vcs' = IF added.isBuilt THEN [vcs EXCEPT ![arg[t].view] = @ + 1] ELSE vcs
      /\ IF added.isBuilt THEN Continue(t, "advance") ELSE Finish(t)
      /\ UNCHANGED <<viewState, timeouts, tcs, handled>>

(* processTC compares the TC with the current view before it advances. *)
ProcessTC(t) ==
  /\ At(t, "check") /\ mu = Free
  /\ IF arg[t].view < curView THEN Finish(t) ELSE Continue(t, "advance")
  /\ UNCHANGED <<viewState, controllers, handled>>

(* Mutants of Advance: it compares with the view it has left; it does not  *)
(* compare; it keeps the lock when it returns early.                       *)
Advance_again(t) ==
  /\ At(t, "advance") /\ mu = Free
  /\ IF arg[t].view + 1 < curView
     THEN Finish(t) /\ UNCHANGED <<curView, mu>>
     ELSE curView' = arg[t].view + 1 /\ mu' = t /\ Continue(t, "push")
  /\ UNCHANGED <<newViewChan, controllers, handled>>

Advance_back(t) ==
  /\ At(t, "advance") /\ mu = Free
  /\ curView' = arg[t].view + 1 /\ mu' = t /\ Continue(t, "push")
  /\ UNCHANGED <<newViewChan, controllers, handled>>

Advance_locked(t) ==
  /\ At(t, "advance") /\ mu = Free
  /\ mu' = t
  /\ IF arg[t].view < curView
     THEN Finish(t) /\ UNCHANGED curView
     ELSE curView' = arg[t].view + 1 /\ Continue(t, "push")
  /\ UNCHANGED <<newViewChan, controllers, handled>>

(* AdvanceView up to the channel send: lock, compare, assign. *)
Advance(t) ==
  /\ At(t, "advance") /\ mu = Free
  /\ IF arg[t].view < curView
     THEN Finish(t) /\ UNCHANGED <<curView, mu>>
     ELSE /\ curView' = arg[t].view + 1
          /\ mu' = t
          /\ Continue(t, "push")
  /\ UNCHANGED <<newViewChan, controllers, handled>>

(* Mutant: the view is dropped if another one waits in the channel. *)
Push_drop(t) ==
  /\ At(t, "push")
  /\ newViewChan' = IF newViewChan = << >> THEN <<arg[t].view + 1>> ELSE newViewChan
  /\ mu' = Free
  /\ Finish(t)
  /\ UNCHANGED <<curView, controllers, handled>>

(* newViewChan <- view + 1 blocks while the buffer is full; then unlock. *)
Push(t) ==
  /\ At(t, "push") /\ Len(newViewChan) < Cap
  /\ newViewChan' = Append(newViewChan, arg[t].view + 1)
  /\ mu' = Free
  /\ Finish(t)
  /\ UNCHANGED <<curView, controllers, handled>>

Call(t) ==
  Read(t) \/ Tmo(t) \/ Vmo(t) \/ ProcessTC(t) \/ Advance(t) \/ Push(t)

Next ==
  \/ Handle \/ ReceiveMessage \/ ReceiveView
  \/ BodyAdvance \/ BodyVmo \/ BodyDone
  \/ EnteringView \/ Timeout \/ KickOff
  \/ \E t \in {"listener", "loop", "txn"} : Call(t)

Spec == Init /\ [][Next]_vars

(* Every goroutine keeps running, an event body ends, select does not      *)
(* ignore a ready channel for ever, and eventChan serves blocked senders   *)
(* in the order in which they blocked.                                     *)
Fairness ==
  /\ \A t \in {"listener", "loop", "txn"} : SF_vars(Call(t))
  /\ SF_vars(BodyDone)
  /\ SF_vars(ReceiveView)
  /\ SF_vars(EnteringView)

FairSpec == Spec /\ Fairness

-----------------------------------------------------------------------------
(* Properties *)

TypeOK ==
  /\ curView \in 0 .. MaxView + 1
  /\ newViewChan \in Seq(1 .. MaxView + 1)
  /\ mu \in Threads \cup {Free}
  /\ timeouts \in [Views -> SUBSET Nodes]
  /\ viewChanges \in [Views -> SUBSET Nodes]
  /\ pc \in [Threads -> Labels]
  /\ arg \in [Threads -> Events]
  /\ handled \in 0 .. MaxView + 1
  /\ tcs \in [Views -> Nat]
  /\ vcs \in [Views -> Nat]

(* The views on their way to the event loop: the one ListenLocalEvent      *)
(* offers, then the buffered ones.                                         *)
InHand  == IF At("listener", "send") THEN <<arg["listener"].view>> ELSE << >>
Pending == InHand \o newViewChan

(* Three goroutines race through AdvanceView, and the event loop still     *)
(* receives every entered view in increasing order, none twice, and the    *)
(* newest announced one is the current view unless AdvanceView is between  *)
(* its assignment and its send.  processNewView proposes once per view it  *)
(* receives, so this is why a leader makes at most one block per view.     *)
ViewsInOrder ==
  LET sent == <<handled>> \o Pending
  IN  /\ \A i \in 1 .. Len(sent) - 1 : sent[i] < sent[i + 1]
      /\ IF mu = Free THEN sent[Len(sent)] = curView
                      ELSE sent[Len(sent)] < curView

(* A view gets at most one timeout certificate and at most one view-change *)
(* certificate, although listener and loop add messages concurrently, and  *)
(* a certificate means that a super majority of replicas is recorded.      *)
CertifiedOnce ==
  \A v \in Views : /\ tcs[v] = (IF superMajority(timeouts[v]) THEN 1 ELSE 0)
                   /\ vcs[v] = (IF superMajority(viewChanges[v]) THEN 1 ELSE 0)

(* AdvanceView blocks on newViewChan, holding the pacemaker's lock, only   *)
(* when the event loop is more than Cap views behind the current view.     *)
FullMeansBehind ==
  \A t \in Threads : (At(t, "push") /\ Len(newViewChan) >= Cap)
                        => curView - handled > Cap

(* What makes the properties above inductive. *)
Calling(t) == pc[t] \in {"read", "add", "check", "advance", "push"}
locked     == IF mu = Free THEN 0 ELSE 1
first      == IF At("listener", "send") THEN arg["listener"].view ELSE handled

(* A goroutine inside the pacemaker works on a view within the bound; only *)
(* the holder of the lock is between assignment and send, and the view it  *)
(* is about to announce is the current one.                                *)
LockInv ==
  /\ \A t \in Threads : Calling(t) => arg[t].view <= MaxView
  /\ At("handle", "send") => arg["handle"].view <= MaxView
  /\ \A t \in Threads : At(t, "push") <=> mu = t
  /\ \A t \in Threads : At(t, "push") => curView = arg[t].view + 1

(* The announced views are as far apart as their places in the channel,    *)
(* counted from the last view the loop received and from the current view. *)
ChanInv ==
  /\ At("listener", "send") => handled < arg["listener"].view
  /\ first + Len(newViewChan) + locked <= curView
  /\ \A i \in 1 .. Len(newViewChan) :
       /\ first + i <= newViewChan[i]
       /\ newViewChan[i] + (Len(newViewChan) - i) + locked <= curView
       /\ \A j \in 1 .. Len(newViewChan) :
            i < j => newViewChan[i] + (j - i) <= newViewChan[j]
  /\ mu = Free => curView = IF newViewChan = << >> THEN first
                            ELSE newViewChan[Len(newViewChan)]

(* The inductive invariant: no interleaving of the goroutines in the       *)
(* pacemaker breaks the bookkeeping of lock, channel and current view.     *)
IndInv == TypeOK /\ LockInv /\ ChanInv

(* The next statement of t blocks: a send on newViewChan while its buffer  *)
(* is full, a send on eventChan while the loop does not receive, the lock  *)
(* while it is held (for the listener when its timer expires, too), or a   *)
(* receive from a channel on which nobody sends.                           *)
Waits(t) ==
  \/ At(t, "push") /\ Len(newViewChan) >= Cap
  \/ pc[t] \in {"check", "advance"} /\ mu # Free
  \/ t # "loop" /\ At(t, "send") /\ ~At("loop", "ready")
  \/ t = "loop" /\ At(t, "ready") /\ ~At("handle", "send") /\ ~At("listener", "send")
  \/ t = "listener" /\ At(t, "ready") /\ newViewChan = << >> /\ mu # Free
  \/ t = "txn" /\ At(t, "ready")

(* The goroutines all wait for each other (the listener on eventChan or on *)
(* its own newViewChan, the loop or the listener inside AdvanceView, the   *)
(* others on the lock) only when the event loop is more than Cap views     *)
(* behind: lock and channels alone never deadlock a replica.               *)
DeadlockMeansBehind == (\A t \in Threads : Waits(t)) => curView - handled > Cap

(* The current view never goes back, whichever goroutine advances it. *)
ViewNeverGoesBack == [][curView' >= curView]_vars

(* Every view the pacemaker enters reaches the event loop, or a later one  *)
(* does, unless the loop falls more than Cap views behind for good: no     *)
(* other wait for the lock or for a channel lasts for ever.                *)
EnteredViewHandled ==
  \A v \in 1 .. MaxView + 1 :
    (curView >= v) ~> (handled >= v \/ [](curView - handled > Cap))
=============================================================================
