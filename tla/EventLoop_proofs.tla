-------------------------- MODULE EventLoop_proofs --------------------------
(***************************************************************************)
(* Proofs about EventLoop for every network size, channel capacity and     *)
(* bound on the views: the inductive invariant of lock, channel and        *)
(* current view, and what follows from it.                                 *)
(***************************************************************************)
EXTENDS EventLoop, FiniteSetTheorems, TLAPS

(* Zenon proves a step that names no prover; SMTT(20) sends one to the SMT solver. *)
USE ZenonT(20)

(* What SMT needs to know of the constants. *)
LEMMA Bounds == MaxView \in Nat /\ Cap \in Nat \ {0} /\ N \in Nat \ {0}
BY EventLoopAssumption, NAssumption

(* A lock is held by a goroutine, and the free lock by none. *)
LEMMA FreeIsNoThread == Free \notin Threads
BY DEF Free, Threads

(* Every action of Next, with the goroutine that takes it. *)
LEMMA NextCases ==
  ASSUME Next
  PROVE  \/ Handle \/ ReceiveMessage \/ ReceiveView
         \/ BodyAdvance \/ BodyVmo \/ BodyDone
         \/ EnteringView \/ Timeout \/ KickOff
         \/ \E t \in Threads : \/ Read(t) \/ Tmo(t) \/ Vmo(t)
                               \/ ProcessTC(t) \/ Advance(t) \/ Push(t)
BY DEF Next, Call, Threads

-----------------------------------------------------------------------------
(* Type correctness *)

(* What is sent, and what a goroutine without a call holds, is an event. *)
LEMMA EventsType ==
  /\ Messages \subseteq Events
  /\ Idle \in Events
  /\ \A v \in 0 .. MaxView + 1 : \A k \in Kinds : [kind |-> k, view |-> v, node |-> Self] \in Events
BY SMTT(20), Bounds, EventLoopAssumption DEF Messages, Events, Idle, Kinds, Views

(* The first state has its types. *)
LEMMA InitTypeOK == Init => TypeOK
BY SMTT(20), Bounds, EventsType DEF Init, TypeOK, NewPacemaker, Views, Labels

(* The controllers keep their type, whatever the message. *)
LEMMA AddType ==
  ASSUME NEW ms \in [Views -> SUBSET Nodes], NEW v \in Views, NEW n \in Nodes
  PROVE  /\ AddTmo(ms, v, n).timeouts \in [Views -> SUBSET Nodes]
         /\ AddVmo(ms, v, n).viewChanges \in [Views -> SUBSET Nodes]
BY DEF AddTmo, AddVmo

(* Every step of every goroutine keeps the types. *)
LEMMA NextTypeOK == TypeOK /\ LockInv /\ [Next]_vars => TypeOK'
<1> SUFFICES ASSUME TypeOK, LockInv, [Next]_vars
             PROVE  TypeOK'
  OBVIOUS
<1> USE Bounds, EventsType, EventLoopAssumption
<1>1. CASE Handle
  BY <1>1 DEF Handle, TypeOK, Set, Goto, viewState, controllers, Labels, Threads
<1>2. CASE ReceiveMessage
  BY <1>2 DEF ReceiveMessage, TypeOK, viewState, controllers, Labels, Threads
<1>3. CASE ReceiveView
  <2>1. arg["listener"] \in Events
    BY DEF TypeOK, Threads
  <2>2. arg["listener"].view \in 0 .. MaxView + 1
    BY <2>1 DEF Events
  <2> QED
    BY <1>3, <2>1, <2>2 DEF ReceiveView, TypeOK, viewState, controllers, Labels, Threads
<1>4. CASE BodyAdvance
  BY <1>4 DEF BodyAdvance, TypeOK, Set, Goto, viewState, controllers, Labels,
                      Threads, Kinds
<1>5. CASE BodyVmo
  BY <1>5 DEF BodyVmo, TypeOK, Set, Goto, viewState, controllers, Labels, Threads, Kinds
<1>6. CASE BodyDone
  BY <1>6 DEF BodyDone, TypeOK, Set, Goto, viewState, controllers, Labels, Threads
<1>7. CASE EnteringView
  <2>1. /\ Head(newViewChan) \in 1 .. MaxView + 1
        /\ Tail(newViewChan) \in Seq(1 .. MaxView + 1)
    BY SMTT(20), <1>7 DEF EnteringView, TypeOK
  <2>2. Head(newViewChan) \in 0 .. MaxView + 1 /\ "view" \in Kinds
    BY SMTT(20), <2>1, Bounds DEF Kinds
  <2>3. [kind |-> "view", view |-> Head(newViewChan), node |-> Self] \in Events
    BY <2>2 DEF Events
  <2> QED
    BY <1>7, <2>1, <2>3 DEF EnteringView, TypeOK, Set, Goto, controllers, Labels, Threads
<1>8. CASE Timeout
  BY <1>8 DEF Timeout, TypeOK, Set, Goto, viewState, controllers, Labels, Threads, Kinds
<1>9. CASE KickOff
  BY <1>9 DEF KickOff, TypeOK, Set, Goto, viewState, controllers, Labels, Threads
<1>10. ASSUME NEW t \in Threads, Read(t)
       PROVE  TypeOK'
  BY <1>10 DEF Read, TypeOK, Finish, Continue, After, Set, Goto, viewState,
                       controllers, Labels
<1>11. ASSUME NEW t \in Threads, Tmo(t)
       PROVE  TypeOK'
  <2>1. arg[t].view \in Views /\ arg[t].node \in Nodes
    BY SMTT(20), <1>11 DEF Tmo, TypeOK, LockInv, Calling, At, Events, Views
  <2>2. timeouts' \in [Views -> SUBSET Nodes]
    BY <1>11, <2>1, AddType DEF Tmo, TypeOK
  <2>3. tcs' \in [Views -> Nat]
    BY SMTT(20), <1>11, <2>1 DEF Tmo, TypeOK
  <2>4. pc' \in [Threads -> Labels] /\ arg' \in [Threads -> Events]
    BY <1>11 DEF Tmo, TypeOK, Finish, Continue, After, Set, Goto, Labels
  <2> QED
    BY <1>11, <2>2, <2>3, <2>4 DEF Tmo, TypeOK, viewState
<1>12. ASSUME NEW t \in Threads, Vmo(t)
       PROVE  TypeOK'
  <2>1. arg[t].view \in Views /\ arg[t].node \in Nodes
    BY SMTT(20), <1>12 DEF Vmo, TypeOK, LockInv, Calling, At, Events, Views
  <2>2. viewChanges' \in [Views -> SUBSET Nodes]
    BY <1>12, <2>1, AddType DEF Vmo, TypeOK
  <2>3. vcs' \in [Views -> Nat]
    BY SMTT(20), <1>12, <2>1 DEF Vmo, TypeOK
  <2>4. pc' \in [Threads -> Labels] /\ arg' \in [Threads -> Events]
    BY <1>12 DEF Vmo, TypeOK, Finish, Continue, After, Set, Goto, Labels
  <2> QED
    BY <1>12, <2>2, <2>3, <2>4 DEF Vmo, TypeOK, viewState
<1>13. ASSUME NEW t \in Threads, ProcessTC(t)
       PROVE  TypeOK'
  BY <1>13 DEF ProcessTC, TypeOK, Finish, Continue, After, Set, Goto, viewState,
                       controllers, Labels
<1>14. ASSUME NEW t \in Threads, Advance(t)
       PROVE  TypeOK'
  <2>1. arg[t].view \in 0 .. MaxView
    BY SMTT(20), <1>14 DEF Advance, TypeOK, LockInv, Calling, At, Events
  <2>2. curView' \in 0 .. MaxView + 1 /\ mu' \in Threads \cup {Free}
    BY SMTT(20), <1>14, <2>1 DEF Advance, TypeOK
  <2>3. pc' \in [Threads -> Labels] /\ arg' \in [Threads -> Events]
    BY <1>14 DEF Advance, TypeOK, Finish, Continue, After, Set, Goto, Labels
  <2> QED
    BY <1>14, <2>2, <2>3 DEF Advance, TypeOK, controllers
<1>15. ASSUME NEW t \in Threads, Push(t)
       PROVE  TypeOK'
  <2>1. arg[t].view \in 0 .. MaxView
    BY SMTT(20), <1>15 DEF Push, TypeOK, LockInv, Calling, At, Events
  <2>2. Append(newViewChan, arg[t].view + 1) \in Seq(1 .. MaxView + 1)
    BY SMTT(20), <2>1 DEF TypeOK
  <2> QED
    BY <1>15, <2>2 DEF Push, TypeOK, Finish, After, Set, Goto, controllers, Labels
<1>16. CASE UNCHANGED vars
  BY <1>16 DEF vars, TypeOK
<1> QED
  BY NextCases, <1>1, <1>2, <1>3, <1>4, <1>5, <1>6, <1>7, <1>8, <1>9, <1>10, <1>11,
     <1>12, <1>13, <1>14, <1>15, <1>16

-----------------------------------------------------------------------------
(* The lock *)

(* A pacemaker call that neither takes nor frees the lock moves its own    *)
(* goroutine only, and keeps what the lock guarantees.                     *)
LEMMA CallFrame ==
  ASSUME TypeOK, LockInv, NEW t \in Threads, NEW l \in {"add", "check", "advance"},
         Calling(t), ~At(t, "push"),
         Finish(t) \/ Continue(t, l),
         UNCHANGED <<curView, mu>>
  PROVE  LockInv'
<1>1. ASSUME NEW u \in Threads, u # t
      PROVE  pc'[u] = pc[u] /\ arg'[u] = arg[u]
  BY <1>1 DEF TypeOK, Finish, Continue, Set, Goto
<1>2. /\ pc'[t] \in {"add", "check", "advance", "body", "ready"}
      /\ arg'[t].view \in {arg[t].view, 0}
  BY SMTT(20) DEF TypeOK, Finish, Continue, After, Set, Goto, Idle
<1>3. arg[t].view <= MaxView /\ arg[t].view \in Nat
  BY SMTT(20), Bounds DEF LockInv, TypeOK, Events
<1>4. \A u \in Threads : Calling(u)' => arg'[u].view <= MaxView
  BY SMTT(20), <1>1, <1>2, <1>3, Bounds DEF LockInv, Calling
<1>5. At("handle", "send")' => arg'["handle"].view <= MaxView
  BY <1>1, <1>2 DEF LockInv, At, Threads
<1>6. \A u \in Threads : At(u, "push")' <=> At(u, "push")
  BY <1>1, <1>2 DEF At
<1>7. \A u \in Threads : At(u, "push")' => curView' = arg'[u].view + 1
  BY <1>1, <1>6 DEF LockInv, At
<1> QED
  BY <1>4, <1>5, <1>6, <1>7 DEF LockInv

(* At the start nobody is inside AdvanceView. *)
LEMMA InitLockInv == Init => LockInv
BY Bounds DEF Init, LockInv, Calling, At, Threads, Free

(* Every step keeps the lock with the one goroutine inside AdvanceView. *)
LEMMA NextLockInv == TypeOK /\ LockInv /\ [Next]_vars => LockInv'
<1> SUFFICES ASSUME TypeOK, LockInv, [Next]_vars
             PROVE  LockInv'
  OBVIOUS
<1> USE Bounds
<1>1. CASE Handle
  BY SMTT(20), <1>1 DEF Handle, LockInv, TypeOK, Calling, At, Set, Goto, viewState,
      Threads, Free, Idle, Messages, Views
<1>2. CASE ReceiveMessage
  BY <1>2 DEF ReceiveMessage, LockInv, TypeOK, Calling, At, Set, Goto, viewState,
                      Threads, Free, Idle, Kinds, Events
<1>3. CASE ReceiveView
  BY <1>3 DEF ReceiveView, LockInv, TypeOK, Calling, At, Set, Goto, viewState, Threads, Free, Idle
<1>4. CASE BodyAdvance
  BY <1>4 DEF BodyAdvance, LockInv, TypeOK, Calling, At, Set, Goto, viewState, Threads, Free, Idle
<1>5. CASE BodyVmo
  BY SMTT(20), <1>5 DEF BodyVmo, LockInv, TypeOK, Calling, At, Set, Goto, viewState,
      Threads, Free, Idle
<1>6. CASE BodyDone
  BY <1>6 DEF BodyDone, LockInv, TypeOK, Calling, At, Set, Goto, viewState, Threads, Free, Idle
<1>7. CASE EnteringView
  BY <1>7 DEF EnteringView, LockInv, TypeOK, Calling, At, Set, Goto, viewState, Threads, Free, Idle
<1>8. CASE Timeout
  BY <1>8 DEF Timeout, LockInv, TypeOK, Calling, At, Set, Goto, viewState, Threads, Free, Idle
<1>9. CASE KickOff
  BY SMTT(20), <1>9 DEF KickOff, LockInv, TypeOK, Calling, At, Set, Goto, viewState,
      Threads, Free, Idle
<1>10. ASSUME NEW t \in Threads, Read(t)
       PROVE  LockInv'
  <2>1. /\ Finish(t) \/ Continue(t, "add")
        /\ UNCHANGED <<curView, mu>> /\ Calling(t) /\ ~At(t, "push")
    BY <1>10 DEF Read, Calling, At, viewState
  <2> QED
    BY <2>1, CallFrame
<1>11. ASSUME NEW t \in Threads, Tmo(t)
       PROVE  LockInv'
  <2>1. /\ Finish(t) \/ Continue(t, "check")
        /\ UNCHANGED <<curView, mu>> /\ Calling(t) /\ ~At(t, "push")
    BY <1>11 DEF Tmo, Calling, At, viewState
  <2> QED
    BY <2>1, CallFrame
<1>12. ASSUME NEW t \in Threads, Vmo(t)
       PROVE  LockInv'
  <2>1. /\ Finish(t) \/ Continue(t, "advance")
        /\ UNCHANGED <<curView, mu>> /\ Calling(t) /\ ~At(t, "push")
    BY <1>12 DEF Vmo, Calling, At, viewState
  <2> QED
    BY <2>1, CallFrame
<1>13. ASSUME NEW t \in Threads, ProcessTC(t)
       PROVE  LockInv'
  <2>1. /\ Finish(t) \/ Continue(t, "advance")
        /\ UNCHANGED <<curView, mu>> /\ Calling(t) /\ ~At(t, "push")
    BY <1>13 DEF ProcessTC, Calling, At, viewState
  <2> QED
    BY <2>1, CallFrame
<1>14. ASSUME NEW t \in Threads, Advance(t)
       PROVE  LockInv'
  <2>1. CASE arg[t].view < curView
    <3>1. Finish(t) /\ UNCHANGED <<curView, mu>> /\ Calling(t) /\ ~At(t, "push")
      BY <1>14, <2>1 DEF Advance, Calling, At
    <3> QED
      BY <3>1, CallFrame
  <2>2. CASE ~(arg[t].view < curView)
    <3>1. /\ pc' = [pc EXCEPT ![t] = "push"] /\ arg' = arg
          /\ curView' = arg[t].view + 1 /\ mu' = t
          /\ At(t, "advance") /\ mu = Free
      BY <1>14, <2>2 DEF Advance, Continue, Goto
    <3>2. \A u \in Threads : ~At(u, "push")
      BY <3>1, FreeIsNoThread DEF LockInv
    <3>3. \A u \in Threads : pc'[u] = IF u = t THEN "push" ELSE pc[u]
      BY <3>1 DEF TypeOK
    <3>4. \A u \in Threads : Calling(u)' => arg[u].view <= MaxView
      BY <3>1, <3>3 DEF LockInv, Calling, At
    <3>5. At("handle", "send")' => arg["handle"].view <= MaxView
      BY <3>3 DEF LockInv, At, Threads
    <3> QED
      BY <3>1, <3>2, <3>3, <3>4, <3>5 DEF LockInv, At
  <2> QED
    BY <2>1, <2>2
<1>15. ASSUME NEW t \in Threads, Push(t)
       PROVE  LockInv'
  BY SMTT(20), <1>15, FreeIsNoThread DEF Push, LockInv, TypeOK, Calling, At, Finish,
      Continue, After, Set, Goto,
     viewState, Idle
<1>16. CASE UNCHANGED vars
  BY <1>16 DEF vars, LockInv, Calling, At
<1> QED
  BY NextCases, <1>1, <1>2, <1>3, <1>4, <1>5, <1>6, <1>7, <1>8, <1>9, <1>10, <1>11,
     <1>12, <1>13, <1>14, <1>15, <1>16

-----------------------------------------------------------------------------
(* The channel *)

(* The channel is empty at the start. *)
LEMMA InitChanInv == Init => ChanInv
BY SMTT(20) DEF Init, ChanInv, NewPacemaker, first, locked, At, Free, Threads

(* A step that leaves the pacemaker and the offer of the listener alone. *)
LEMMA ChanFrame ==
  ASSUME ChanInv, UNCHANGED <<curView, newViewChan, mu, handled>>,
         At("listener", "send")' <=> At("listener", "send"),
         At("listener", "send") => arg'["listener"] = arg["listener"]
  PROVE  ChanInv'
<1>1. first' = first /\ locked' = locked
  BY DEF first, locked
<1> QED
  BY <1>1 DEF ChanInv

(* The same for a call of the pacemaker, which is not an offer. *)
LEMMA CallOffer ==
  ASSUME TypeOK, NEW t \in Threads, Calling(t),
         NEW l \in {"add", "check", "advance", "push"},
         Finish(t) \/ Continue(t, l)
  PROVE  /\ At("listener", "send")' <=> At("listener", "send")
         /\ At("listener", "send") => arg'["listener"] = arg["listener"]
<1>1. CASE t = "listener"
  BY <1>1 DEF TypeOK, Calling, At, Finish, Continue, After, Goto, Threads
<1>2. CASE t # "listener"
  BY <1>2 DEF TypeOK, At, Finish, Continue, Set, Goto, Threads
<1> QED
  BY <1>1, <1>2

(* AdvanceView sets the current view and has yet to announce it. *)
LEMMA AdvanceChanInv ==
  ASSUME TypeOK, ChanInv, NEW t \in Threads, Advance(t)
  PROVE  ChanInv'
<1>1. arg[t].view \in Nat /\ curView \in Nat /\ newViewChan \in Seq(Nat) /\ handled \in Nat
      /\ arg["listener"].view \in Nat
  BY SMTT(20), Bounds DEF TypeOK, Events, Threads
<1>2. first' = first /\ first \in Nat
  BY <1>1, CallOffer DEF Advance, first, Calling, At
<1>3. CASE arg[t].view < curView
  BY <1>3, ChanFrame, CallOffer DEF Advance, Calling, At
<1>4. CASE ~(arg[t].view < curView)
  <2>1. /\ curView' > curView /\ curView' \in Nat /\ mu = Free /\ mu' # Free
        /\ UNCHANGED <<newViewChan, handled>>
    BY SMTT(20), <1>1, <1>4, FreeIsNoThread DEF Advance
  <2>2. locked = 0 /\ locked' = 1
    BY <2>1 DEF locked
  <2>3. (At("listener", "send") => handled < arg["listener"].view)'
    BY <1>4, <2>1, CallOffer DEF Advance, ChanInv, Calling, At
  <2>4. Len(newViewChan) \in Nat /\ \A i \in 1 .. Len(newViewChan) : newViewChan[i] \in Nat
    BY SMTT(20), <1>1
  <2>5. (first + Len(newViewChan) + locked <= curView)'
    BY SMTT(20), <1>1, <1>2, <2>1, <2>2, <2>4 DEF ChanInv
  <2>6. \A i \in 1 .. Len(newViewChan) :
          newViewChan[i] + Len(newViewChan) - i + locked' <= curView'
    BY SMTT(20), <1>1, <2>1, <2>2, <2>4 DEF ChanInv
  <2> QED
    BY <1>2, <2>1, <2>3, <2>5, <2>6 DEF ChanInv
<1> QED
  BY <1>3, <1>4

(* AdvanceView announces the current view at the end of the channel. *)
LEMMA PushChanInv ==
  ASSUME TypeOK, LockInv, ChanInv, NEW t \in Threads, Push(t)
  PROVE  ChanInv'
<1> DEFINE v == arg[t].view + 1
<1>1. /\ curView \in Nat /\ newViewChan \in Seq(Nat) /\ handled \in Nat
      /\ arg["listener"].view \in Nat
  BY SMTT(20), Bounds DEF TypeOK, Events, Threads
<1>2. first' = first /\ first \in Nat
  BY <1>1, CallOffer DEF Push, first, Calling, At
<1>3. (At("listener", "send") => handled < arg["listener"].view)'
  BY CallOffer DEF Push, ChanInv, Calling, At
<1>4. v = curView /\ mu = t /\ mu' = Free /\ curView' = curView
  BY DEF Push, LockInv
<1>5. locked = 1 /\ locked' = 0
  BY <1>4, FreeIsNoThread DEF locked
<1>6. /\ newViewChan' = Append(newViewChan, curView)
      /\ Len(newViewChan') = Len(newViewChan) + 1
      /\ Len(newViewChan) \in Nat
      /\ newViewChan'[Len(newViewChan) + 1] = curView
      /\ \A i \in 1 .. Len(newViewChan) : newViewChan'[i] = newViewChan[i] /\ newViewChan[i] \in Nat
  BY SMTT(20), <1>1, <1>4 DEF Push
<1>7. first + Len(newViewChan') <= curView
  BY SMTT(20), <1>1, <1>2, <1>5, <1>6 DEF ChanInv
<1>8. ASSUME NEW i \in 1 .. Len(newViewChan')
      PROVE  /\ first + i <= newViewChan'[i]
             /\ newViewChan'[i] + (Len(newViewChan') - i) <= curView
             /\ \A j \in 1 .. Len(newViewChan') :
                  i < j => newViewChan'[i] + (j - i) <= newViewChan'[j]
  <2>1. CASE i = Len(newViewChan) + 1
    BY SMTT(20), <1>1, <1>2, <1>6, <1>7, <2>1
  <2>2. CASE i \in 1 .. Len(newViewChan)
    <3>1. /\ first + i <= newViewChan[i]
          /\ newViewChan[i] + (Len(newViewChan) - i) + 1 <= curView
          /\ \A j \in 1 .. Len(newViewChan) : i < j => newViewChan[i] + (j - i) <= newViewChan[j]
      BY <1>5, <2>2 DEF ChanInv
    <3>2. /\ newViewChan'[i] = newViewChan[i] /\ newViewChan[i] \in Nat /\ i \in Nat
          /\ Len(newViewChan) \in Nat /\ curView \in Nat
      BY SMTT(20), <1>1, <1>6, <2>2
    <3>3. newViewChan[i] + ((Len(newViewChan) + 1) - i) <= curView
      <4>1. newViewChan[i] + (Len(newViewChan) - i) + 1 <= curView
        BY <3>1
      <4> QED
        BY SMTT(20), <3>2, <4>1
    <3>4. ASSUME NEW j \in 1 .. Len(newViewChan'), i < j
          PROVE  newViewChan'[i] + (j - i) <= newViewChan'[j]
      <4>1. CASE j = Len(newViewChan) + 1
        <5>1. newViewChan'[j] = curView
          BY <1>6, <4>1
        <5> QED
          BY <3>2, <3>3, <4>1, <5>1
      <4>2. CASE j \in 1 .. Len(newViewChan)
        BY <1>6, <2>2, <3>1, <3>4, <4>2
      <4> QED
        BY SMTT(20), <1>6, <4>1, <4>2
    <3>5. newViewChan'[i] + (Len(newViewChan') - i) <= curView
      <4>1. Len(newViewChan') = Len(newViewChan) + 1
        BY <1>6
      <4> QED
        BY <3>2, <3>3, <4>1
    <3> QED
      BY <1>6, <2>2, <3>1, <3>4, <3>5
  <2> QED
    BY SMTT(20), <1>6, <2>1, <2>2
<1>9. curView' = IF newViewChan' = << >> THEN first' ELSE newViewChan'[Len(newViewChan')]
  BY SMTT(20), <1>4, <1>6
<1>10. first' + Len(newViewChan') + locked' <= curView'
  BY SMTT(20), <1>1, <1>2, <1>4, <1>5, <1>6, <1>7
<1>11. ASSUME NEW i \in 1 .. Len(newViewChan')
       PROVE  /\ first' + i <= newViewChan'[i]
              /\ newViewChan'[i] + (Len(newViewChan') - i) + locked' <= curView'
              /\ \A j \in 1 .. Len(newViewChan') :
                   i < j => newViewChan'[i] + (j - i) <= newViewChan'[j]
  <2>1. newViewChan'[i] \in Nat /\ i \in Nat /\ Len(newViewChan') \in Nat
    BY SMTT(20), <1>1, <1>6
  <2>2. newViewChan'[i] + (Len(newViewChan') - i) + locked' <= curView'
    BY SMTT(20), <1>4, <1>5, <1>8, <2>1
  <2> QED
    BY <1>2, <1>8, <2>2
<1> QED
  BY <1>3, <1>9, <1>10, <1>11 DEF ChanInv

(* The listener takes the oldest view from the channel. *)
LEMMA EnteringChanInv ==
  ASSUME TypeOK, ChanInv, EnteringView
  PROVE  ChanInv'
<1>1. /\ curView \in Nat /\ newViewChan \in Seq(Nat) /\ handled \in Nat
      /\ newViewChan # << >> /\ locked \in Nat
  BY SMTT(20), Bounds DEF TypeOK, EnteringView, locked
<1>2. /\ Len(newViewChan) \in Nat \ {0} /\ newViewChan[1] \in Nat
      /\ Head(newViewChan) = newViewChan[1]
      /\ Len(newViewChan') = Len(newViewChan) - 1
      /\ \A i \in 1 .. Len(newViewChan') : /\ newViewChan'[i] = newViewChan[i + 1]
                                           /\ newViewChan[i + 1] \in Nat
                                           /\ i + 1 \in 1 .. Len(newViewChan)
  BY SMTT(20), <1>1 DEF EnteringView
<1>3. /\ ~At("listener", "send") /\ At("listener", "send")'
      /\ arg'["listener"].view = newViewChan[1]
  BY <1>2 DEF EnteringView, TypeOK, At, Set, Goto, Threads
<1>4. first = handled /\ first' = newViewChan[1] /\ locked' = locked
  BY <1>3 DEF first, EnteringView, locked
<1>5. UNCHANGED <<curView, handled, mu>>
  BY DEF EnteringView
<1>6. handled' < arg'["listener"].view
  BY SMTT(20), <1>1, <1>2, <1>3, <1>4, <1>5 DEF ChanInv
<1>7. first' + Len(newViewChan') + locked' <= curView'
  BY SMTT(20), <1>1, <1>2, <1>4, <1>5 DEF ChanInv
<1>8. ASSUME NEW i \in 1 .. Len(newViewChan')
      PROVE  /\ first' + i <= newViewChan'[i]
             /\ newViewChan'[i] + (Len(newViewChan') - i) + locked' <= curView'
             /\ \A j \in 1 .. Len(newViewChan') :
                  i < j => newViewChan'[i] + (j - i) <= newViewChan'[j]
  <2>0. /\ i \in Nat /\ 1 \in 1 .. Len(newViewChan) /\ i + 1 \in 1 .. Len(newViewChan)
        /\ newViewChan'[i] = newViewChan[i + 1] /\ newViewChan[i + 1] \in Nat /\ 1 < i + 1
    BY SMTT(20), <1>2
  <2>1. first' + i <= newViewChan'[i]
    <3>1. newViewChan[1] + ((i + 1) - 1) <= newViewChan[i + 1]
      BY <2>0 DEF ChanInv
    <3> QED
      BY SMTT(20), <1>2, <1>4, <2>0, <3>1
  <2>2. newViewChan'[i] + (Len(newViewChan') - i) + locked' <= curView'
    <3>1. newViewChan[i + 1] + (Len(newViewChan) - (i + 1)) + locked <= curView
      BY <2>0 DEF ChanInv
    <3> QED
      BY SMTT(20), <1>1, <1>2, <1>4, <1>5, <2>0, <3>1
  <2>3. ASSUME NEW j \in 1 .. Len(newViewChan'), i < j
        PROVE  newViewChan'[i] + (j - i) <= newViewChan'[j]
    <3>1. newViewChan[i + 1] + ((j + 1) - (i + 1)) <= newViewChan[j + 1]
      BY SMTT(20), <1>2, <2>3 DEF ChanInv
    <3> QED
      BY SMTT(20), <1>2, <3>1
  <2> QED
    BY <2>1, <2>2, <2>3
<1>9. mu' = Free => curView' = IF newViewChan' = << >> THEN first'
                               ELSE newViewChan'[Len(newViewChan')]
  <2>1. CASE Len(newViewChan) = 1
    <3>1. newViewChan' = << >>
      BY SMTT(20), <1>1, <2>1 DEF EnteringView
    <3>2. mu = Free => curView = newViewChan[1]
      BY <1>1, <2>1 DEF ChanInv
    <3> QED
      BY <1>4, <1>5, <3>1, <3>2
  <2>2. CASE Len(newViewChan) # 1
    <3>1. /\ newViewChan' # << >> /\ Len(newViewChan') \in 1 .. Len(newViewChan')
          /\ newViewChan'[Len(newViewChan')] = newViewChan[Len(newViewChan)]
      BY SMTT(20), <1>1, <1>2, <2>2
    <3> QED
      BY <1>1, <1>5, <3>1 DEF ChanInv
  <2> QED
    BY <2>1, <2>2
<1> QED
  BY <1>6, <1>7, <1>8, <1>9 DEF ChanInv

(* The loop receives that view. *)
LEMMA ReceiveChanInv ==
  ASSUME TypeOK, ChanInv, ReceiveView
  PROVE  ChanInv'
<1>1. /\ At("listener", "send") /\ ~At("listener", "send")'
      /\ UNCHANGED <<curView, newViewChan, mu>>
      /\ handled' = arg["listener"].view
  BY DEF ReceiveView, TypeOK, At, Threads, viewState
<1>2. first' = first /\ locked' = locked
  BY <1>1 DEF first, locked
<1> QED
  BY <1>1, <1>2 DEF ChanInv

(* Every step keeps the distances between views in the channel. *)
LEMMA NextChanInv == TypeOK /\ LockInv /\ ChanInv /\ [Next]_vars => ChanInv'
<1> SUFFICES ASSUME TypeOK, LockInv, ChanInv, [Next]_vars
             PROVE  ChanInv'
  OBVIOUS
<1>1. CASE Handle
  BY <1>1, ChanFrame DEF Handle, TypeOK, At, Set, Goto, viewState, Threads
<1>2. CASE ReceiveMessage
  BY <1>2, ChanFrame DEF ReceiveMessage, TypeOK, At, Set, Goto, viewState, Threads
<1>3. CASE BodyAdvance
  BY <1>3, ChanFrame DEF BodyAdvance, TypeOK, At, Set, Goto, viewState, Threads
<1>4. CASE BodyVmo
  BY <1>4, ChanFrame DEF BodyVmo, TypeOK, At, Set, Goto, viewState, Threads
<1>5. CASE BodyDone
  BY <1>5, ChanFrame DEF BodyDone, TypeOK, At, Set, Goto, viewState, Threads
<1>6. CASE Timeout
  BY <1>6, ChanFrame DEF Timeout, TypeOK, At, Set, Goto, viewState, Threads
<1>7. CASE KickOff
  BY <1>7, ChanFrame DEF KickOff, TypeOK, At, Set, Goto, viewState, Threads
<1>8. CASE ReceiveView
  BY <1>8, ReceiveChanInv
<1>9. CASE EnteringView
  BY <1>9, EnteringChanInv
<1>10. ASSUME NEW t \in Threads, Read(t)
       PROVE  ChanInv'
  BY <1>10, ChanFrame, CallOffer DEF Read, Calling, At, viewState
<1>11. ASSUME NEW t \in Threads, Tmo(t)
       PROVE  ChanInv'
  BY <1>11, ChanFrame, CallOffer DEF Tmo, Calling, At, viewState
<1>12. ASSUME NEW t \in Threads, Vmo(t)
       PROVE  ChanInv'
  BY <1>12, ChanFrame, CallOffer DEF Vmo, Calling, At, viewState
<1>13. ASSUME NEW t \in Threads, ProcessTC(t)
       PROVE  ChanInv'
  BY <1>13, ChanFrame, CallOffer DEF ProcessTC, Calling, At, viewState
<1>14. ASSUME NEW t \in Threads, Advance(t)
       PROVE  ChanInv'
  BY <1>14, AdvanceChanInv
<1>15. ASSUME NEW t \in Threads, Push(t)
       PROVE  ChanInv'
  BY <1>15, PushChanInv
<1>16. CASE UNCHANGED vars
  BY <1>16, ChanFrame DEF vars, At
<1> QED
  BY NextCases, <1>1, <1>2, <1>3, <1>4, <1>5, <1>6, <1>7, <1>8, <1>9, <1>10, <1>11,
     <1>12, <1>13, <1>14, <1>15, <1>16

-----------------------------------------------------------------------------
(* The theorems *)

(* No interleaving of the goroutines of a replica breaks the bookkeeping   *)
(* of the pacemaker: the types, who holds the lock, and the distances      *)
(* between the announced views (AdvanceView, ListenLocalEvent, Start).     *)
THEOREM PacemakerInvariant == Spec => []IndInv
<1>1. Init => IndInv
  BY InitTypeOK, InitLockInv, InitChanInv DEF IndInv
<1>2. IndInv /\ [Next]_vars => IndInv'
  BY NextTypeOK, NextLockInv, NextChanInv DEF IndInv
<1> QED
  BY <1>1, <1>2, PTL DEF Spec

(* AdvanceView blocks on a full newViewChan only if the event loop is more *)
(* than the capacity of the channel behind.                                *)
THEOREM FullChannelMeansBehind == Spec => []FullMeansBehind
<1>1. ASSUME IndInv
      PROVE  FullMeansBehind
  <2>1. /\ curView \in Nat /\ handled \in Nat /\ newViewChan \in Seq(Nat)
        /\ arg["listener"].view \in Nat
    BY SMTT(20), <1>1, Bounds DEF IndInv, TypeOK, Events, Threads
  <2>2. handled <= first /\ first \in Nat
    BY SMTT(20), <1>1, <2>1 DEF IndInv, ChanInv, first
  <2>3. ASSUME NEW t \in Threads, At(t, "push"), Len(newViewChan) >= Cap
        PROVE  curView - handled > Cap
    <3>1. locked = 1
      BY <1>1, <2>3, FreeIsNoThread DEF IndInv, LockInv, locked
    <3>2. first + Len(newViewChan) + 1 <= curView
      BY <1>1, <3>1 DEF IndInv, ChanInv
    <3> QED
      BY SMTT(20), <2>1, <2>2, <2>3, <3>2, Bounds
  <2> QED
    BY <2>3 DEF FullMeansBehind
<1> QED
  BY <1>1, PacemakerInvariant, PTL

(* The goroutines block each other for good only around a full channel:    *)
(* handle then waits to send, so the loop waits inside AdvanceView, and    *)
(* whoever holds the lock waits on newViewChan.                            *)
THEOREM DeadlockOnlyWhenBehind == Spec => []DeadlockMeansBehind
<1>1. ASSUME IndInv, FullMeansBehind, \A t \in Threads : Waits(t)
      PROVE  curView - handled > Cap
  <2>1. Waits("handle") /\ Waits("loop")
    BY <1>1 DEF Threads
  <2>2. At("handle", "push") \/ mu # Free \/ At("handle", "send")
    BY <2>1 DEF Waits, At
  <2>3. At("loop", "push") \/ mu # Free \/ (At("loop", "ready") /\ ~At("handle", "send"))
    BY <2>1 DEF Waits, At
  <2>4. PICK t \in Threads : At(t, "push")
    BY <1>1, <2>2, <2>3 DEF IndInv, LockInv, TypeOK, Threads
  <2>5. Len(newViewChan) >= Cap
    BY <1>1, <2>4 DEF Waits, At
  <2> QED
    BY <1>1, <2>4, <2>5 DEF FullMeansBehind
<1>2. IndInv /\ FullMeansBehind => DeadlockMeansBehind
  BY <1>1 DEF DeadlockMeansBehind
<1> QED
  BY <1>2, PacemakerInvariant, FullChannelMeansBehind, PTL

(* The current view never goes back, whichever goroutine advances it and   *)
(* however its call to AdvanceView interleaves with others.                *)
THEOREM ViewMonotone == Spec => ViewNeverGoesBack
<1>1. ASSUME TypeOK, [Next]_vars
      PROVE  curView' >= curView
  <2>1. curView \in Nat /\ \A t \in Threads : arg[t].view \in Nat
    BY SMTT(20), <1>1, Bounds DEF TypeOK, Events
  <2>2. ASSUME NEW t \in Threads, Advance(t)
        PROVE  curView' >= curView
    BY SMTT(20), <2>1, <2>2 DEF Advance
  <2>3. CASE UNCHANGED curView
    BY SMTT(20), <2>1, <2>3
  <2>4. (\E t \in Threads : Advance(t)) \/ UNCHANGED curView
    BY <1>1, NextCases DEF vars, viewState, Handle, ReceiveMessage, ReceiveView, BodyAdvance, BodyVmo,
       BodyDone, EnteringView, Timeout, KickOff, Read, Tmo, Vmo, ProcessTC, Push
  <2> QED
    BY <2>2, <2>3, <2>4
<1>2. IndInv => TypeOK
  BY DEF IndInv
<1>3. TypeOK /\ [Next]_vars => [curView' >= curView]_vars
  BY <1>1
<1> QED
  BY <1>2, <1>3, PacemakerInvariant, PTL DEF Spec, ViewNeverGoesBack

(* The event loop receives the entered views in increasing order, each at  *)
(* most once, and the last one announced is the current view; hence a      *)
(* leader proposes at most once per view (processNewView).                 *)
THEOREM EnteredViewsInOrder == Spec => []ViewsInOrder
<1>1. ASSUME IndInv
      PROVE  ViewsInOrder
  <2> DEFINE sent == <<handled>> \o Pending
             n    == Len(newViewChan)
             k    == IF At("listener", "send") THEN 2 ELSE 1
  <2>1. /\ curView \in Nat /\ handled \in Nat /\ newViewChan \in Seq(Nat) /\ n \in Nat
        /\ arg["listener"].view \in Nat /\ k \in {1, 2}
        /\ \A i \in 1 .. n : newViewChan[i] \in Nat
    BY SMTT(20), <1>1, Bounds DEF IndInv, TypeOK, Events, Threads
  <2>2. /\ Len(sent) = k + n
        /\ sent[1] = handled /\ sent[k] = first
        /\ \A i \in 1 .. n : sent[k + i] = newViewChan[i]
    BY SMTT(20), <2>1 DEF Pending, InHand, first
  <2>3. /\ k = 2 => handled < first
        /\ first \in Nat
    BY SMTT(20), <1>1, <2>1 DEF IndInv, ChanInv, first
  <2>4. ASSUME NEW i \in 1 .. n
        PROVE  /\ first + i <= newViewChan[i]
               /\ newViewChan[i] + (n - i) + locked <= curView
               /\ \A j \in 1 .. n : i < j => newViewChan[i] + (j - i) <= newViewChan[j]
    BY <1>1 DEF IndInv, ChanInv
  <2>5. /\ first + n + locked <= curView
        /\ mu = Free => curView = IF newViewChan = << >> THEN first ELSE newViewChan[n]
    BY <1>1 DEF IndInv, ChanInv
  <2> HIDE DEF sent, n, k
  <2>6. ASSUME NEW i \in 1 .. Len(sent) - 1
        PROVE  sent[i] < sent[i + 1]
    <3>1. CASE i < k
      BY SMTT(20), <2>1, <2>2, <2>3, <3>1
    <3>2. CASE i = k
      <4>1. 1 \in 1 .. n /\ sent[i + 1] = newViewChan[1] /\ sent[i] = first
        BY SMTT(20), <2>1, <2>2, <3>2
      <4> QED
        BY SMTT(20), <2>1, <2>3, <2>4, <4>1
    <3>3. CASE i > k
      <4> DEFINE j == i - k
      <4>1. /\ j \in 1 .. n /\ j + 1 \in 1 .. n /\ i = k + j /\ i + 1 = k + (j + 1)
        BY SMTT(20), <2>1, <2>2, <3>3
      <4>2. sent[i] = newViewChan[j] /\ sent[i + 1] = newViewChan[j + 1]
        BY SMTT(20), <2>2, <4>1
      <4> HIDE DEF j
      <4>3. newViewChan[j] + ((j + 1) - j) <= newViewChan[j + 1]
        BY SMTT(20), <2>4, <4>1
      <4> QED
        BY SMTT(20), <2>1, <4>1, <4>2, <4>3
    <3> QED
      BY SMTT(20), <2>1, <2>2, <3>1, <3>2, <3>3
  <2>7. sent[Len(sent)] = IF n = 0 THEN first ELSE newViewChan[n]
    BY SMTT(20), <2>1, <2>2
  <2>8. newViewChan = << >> <=> n = 0
    BY SMTT(20), <2>1 DEF n
  <2>9. IF mu = Free THEN sent[Len(sent)] = curView ELSE sent[Len(sent)] < curView
    <3>1. CASE mu = Free
      BY <2>5, <2>7, <2>8, <3>1
    <3>2. CASE mu # Free /\ n = 0
      BY SMTT(20), <2>1, <2>3, <2>5, <2>7, <3>2 DEF locked
    <3>3. CASE mu # Free /\ n # 0
      <4>1. newViewChan[n] + (n - n) + 1 <= curView
        BY SMTT(20), <2>1, <2>4, <3>3 DEF locked
      <4> QED
        BY SMTT(20), <2>1, <2>7, <3>3, <4>1
    <3> QED
      BY <3>1, <3>2, <3>3
  <2> QED
    BY <2>6, <2>9 DEF ViewsInOrder, sent
<1> QED
  BY <1>1, PacemakerInvariant, PTL

-----------------------------------------------------------------------------
(* The controllers *)

(* No message at all is not a super majority. *)
LEMMA NobodyIsNoMajority == ~superMajority({})
<1>1. Cardinality({}) = 0
  BY FS_EmptySet
<1> QED
  BY SMTT(20), <1>1, Bounds DEF superMajority

(* Every step keeps one certificate per view, at a super majority. *)
LEMMA NextCertifiedOnce ==
  TypeOK /\ LockInv /\ CertifiedOnce /\ [Next]_vars => CertifiedOnce'
<1> SUFFICES ASSUME TypeOK, LockInv, CertifiedOnce, [Next]_vars
             PROVE  CertifiedOnce'
  OBVIOUS
<1>1. CASE UNCHANGED controllers
  BY <1>1 DEF controllers, CertifiedOnce
<1>2. ASSUME NEW t \in Threads, Tmo(t)
      PROVE  CertifiedOnce'
  <2> DEFINE v     == arg[t].view
             added == AddTmo(timeouts, v, arg[t].node)
  <2>1. v \in Views
    BY SMTT(20), <1>2, Bounds DEF Tmo, TypeOK, LockInv, Calling, At, Events, Views
  <2>2. /\ UNCHANGED <<viewChanges, vcs>>
        /\ timeouts' = added.timeouts
        /\ tcs' = IF added.isBuilt THEN [tcs EXCEPT ![v] = @ + 1] ELSE tcs
    BY <1>2 DEF Tmo
  <2>3. CASE superMajority(timeouts[v])
    <3>1. ~added.isBuilt /\ added.timeouts = timeouts
      BY <2>3 DEF AddTmo
    <3> QED
      BY <2>2, <3>1 DEF CertifiedOnce
  <2>4. CASE ~superMajority(timeouts[v])
    <3>1. /\ added.timeouts = [timeouts EXCEPT ![v] = @ \cup {arg[t].node}]
          /\ added.isBuilt = superMajority(added.timeouts[v])
      BY <2>4 DEF AddTmo
    <3>2. \A u \in Views : u # v => timeouts'[u] = timeouts[u] /\ tcs'[u] = tcs[u]
      BY <2>1, <2>2, <3>1 DEF TypeOK
    <3>3. tcs'[v] = (IF superMajority(timeouts'[v]) THEN 1 ELSE 0)
      BY SMTT(20), <2>1, <2>2, <2>4, <3>1 DEF TypeOK, CertifiedOnce
    <3> QED
      BY SMTT(20), <2>2, <3>2, <3>3 DEF CertifiedOnce
  <2> QED
    BY <2>3, <2>4
<1>3. ASSUME NEW t \in Threads, Vmo(t)
      PROVE  CertifiedOnce'
  <2> DEFINE v     == arg[t].view
             added == AddVmo(viewChanges, v, arg[t].node)
  <2>1. v \in Views
    BY SMTT(20), <1>3, Bounds DEF Vmo, TypeOK, LockInv, Calling, At, Events, Views
  <2>2. /\ UNCHANGED <<timeouts, tcs>>
        /\ viewChanges' = added.viewChanges
        /\ vcs' = IF added.isBuilt THEN [vcs EXCEPT ![v] = @ + 1] ELSE vcs
    BY <1>3 DEF Vmo
  <2>3. CASE superMajority(viewChanges[v])
    <3>1. ~added.isBuilt /\ added.viewChanges = viewChanges
      BY <2>3 DEF AddVmo
    <3> QED
      BY <2>2, <3>1 DEF CertifiedOnce
  <2>4. CASE ~superMajority(viewChanges[v])
    <3>1. /\ added.viewChanges = [viewChanges EXCEPT ![v] = @ \cup {arg[t].node}]
          /\ added.isBuilt = superMajority(added.viewChanges[v])
      BY <2>4 DEF AddVmo
    <3>2. \A u \in Views : u # v => viewChanges'[u] = viewChanges[u] /\ vcs'[u] = vcs[u]
      BY <2>1, <2>2, <3>1 DEF TypeOK
    <3>3. vcs'[v] = (IF superMajority(viewChanges'[v]) THEN 1 ELSE 0)
      BY SMTT(20), <2>1, <2>2, <2>4, <3>1 DEF TypeOK, CertifiedOnce
    <3> QED
      BY SMTT(20), <2>2, <3>2, <3>3 DEF CertifiedOnce
  <2> QED
    BY <2>3, <2>4
<1>4. \/ UNCHANGED controllers
      \/ \E t \in Threads : Tmo(t) \/ Vmo(t)
  BY NextCases DEF vars, controllers, Handle, ReceiveMessage, ReceiveView, BodyAdvance, BodyVmo,
     BodyDone, EnteringView, Timeout, KickOff, Read, ProcessTC, Advance, Push
<1> QED
  BY <1>1, <1>2, <1>3, <1>4

(* AddTmo and AddVmo build at most one certificate per view, exactly when  *)
(* a super majority is recorded, although listener and loop race in them.  *)
THEOREM OneCertificatePerView == Spec => []CertifiedOnce
<1>1. Init => CertifiedOnce
  BY NobodyIsNoMajority DEF Init, CertifiedOnce, NewPacemaker
<1>2. TypeOK /\ LockInv /\ CertifiedOnce /\ [Next]_vars => CertifiedOnce'
  BY NextCertifiedOnce
<1>3. IndInv => TypeOK /\ LockInv
  BY DEF IndInv
<1> QED
  BY <1>1, <1>2, <1>3, PacemakerInvariant, PTL DEF Spec
=============================================================================
