--------------------------- MODULE Socket_proofs ---------------------------
(***************************************************************************)
(* The safety of the socket for any number of goroutines, messages, faults *)
(* and durations.                                                          *)
(***************************************************************************)
EXTENDS Socket, FiniteSetTheorems, SequenceTheorems, TLAPS

(* Zenon proves a step that names no prover; SMTT(20) sends one to the SMT solver. *)
USE ZenonT(20)

Msgs == Senders \X Nat

-----------------------------------------------------------------------------
(* Faults and their timers *)

FaultTypes ==
  /\ on \subseteq Faults /\ until \in [Faults -> Nat]
  /\ injected \in Nat /\ now \in Nat
  /\ timers \subseteq [fault : Faults, at : Nat, no : Nat]

(* The only fault so far is on until the time of its timer. *)
FirstFault ==
  /\ injected = 0 => timers = {} /\ \A f \in Faults : until[f] = 0
  /\ injected = 1 => \A t \in timers : until[t.fault] <= t.at

FaultInv == FaultTypes /\ FirstFault /\ FaultsEnd /\ FaultLasts

(* Every step keeps the timers in line with the switches. *)
LEMMA FaultStep == FaultInv /\ [Next]_vars => FaultInv'
<1> SUFFICES ASSUME FaultInv, [Next]_vars PROVE FaultInv'
  OBVIOUS
<1> USE SocketAssumption
<1>0. FaultTypes /\ FirstFault /\ FaultsEnd /\ FaultLasts
  BY DEF FaultInv
<1>1. ASSUME NEW f \in Faults, NEW t \in Durations, Inject(f, t) PROVE FaultInv'
  <2> DEFINE timer == [fault |-> f, at |-> now + t, no |-> injected]
             ends  == IF f \in Crashes /\ t = 0 THEN Forever ELSE now + t
  <2>1. t \in Nat /\ Forever \in Nat /\ now \in Nat /\ injected \in Nat
    BY SMTT(20), <1>0 DEF FaultTypes, Forever
  <2>2. timer \in [fault : Faults, at : Nat, no : Nat] /\ ends \in Nat
    BY SMTT(20), <2>1
  <2>3. /\ on' = on \cup {f} /\ until' = [until EXCEPT ![f] = ends] /\ injected' = injected + 1
        /\ now' = now
        /\ timers' = IF StartsTimer(f, t) THEN timers \cup {timer} ELSE timers
    BY <1>1 DEF Inject
  <2>4. ~StartsTimer(f, t) => ends = Forever
    BY SMTT(20), <2>1 DEF StartsTimer
  <2>5. StartsTimer(f, t) => ends = timer.at
    BY SMTT(20), <2>1 DEF StartsTimer
  <2>6. timer.fault = f
    OBVIOUS
  <2>7. \A e \in Faults : until'[e] = IF e = f THEN ends ELSE until[e]
    BY <1>0, <2>3 DEF FaultTypes
  <2> HIDE DEF timer, ends
  <2>8. FaultTypes'
    BY SMTT(20), <1>0, <2>1, <2>2, <2>3 DEF FaultTypes
  <2>9. FaultsEnd'
    BY <1>0, <2>3, <2>4, <2>6, <2>7 DEF FaultsEnd, FaultTypes, Forever
  <2>10. FirstFault'
    <3>1. injected' # 0
      BY SMTT(20), <2>1, <2>3
    <3>2. ASSUME injected' = 1 PROVE \A s \in timers' : until'[s.fault] <= s.at
      <4>1. timers = {}
        BY SMTT(20), <1>0, <2>1, <2>3, <3>2 DEF FirstFault
      <4>2. \A s \in timers' : s = timer /\ StartsTimer(f, t)
        BY <2>3, <4>1
      <4> QED
        BY SMTT(20), <2>2, <2>5, <2>6, <2>7, <4>2
    <3> QED
      BY <3>1, <3>2 DEF FirstFault
  <2>11. FaultLasts'
    BY SMTT(20), <1>0, <2>1, <2>3, <2>7 DEF FirstFault, FaultLasts
  <2> QED
    BY <2>8, <2>9, <2>10, <2>11 DEF FaultInv
<1>2. CASE Expire
  <2>1. PICK t \in timers : t.at <= now /\ on' = on \ {t.fault} /\ timers' = timers \ {t}
    BY <1>2 DEF Expire
  <2>2. UNCHANGED <<until, injected, now>>
    BY <1>2 DEF Expire
  <2>3. t.fault \in Faults /\ t.at \in Nat /\ until[t.fault] \in Nat
    BY <1>0 DEF FaultTypes
  <2>4. FaultTypes' /\ FirstFault'
    BY <1>0, <2>1, <2>2 DEF FaultTypes, FirstFault
  <2>5. FaultsEnd'
    BY <1>0, <2>1, <2>2 DEF FaultsEnd, Forever
  <2>6. FaultLasts'
    BY SMTT(20), <1>0, <2>1, <2>2, <2>3 DEF FaultTypes, FirstFault, FaultLasts
  <2> QED
    BY <2>4, <2>5, <2>6 DEF FaultInv
<1>3. CASE Tick
  <2>1. UNCHANGED <<on, timers, until, injected>> /\ now' = now + 1
    BY <1>3 DEF Tick
  <2>2. FaultLasts'
    BY SMTT(20), <1>0, <2>1 DEF FaultTypes, FaultLasts
  <2> QED
    BY SMTT(20), <1>0, <2>1, <2>2 DEF FaultInv, FaultTypes, FirstFault, FaultsEnd, Forever
<1>4. CASE UNCHANGED faults
  BY <1>0, <1>4 DEF FaultInv, FaultTypes, FirstFault, FaultsEnd, FaultLasts, Forever, faults
<1>5. ASSUME NEW g \in Senders, Call(g) \/ Send(g) PROVE UNCHANGED faults
  BY <1>5 DEF Call, Send, Dial, Register, Put
<1>6. ASSUME DelayOver \/ Deliver1 \/ UNCHANGED vars PROVE UNCHANGED faults
  BY <1>6 DEF DelayOver, Deliver1, Deliver, vars
<1> QED
  BY <1>1, <1>2, <1>3, <1>4, <1>5, <1>6 DEF Next

(* Every fault that is on, but a crash for good, has a timer that ends it, *)
(* however many faults of whatever durations overlap.                      *)
THEOREM EveryFaultEnds == Spec => []FaultsEnd
<1>1. Init => FaultInv
  BY SMTT(20) DEF Init, FaultInv, FaultTypes, FirstFault, FaultsEnd, FaultLasts
<1>2. FaultInv => FaultsEnd
  BY DEF FaultInv
<1> QED
  BY <1>1, <1>2, FaultStep, PTL DEF Spec

(* The first fault injected is on until its time is over, whichever it is  *)
(* and however long it lasts.                                              *)
THEOREM FirstFaultLasts == Spec => []FaultLasts
<1>1. Init => FaultInv
  BY SMTT(20) DEF Init, FaultInv, FaultTypes, FirstFault, FaultsEnd, FaultLasts
<1>2. FaultInv => FaultLasts
  BY DEF FaultInv
<1> QED
  BY <1>1, <1>2, FaultStep, PTL DEF Spec

-----------------------------------------------------------------------------
(* Connections *)

At(label) == {g \in Senders : pc[g] = label}

(* Before the first registration every connection belongs to a goroutine   *)
(* that is about to register it; afterwards nobody starts to dial.         *)
ConnInv ==
  /\ pc \in [Senders -> {"idle", "dial", "register", "send"}]
  /\ queues \in Seq(Seq(Msgs)) /\ node \in Nat /\ conn \in [Senders -> Nat]
  /\ \A g \in At("register") : conn[g] > 0
  /\ node = 0 => At("send") = {} /\ Len(queues) = Cardinality(At("register"))
  /\ Len(queues) + Cardinality(At("dial")) <= Cardinality(Senders)

(* Sets of goroutines are finite and have their size. *)
LEMMA AtFacts ==
  ASSUME NEW S, S \subseteq Senders
  PROVE  /\ IsFiniteSet(S) /\ Cardinality(S) \in Nat /\ Cardinality(S) <= Cardinality(Senders)
         /\ Cardinality(Senders) \in Nat
  BY SocketAssumption, FS_Subset, FS_CardinalityType

(* One goroutine more, ... *)
LEMMA AddedTo ==
  ASSUME NEW S, S \subseteq Senders, NEW g \in Senders, g \notin S
  PROVE  Cardinality(S \cup {g}) = Cardinality(S) + 1
  BY AtFacts, FS_AddElement

(* ... and one less. *)
LEMMA RemovedFrom ==
  ASSUME NEW S, S \subseteq Senders, NEW g \in S
  PROVE  Cardinality(S \ {g}) = Cardinality(S) - 1
  BY AtFacts, FS_RemoveElement

(* A step that leaves Send where it is in every goroutine and changes only *)
(* what the queues hold.                                                   *)
LEMMA ConnFrame ==
  ASSUME ConnInv, pc' = pc, conn' = conn, node' = node,
         queues' \in Seq(Seq(Msgs)), Len(queues') = Len(queues)
  PROVE  ConnInv'
  BY DEF ConnInv, At

(* Writing to a queue and taking from it leaves as many queues. *)
LEMMA SameQueues ==
  ASSUME queues \in Seq(Seq(Msgs)), NEW c, NEW q, c \in DOMAIN queues => q \in Seq(Msgs),
         queues' = [queues EXCEPT ![c] = q]
  PROVE  queues' \in Seq(Seq(Msgs)) /\ Len(queues') = Len(queues)
<1>1. Len(queues) \in Nat /\ queues \in [1 .. Len(queues) -> Seq(Msgs)]
  BY LenProperties
<1>2. queues' \in [1 .. Len(queues) -> Seq(Msgs)]
  BY <1>1
<1>3. queues' \in Seq(Seq(Msgs))
  BY SMTT(20), <1>1, <1>2, SeqDef
<1> QED
  BY SMTT(20), <1>1, <1>2, <1>3, LenProperties

(* Every step keeps the connections within the number of goroutines. *)
LEMMA ConnStep ==
  ASSUME ConnInv, sent \in [Senders -> Nat], delayed \subseteq Nat \X Msgs, [Next]_vars
  PROVE  ConnInv'
<1> DEFINE D == At("dial")
           R == At("register")
<1>0. /\ D \subseteq Senders /\ R \subseteq Senders /\ D \cap R = {}
      /\ Len(queues) \in Nat /\ Cardinality(D) \in Nat /\ Cardinality(R) \in Nat
      /\ Cardinality(Senders) \in Nat
  BY AtFacts, LenProperties DEF ConnInv, At
<1>1. ASSUME NEW g \in Senders, Call(g) PROVE ConnInv'
  <2>1. CASE pc' = pc /\ conn' = conn
    BY <1>1, <2>1, ConnFrame DEF Call, ConnInv
  <2>2. CASE /\ conn' = [conn EXCEPT ![g] = node]
             /\ pc' = [pc EXCEPT ![g] = IF node = 0 THEN "dial" ELSE "send"]
    <3>1. pc[g] = "idle" /\ UNCHANGED <<node, queues>>
      BY <1>1 DEF Call
    <3>2. At("register")' = R
      BY <2>2, <3>1 DEF At, ConnInv
    <3>3. CASE node = 0
      <4>1. At("dial")' = D \cup {g} /\ At("send")' = At("send") /\ g \notin D
        BY <2>2, <3>1, <3>3 DEF At, ConnInv
      <4>2. Cardinality(At("dial")') = Cardinality(D) + 1
        BY <1>0, <4>1, AddedTo
      <4>3. Cardinality(R \cup (D \cup {g})) <= Cardinality(Senders)
        BY <1>0, AtFacts
      <4>4. Cardinality(R \cup (D \cup {g})) = Cardinality(R) + Cardinality(D \cup {g})
        <5>1. R \cap (D \cup {g}) = {}
          BY <1>0, <3>1 DEF At
        <5>2. IsFiniteSet(R) /\ IsFiniteSet(D \cup {g})
          BY <1>0, AtFacts
        <5>3. Cardinality(R \cap (D \cup {g})) = 0
          BY <5>1, FS_EmptySet
        <5>4. Cardinality(R) \in Nat /\ Cardinality(D \cup {g}) \in Nat
          BY <5>2, FS_CardinalityType
        <5>5. Cardinality(R \cup (D \cup {g})) =
                Cardinality(R) + Cardinality(D \cup {g}) - Cardinality(R \cap (D \cup {g}))
          BY <5>2, FS_Union
        <5> QED
          BY SMTT(20), <5>3, <5>4, <5>5
      <4>5. Len(queues) = Cardinality(R)
        BY <3>3 DEF ConnInv
      <4>6. Len(queues') + Cardinality(At("dial")') <= Cardinality(Senders)
        BY <1>0, <3>1, <4>1, <4>2, <4>3, <4>4, <4>5
      <4>7. \A h \in At("register")' : conn'[h] > 0
        BY <2>2, <3>1, <3>2 DEF At, ConnInv
      <4> QED
        BY <2>2, <3>1, <3>2, <3>3, <4>1, <4>5, <4>6, <4>7 DEF ConnInv
    <3>4. CASE node # 0
      <4>1. At("dial")' = D
        BY <2>2, <3>1, <3>4 DEF At, ConnInv
      <4>2. \A h \in At("register")' : conn'[h] > 0
        BY <2>2, <3>1, <3>2 DEF At, ConnInv
      <4> QED
        BY <2>2, <3>1, <3>4, <4>1, <4>2 DEF ConnInv
    <3> QED
      BY <3>3, <3>4
  <2> QED
    BY <1>1, <2>1, <2>2 DEF Call
<1>2. ASSUME NEW g \in Senders, Dial(g) PROVE ConnInv'
  <2>1. /\ pc[g] = "dial" /\ pc' = [pc EXCEPT ![g] = "register"] /\ node' = node
        /\ queues' = Append(queues, << >>) /\ conn' = [conn EXCEPT ![g] = Len(queues')]
    BY <1>2 DEF Dial
  <2>2. queues' \in Seq(Seq(Msgs)) /\ Len(queues') = Len(queues) + 1
    BY SMTT(20), <2>1, AppendProperties, EmptySeq DEF ConnInv
  <2>3. At("dial")' = D \ {g} /\ At("register")' = R \cup {g} /\ At("send")' = At("send")
    BY <2>1 DEF At, ConnInv
  <2>4. g \in D /\ g \notin R
    BY <2>1 DEF At
  <2>5. Cardinality(At("dial")') = Cardinality(D) - 1 /\ Cardinality(At("register")') = Cardinality(R) + 1
    BY <1>0, <2>3, <2>4, AddedTo, RemovedFrom
  <2>6. \A h \in At("register")' : conn'[h] > 0
    BY SMTT(20), <1>0, <2>1, <2>2, <2>3 DEF At, ConnInv
  <2>7. pc' \in [Senders -> {"idle", "dial", "register", "send"}] /\ conn' \in [Senders -> Nat]
    BY SMTT(20), <1>0, <2>1, <2>2 DEF ConnInv
  <2>8. Len(queues') + Cardinality(At("dial")') <= Cardinality(Senders)
    BY SMTT(20), <1>0, <2>2, <2>5 DEF ConnInv
  <2>9. node' = 0 => At("send")' = {} /\ Len(queues') = Cardinality(At("register")')
    BY <1>0, <2>1, <2>2, <2>3, <2>5 DEF ConnInv
  <2> QED
    BY <2>1, <2>2, <2>6, <2>7, <2>8, <2>9 DEF ConnInv
<1>3. ASSUME NEW g \in Senders, Register(g) PROVE ConnInv'
  <2>1. /\ pc[g] = "register" /\ pc' = [pc EXCEPT ![g] = "send"] /\ node' = conn[g]
        /\ UNCHANGED <<queues, conn>>
    BY <1>3 DEF Register
  <2>2. At("dial")' = D /\ At("register")' \subseteq R /\ g \in R
    BY <2>1 DEF At, ConnInv
  <2> QED
    BY SMTT(20), <2>1, <2>2 DEF ConnInv
<1>4. ASSUME NEW g \in Senders, Put(g) PROVE ConnInv'
  <2>1. pc[g] = "send" /\ pc' = [pc EXCEPT ![g] = "idle"] /\ UNCHANGED <<node, conn>>
    BY <1>4 DEF Put
  <2>2. queues' \in Seq(Seq(Msgs)) /\ Len(queues') = Len(queues)
    <3>1. CASE queues' = queues
      BY <3>1 DEF ConnInv
    <3>2. CASE Enqueue(conn[g], Msg(g))
      <4>1. conn[g] \in DOMAIN queues => Append(queues[conn[g]], Msg(g)) \in Seq(Msgs)
        BY SMTT(20), AppendProperties DEF ConnInv, Msg, Msgs
      <4> QED
        BY <3>2, <4>1, SameQueues DEF Enqueue, ConnInv
    <3> QED
      BY <1>4, <3>1, <3>2 DEF Put
  <2>3. At("dial")' = D /\ At("register")' = R
    BY <2>1 DEF At, ConnInv
  <2>4. node # 0
    BY <2>1 DEF At, ConnInv
  <2> QED
    BY <2>1, <2>2, <2>3, <2>4 DEF ConnInv, At
<1>5. CASE DelayOver
  <2>1. PICK d \in delayed : Enqueue(d[1], d[2])
    BY <1>5 DEF DelayOver
  <2>2. queues' \in Seq(Seq(Msgs)) /\ Len(queues') = Len(queues)
    <3>1. d[1] \in DOMAIN queues => Append(queues[d[1]], d[2]) \in Seq(Msgs)
      BY SMTT(20), AppendProperties DEF ConnInv
    <3> QED
      BY <2>1, <3>1, SameQueues DEF Enqueue, ConnInv
  <2> QED
    BY <1>5, <2>2, ConnFrame DEF DelayOver
<1>6. CASE Deliver1
  <2>1. PICK c \in DOMAIN queues : Deliver(c)
    BY <1>6 DEF Deliver1
  <2>2. Tail(queues[c]) \in Seq(Msgs)
    BY SMTT(20), <2>1, HeadTailProperties DEF Deliver, ConnInv
  <2>3. queues' \in Seq(Seq(Msgs)) /\ Len(queues') = Len(queues)
    BY <2>1, <2>2, SameQueues DEF Deliver, ConnInv
  <2> QED
    BY <2>1, <2>3, ConnFrame DEF Deliver
<1>7. CASE UNCHANGED net
  BY <1>7, ConnFrame DEF net, ConnInv
<1>8. ASSUME Expire \/ Tick \/ UNCHANGED vars \/ \E f \in Faults, t \in Durations : Inject(f, t)
      PROVE  UNCHANGED net
  BY <1>8 DEF Expire, Tick, Inject, vars
<1> QED
  BY <1>1, <1>2, <1>3, <1>4, <1>5, <1>6, <1>7, <1>8 DEF Next, Send

-----------------------------------------------------------------------------
(* Messages *)

(* Send has returned for message m, so it will not be queued again. *)
Returned(m) ==
  m[2] <= sent[m[1]] /\ (pc[m[1]] # "idle" => m[2] < sent[m[1]])

Queued(m)  == \E c \in DOMAIN queues : \E i \in DOMAIN queues[c] : queues[c][i] = m
Delayed(m) == \E d \in delayed : d[2] = m
Arrived(m) == \E i \in DOMAIN received : received[i] = m

QueuedOnce ==
  \A c, e \in DOMAIN queues : \A i \in DOMAIN queues[c], j \in DOMAIN queues[e] :
    queues[c][i] = queues[e][j] => c = e /\ i = j
DelayedOnce == \A d, e \in delayed : d[2] = e[2] => d = e

(* A message is in one place only. *)
Apart ==
  \A m \in Msgs :
    /\ Queued(m) \/ Delayed(m) \/ Arrived(m) \/ m \in lost => Returned(m)
    /\ Queued(m) => ~Delayed(m) /\ ~Arrived(m) /\ m \notin lost
    /\ Delayed(m) => ~Arrived(m) /\ m \notin lost
    /\ Arrived(m) => m \notin lost

MsgTypes ==
  /\ sent \in [Senders -> Nat] /\ delayed \subseteq Nat \X Msgs
  /\ received \in Seq(Msgs) /\ lost \subseteq Msgs

OnceInv == MsgTypes /\ Apart /\ QueuedOnce /\ DelayedOnce /\ IsInjective(received)

SocketInv == ConnInv /\ OnceInv

(* What is in the queues after an insertion, ... *)
LEMMA Enqueued ==
  ASSUME queues \in Seq(Seq(Msgs)), QueuedOnce, NEW c, NEW m \in Msgs, ~Queued(m), Enqueue(c, m)
  PROVE  QueuedOnce' /\ \A x \in Msgs : Queued(x)' => Queued(x) \/ x = m
<1>1. DOMAIN queues' = DOMAIN queues
  BY DEF Enqueue
<1>2. \A e \in DOMAIN queues : e # c => queues'[e] = queues[e]
  BY DEF Enqueue
<1>3. c \in DOMAIN queues =>
        /\ queues'[c] = Append(queues[c], m) /\ queues[c] \in Seq(Msgs)
        /\ Len(queues[c]) \in Nat
  BY SMTT(20), LenProperties DEF Enqueue
<1>4. ASSUME c \in DOMAIN queues
      PROVE  /\ DOMAIN queues[c] = 1 .. Len(queues[c])
             /\ DOMAIN queues'[c] = 1 .. Len(queues[c]) + 1
             /\ queues'[c][Len(queues[c]) + 1] = m
             /\ \A i \in 1 .. Len(queues[c]) : queues'[c][i] = queues[c][i]
  BY SMTT(20), <1>3, <1>4, AppendProperties, LenProperties
<1>5. \A e \in DOMAIN queues : \A i \in DOMAIN queues'[e] :
        \/ i \in DOMAIN queues[e] /\ queues'[e][i] = queues[e][i]
        \/ e = c /\ i = Len(queues[c]) + 1 /\ queues'[e][i] = m
  <2> SUFFICES ASSUME NEW e \in DOMAIN queues, NEW i \in DOMAIN queues'[e]
               PROVE  \/ i \in DOMAIN queues[e] /\ queues'[e][i] = queues[e][i]
                      \/ e = c /\ i = Len(queues[c]) + 1 /\ queues'[e][i] = m
    OBVIOUS
  <2>1. CASE e = c
    BY SMTT(20), <1>3, <1>4, <2>1
  <2>2. CASE e # c
    BY <1>2, <2>2
  <2> QED
    BY <2>1, <2>2
<1>6. \A e \in DOMAIN queues : \A i \in DOMAIN queues[e] : queues[e][i] # m
  BY DEF Queued
<1>7. QueuedOnce'
  BY SMTT(20), <1>1, <1>5, <1>6 DEF QueuedOnce
<1>8. \A x \in Msgs : Queued(x)' => Queued(x) \/ x = m
  BY <1>1, <1>5 DEF Queued
<1> QED
  BY <1>7, <1>8

(* ... after a delivery ... *)
LEMMA Dequeued ==
  ASSUME queues \in Seq(Seq(Msgs)), QueuedOnce, NEW c \in DOMAIN queues, queues[c] # << >>,
         queues' = [queues EXCEPT ![c] = Tail(@)]
  PROVE  /\ Head(queues[c]) \in Msgs /\ Queued(Head(queues[c]))
         /\ QueuedOnce'
         /\ \A x \in Msgs : Queued(x)' => Queued(x) /\ x # Head(queues[c])
<1>1. queues[c] \in Seq(Msgs) /\ Len(queues[c]) \in Nat /\ DOMAIN queues[c] = 1 .. Len(queues[c])
  BY SMTT(20), LenProperties
<1>2. Len(queues[c]) > 0 /\ Head(queues[c]) = queues[c][1]
  BY SMTT(20), <1>1, EmptySeq
<1>3. DOMAIN queues' = DOMAIN queues /\ queues'[c] = Tail(queues[c])
  OBVIOUS
<1>4. \A e \in DOMAIN queues : e # c => queues'[e] = queues[e]
  OBVIOUS
<1>5. /\ DOMAIN Tail(queues[c]) = 1 .. Len(queues[c]) - 1
      /\ \A i \in 1 .. Len(queues[c]) - 1 : Tail(queues[c])[i] = queues[c][i + 1]
  BY SMTT(20), <1>1, <1>2, HeadTailProperties, LenProperties
<1>6. Head(queues[c]) \in Msgs /\ Queued(Head(queues[c]))
  BY SMTT(20), <1>1, <1>2, ElementOfSeq DEF Queued
<1>7. \A i \in DOMAIN queues'[c] :
        i + 1 \in DOMAIN queues[c] /\ i + 1 # 1 /\ queues'[c][i] = queues[c][i + 1] /\ i \in Nat
  BY SMTT(20), <1>1, <1>3, <1>5
<1>8. QueuedOnce'
  <2> SUFFICES ASSUME NEW d \in DOMAIN queues, NEW e \in DOMAIN queues,
                      NEW i \in DOMAIN queues'[d], NEW j \in DOMAIN queues'[e],
                      queues'[d][i] = queues'[e][j]
               PROVE  d = e /\ i = j
    BY <1>3 DEF QueuedOnce
  <2>1. CASE d = c /\ e = c
    <3>1. i + 1 = j + 1
      BY SMTT(20), <1>7, <2>1 DEF QueuedOnce
    <3> QED
      BY SMTT(20), <1>7, <2>1, <3>1
  <2>2. CASE d = c /\ e # c
    BY SMTT(20), <1>4, <1>7, <2>2 DEF QueuedOnce
  <2>3. CASE d # c /\ e = c
    BY SMTT(20), <1>4, <1>7, <2>3 DEF QueuedOnce
  <2>4. CASE d # c /\ e # c
    BY SMTT(20), <1>4, <2>4 DEF QueuedOnce
  <2> QED
    BY <2>1, <2>2, <2>3, <2>4
<1>9. ASSUME NEW x \in Msgs, Queued(x)' PROVE Queued(x) /\ x # Head(queues[c])
  <2>1. PICK e \in DOMAIN queues : \E i \in DOMAIN queues'[e] : queues'[e][i] = x
    BY <1>3, <1>9 DEF Queued
  <2>2. PICK i \in DOMAIN queues'[e] : queues'[e][i] = x
    BY <2>1
  <2>3. 1 \in DOMAIN queues[c]
    BY SMTT(20), <1>1, <1>2
  <2>4. CASE e = c
    BY SMTT(20), <1>2, <1>7, <2>2, <2>3, <2>4 DEF QueuedOnce, Queued
  <2>5. CASE e # c
    BY SMTT(20), <1>2, <1>4, <2>2, <2>3, <2>5 DEF QueuedOnce, Queued
  <2> QED
    BY <2>4, <2>5
<1> QED
  BY <1>6, <1>8, <1>9

(* ... and after a connection was dialled. *)
LEMMA DialledEmpty ==
  ASSUME queues \in Seq(Seq(Msgs)), QueuedOnce, queues' = Append(queues, << >>)
  PROVE  QueuedOnce' /\ \A x \in Msgs : Queued(x)' => Queued(x)
<1>1. Len(queues) \in Nat /\ DOMAIN queues = 1 .. Len(queues)
  BY LenProperties
<1>2. << >> \in Seq(Msgs)
  BY EmptySeq
<1>3. /\ DOMAIN queues' = 1 .. Len(queues) + 1
      /\ queues'[Len(queues) + 1] = << >>
      /\ \A c \in 1 .. Len(queues) : queues'[c] = queues[c]
  BY SMTT(20), <1>1, <1>2, AppendProperties, LenProperties
<1>4. DOMAIN << >> = {}
  BY SMTT(20)
<1>5. \A c \in DOMAIN queues' : \A i \in DOMAIN queues'[c] : c \in DOMAIN queues /\ queues'[c] = queues[c]
  BY SMTT(20), <1>1, <1>3, <1>4
<1> QED
  BY SMTT(20), <1>5 DEF QueuedOnce, Queued

(* Delivered messages are those delivered before and the new one. *)
LEMMA ReceivedMore ==
  ASSUME received \in Seq(Msgs), IsInjective(received), NEW m \in Msgs, ~Arrived(m),
         received' = Append(received, m)
  PROVE  /\ received' \in Seq(Msgs) /\ IsInjective(received')
         /\ \A x \in Msgs : Arrived(x)' => Arrived(x) \/ x = m
<1>1. Len(received) \in Nat /\ DOMAIN received = 1 .. Len(received)
  BY LenProperties
<1>2. /\ received' \in Seq(Msgs) /\ DOMAIN received' = 1 .. Len(received) + 1
      /\ received'[Len(received) + 1] = m
      /\ \A i \in 1 .. Len(received) : received'[i] = received[i]
  BY SMTT(20), <1>1, AppendProperties, LenProperties
<1>3. \A i \in DOMAIN received' :
        \/ i \in DOMAIN received /\ received'[i] = received[i]
        \/ i = Len(received) + 1 /\ received'[i] = m
  BY SMTT(20), <1>1, <1>2
<1>4. \A i \in DOMAIN received : received[i] # m
  BY DEF Arrived
<1>5. IsInjective(received')
  BY SMTT(20), <1>3, <1>4 DEF IsInjective
<1> QED
  BY <1>2, <1>3, <1>5 DEF Arrived

(* No step takes back that Send has returned. *)
LEMMA ReturnedStays ==
  ASSUME MsgTypes, ConnInv, [Next]_vars, NEW m \in Msgs, Returned(m)
  PROVE  Returned(m)'
<1>0. m[1] \in Senders /\ m[2] \in Nat /\ sent[m[1]] \in Nat
  BY DEF Msgs, MsgTypes
<1>1. CASE UNCHANGED <<pc, sent>>
  BY <1>1 DEF Returned
<1>2. ASSUME NEW g \in Senders, Call(g) PROVE Returned(m)'
  <2>1. pc[g] = "idle" /\ sent' = [sent EXCEPT ![g] = @ + 1]
    BY <1>2 DEF Call
  <2>2. m[1] # g => pc'[m[1]] = pc[m[1]]
    BY <1>0, <1>2 DEF Call, ConnInv
  <2> QED
    BY SMTT(20), <1>0, <2>1, <2>2 DEF Returned, MsgTypes
<1>3. ASSUME NEW g \in Senders, Send(g) PROVE Returned(m)'
  <2>1. sent' = sent /\ pc[g] # "idle" /\ \A h \in Senders \ {g} : pc'[h] = pc[h]
    BY <1>3 DEF Send, Dial, Register, Put, ConnInv
  <2> QED
    BY <1>0, <2>1 DEF Returned
<1>4. ASSUME DelayOver \/ Deliver1 \/ Expire \/ Tick \/ UNCHANGED vars
                \/ \E f \in Faults, t \in Durations : Inject(f, t)
      PROVE  UNCHANGED <<pc, sent>>
  BY <1>4 DEF DelayOver, Deliver1, Deliver, Expire, Tick, Inject, vars, net
<1> QED
  BY <1>1, <1>2, <1>3, <1>4 DEF Next

(* A message that leaves Send in this step was nowhere before it. *)
LEMMA NewIsNowhere ==
  ASSUME Apart, NEW m \in Msgs, ~Returned(m)
  PROVE  ~Queued(m) /\ ~Delayed(m) /\ ~Arrived(m) /\ m \notin lost
  BY DEF Apart

(* Every step leaves each message in one place. *)
LEMMA OnceStep == ASSUME SocketInv, [Next]_vars PROVE OnceInv'
<1>0. /\ ConnInv /\ MsgTypes /\ Apart /\ QueuedOnce /\ DelayedOnce /\ IsInjective(received)
      /\ queues \in Seq(Seq(Msgs))
  BY DEF SocketInv, OnceInv, ConnInv
<1>1. \A m \in Msgs : Returned(m) => Returned(m)'
  BY <1>0, ReturnedStays
<1>2. ASSUME UNCHANGED <<sent, delayed, received, lost>>, QueuedOnce',
             \A x \in Msgs : Queued(x)' => Queued(x)
      PROVE  OnceInv'
  <2>1. MsgTypes' /\ DelayedOnce' /\ IsInjective(received')
    BY <1>0, <1>2 DEF MsgTypes, DelayedOnce
  <2>2. \A x \in Msgs : (Delayed(x)' <=> Delayed(x)) /\ (Arrived(x)' <=> Arrived(x))
    BY <1>2 DEF Delayed, Arrived
  <2>3. Apart'
    BY <1>0, <1>1, <1>2, <2>2 DEF Apart
  <2> QED
    BY <1>2, <2>1, <2>3 DEF OnceInv
<1>3. ASSUME UNCHANGED queues
      PROVE  QueuedOnce' /\ \A x \in Msgs : Queued(x)' <=> Queued(x)
  BY SMTT(20), <1>0, <1>3 DEF QueuedOnce, Queued
<1>4. ASSUME NEW g \in Senders, Call(g) PROVE OnceInv'
  <2>1. sent' \in [Senders -> Nat] /\ UNCHANGED <<queues, delayed, received>>
    BY SMTT(20), <1>0, <1>4 DEF Call, MsgTypes
  <2>2. \A x \in Msgs : (Delayed(x)' <=> Delayed(x)) /\ (Arrived(x)' <=> Arrived(x))
    BY <2>1 DEF Delayed, Arrived
  <2>3. DelayedOnce' /\ IsInjective(received')
    BY <1>0, <2>1 DEF DelayedOnce
  <2>4. CASE lost' = lost
    <3>1. Apart' /\ MsgTypes'
      BY <1>0, <1>1, <1>3, <2>1, <2>2, <2>4 DEF Apart, MsgTypes
    <3> QED
      BY <1>3, <2>1, <2>3, <3>1 DEF OnceInv
  <2>5. CASE lost' = lost \cup {<<g, sent[g] + 1>>} /\ pc' = pc
    <3>0. <<g, sent[g] + 1>> \in Msgs /\ sent[g] \in Nat
      BY SMTT(20), <1>0 DEF MsgTypes, Msgs
    <3>m. PICK m \in Msgs : m = <<g, sent[g] + 1>>
      BY <3>0
    <3>1. m \in Msgs /\ m[1] = g /\ m[2] = sent[g] + 1 /\ sent[g] \in Nat
      BY <3>0, <3>m
    <3>2. ~Returned(m)
      BY SMTT(20), <3>1 DEF Returned
    <3>3. Returned(m)'
      BY SMTT(20), <1>0, <1>4, <2>5, <3>1 DEF Returned, Call, MsgTypes
    <3>4. lost' = lost \cup {m}
      BY <2>5, <3>m
    <3>5. ~Queued(m) /\ ~Delayed(m) /\ ~Arrived(m)
      BY <1>0, <3>1, <3>2, NewIsNowhere
    <3>6. Apart' /\ MsgTypes'
      BY <1>0, <1>1, <1>3, <2>1, <2>2, <3>1, <3>3, <3>4, <3>5 DEF Apart, MsgTypes
    <3> QED
      BY <1>3, <2>1, <2>3, <3>6 DEF OnceInv
  <2> QED
    BY <1>4, <2>4, <2>5 DEF Call
<1>5. ASSUME NEW g \in Senders, Dial(g) PROVE OnceInv'
  BY <1>0, <1>2, <1>5, DialledEmpty DEF Dial
<1>6. ASSUME NEW g \in Senders, Register(g) PROVE OnceInv'
  BY <1>2, <1>3, <1>6 DEF Register
<1>7. ASSUME NEW g \in Senders, Put(g) PROVE OnceInv'
  <2>0. Msg(g) \in Msgs /\ sent[g] \in Nat
    BY <1>0 DEF MsgTypes, Msgs, Msg
  <2>m. PICK m \in Msgs : m = Msg(g)
    BY <2>0
  <2>1. m \in Msgs /\ m[1] = g /\ m[2] = sent[g] /\ sent[g] \in Nat
    BY <2>0, <2>m DEF Msg
  <2>2. ~Returned(m)
    BY SMTT(20), <1>7, <2>1 DEF Returned, Put
  <2>3. Returned(m)'
    BY SMTT(20), <1>0, <1>7, <2>1 DEF Returned, Put, ConnInv
  <2>4. conn[g] \in Nat /\ UNCHANGED <<sent, received, lost>>
    BY <1>0, <1>7 DEF Put, ConnInv
  <2>5. \/ delayed' = delayed \cup {<<conn[g], m>>} /\ UNCHANGED queues
        \/ Enqueue(conn[g], m) /\ UNCHANGED delayed
    BY <1>7, <2>m DEF Put
  <2>6. ~Queued(m) /\ ~Delayed(m) /\ ~Arrived(m) /\ m \notin lost
    BY <1>0, <2>1, <2>2, NewIsNowhere
  <2>7. IsInjective(received') /\ \A x \in Msgs : Arrived(x)' <=> Arrived(x)
    BY <1>0, <2>4 DEF Arrived
  <2>8. CASE delayed' = delayed \cup {<<conn[g], m>>} /\ UNCHANGED queues
    <3>1. DelayedOnce' /\ \A x \in Msgs : Delayed(x)' => Delayed(x) \/ x = m
      BY SMTT(20), <2>6, <2>8, <1>0 DEF Delayed, DelayedOnce
    <3>2. MsgTypes'
      BY SMTT(20), <1>0, <2>1, <2>4, <2>8 DEF MsgTypes
    <3>3. Apart'
      BY <1>0, <1>1, <1>3, <2>1, <2>3, <2>4, <2>6, <2>7, <2>8, <3>1 DEF Apart
    <3> QED
      BY <1>3, <2>7, <2>8, <3>1, <3>2, <3>3 DEF OnceInv
  <2>9. CASE Enqueue(conn[g], m) /\ UNCHANGED delayed
    <3>1. QueuedOnce' /\ \A x \in Msgs : Queued(x)' => Queued(x) \/ x = m
      BY <1>0, <2>1, <2>6, <2>9, Enqueued
    <3>2. DelayedOnce' /\ \A x \in Msgs : Delayed(x)' <=> Delayed(x)
      BY <1>0, <2>9 DEF Delayed, DelayedOnce
    <3>3. MsgTypes'
      BY <1>0, <2>4, <2>9 DEF MsgTypes
    <3>4. Apart'
      BY <1>0, <1>1, <2>1, <2>3, <2>4, <2>6, <2>7, <3>1, <3>2 DEF Apart
    <3> QED
      BY <2>7, <3>1, <3>2, <3>3, <3>4 DEF OnceInv
  <2> QED
    BY <2>5, <2>8, <2>9
<1>8. CASE DelayOver
  <2>1. PICK d \in delayed : Enqueue(d[1], d[2]) /\ delayed' = delayed \ {d}
    BY <1>8 DEF DelayOver
  <2>2. UNCHANGED <<pc, sent, received, lost>>
    BY <1>8 DEF DelayOver
  <2>3. d[2] \in Msgs /\ Delayed(d[2])
    BY <1>0 DEF MsgTypes, Delayed
  <2>4. ~Queued(d[2]) /\ ~Arrived(d[2]) /\ d[2] \notin lost /\ Returned(d[2])
    BY <1>0, <2>3 DEF Apart
  <2>5. QueuedOnce' /\ \A x \in Msgs : Queued(x)' => Queued(x) \/ x = d[2]
    BY <1>0, <2>1, <2>3, <2>4, Enqueued
  <2>6. DelayedOnce' /\ \A x \in Msgs : Delayed(x)' => Delayed(x) /\ x # d[2]
    BY <1>0, <2>1 DEF Delayed, DelayedOnce
  <2>7. IsInjective(received') /\ \A x \in Msgs : Arrived(x)' <=> Arrived(x)
    BY <1>0, <2>2 DEF Arrived
  <2>8. MsgTypes'
    BY <1>0, <2>1, <2>2 DEF MsgTypes
  <2>9. Apart'
    BY <1>0, <1>1, <2>2, <2>3, <2>4, <2>5, <2>6, <2>7 DEF Apart
  <2> QED
    BY <2>5, <2>6, <2>7, <2>8, <2>9 DEF OnceInv
<1>9. CASE Deliver1
  <2>1. PICK c \in DOMAIN queues : Deliver(c)
    BY <1>9 DEF Deliver1
  <2> DEFINE m == Head(queues[c])
  <2>2. /\ queues[c] # << >> /\ queues' = [queues EXCEPT ![c] = Tail(@)]
        /\ UNCHANGED <<sent, delayed>>
        /\ \/ lost' = lost \cup {m} /\ UNCHANGED received
           \/ received' = Append(received, m) /\ UNCHANGED lost
    BY <2>1 DEF Deliver, Recv
  <2>3. /\ m \in Msgs /\ Queued(m) /\ QueuedOnce'
        /\ \A x \in Msgs : Queued(x)' => Queued(x) /\ x # m
    BY <1>0, <2>2, Dequeued
  <2> HIDE DEF m
  <2>4. ~Delayed(m) /\ ~Arrived(m) /\ m \notin lost /\ Returned(m)
    BY <1>0, <2>3 DEF Apart
  <2>5. DelayedOnce' /\ \A x \in Msgs : Delayed(x)' <=> Delayed(x)
    BY <1>0, <2>2 DEF Delayed, DelayedOnce
  <2>6. CASE lost' = lost \cup {m} /\ UNCHANGED received
    <3>1. IsInjective(received') /\ \A x \in Msgs : Arrived(x)' <=> Arrived(x)
      BY <1>0, <2>6 DEF Arrived
    <3>2. MsgTypes'
      BY <1>0, <2>2, <2>3, <2>6 DEF MsgTypes
    <3>3. Apart'
      BY <1>0, <1>1, <2>3, <2>4, <2>5, <2>6, <3>1 DEF Apart
    <3> QED
      BY <2>3, <2>5, <3>1, <3>2, <3>3 DEF OnceInv
  <2>7. CASE received' = Append(received, m) /\ UNCHANGED lost
    <3>1. /\ received' \in Seq(Msgs) /\ IsInjective(received')
          /\ \A x \in Msgs : Arrived(x)' => Arrived(x) \/ x = m
      BY <1>0, <2>3, <2>4, <2>7, ReceivedMore DEF MsgTypes
    <3>2. MsgTypes'
      BY <1>0, <2>2, <2>7, <3>1 DEF MsgTypes
    <3>3. Apart'
      BY <1>0, <1>1, <2>3, <2>4, <2>5, <2>7, <3>1 DEF Apart
    <3> QED
      BY <2>3, <2>5, <3>1, <3>2, <3>3 DEF OnceInv
  <2> QED
    BY <2>2, <2>6, <2>7
<1>10. CASE UNCHANGED net
  BY <1>2, <1>3, <1>10 DEF net
<1>11. ASSUME Expire \/ Tick \/ UNCHANGED vars \/ \E f \in Faults, t \in Durations : Inject(f, t)
       PROVE  UNCHANGED net
  BY <1>11 DEF Expire, Tick, Inject, vars
<1> QED
  BY <1>4, <1>5, <1>6, <1>7, <1>8, <1>9, <1>10, <1>11 DEF Next, Send

(* The socket starts with no connection and no message, ... *)
LEMMA SocketStart == Init => SocketInv
<1> SUFFICES ASSUME Init PROVE SocketInv
  OBVIOUS
<1>1. At("send") = {} /\ At("register") = {} /\ At("dial") = {}
  BY DEF Init, At
<1>2. Cardinality({}) = 0 /\ Cardinality(Senders) \in Nat /\ Len(queues) = 0
  BY SocketAssumption, FS_EmptySet, FS_CardinalityType DEF Init
<1>3. ConnInv
  <2>1. /\ pc \in [Senders -> {"idle", "dial", "register", "send"}]
        /\ queues \in Seq(Seq(Msgs)) /\ node \in Nat /\ conn \in [Senders -> Nat]
    BY EmptySeq DEF Init
  <2>2. Len(queues) + Cardinality(At("dial")) <= Cardinality(Senders)
    <3>1. Cardinality(At("dial")) = 0 /\ Len(queues) = 0
      BY <1>1, <1>2
    <3> QED
      BY SMTT(20), <1>2, <3>1
  <2>3. Len(queues) = Cardinality(At("register")) /\ \A g \in At("register") : conn[g] > 0
    BY <1>1, <1>2
  <2> QED
    BY <1>1, <2>1, <2>2, <2>3 DEF ConnInv
<1>4. OnceInv
  BY SMTT(20), EmptySeq
  DEF Init, OnceInv, MsgTypes, Apart, QueuedOnce, DelayedOnce, IsInjective, Queued, Delayed, Arrived
<1> QED
  BY <1>3, <1>4 DEF SocketInv

(* ... and all of the above is kept. *)
LEMMA SocketStep == SocketInv /\ [Next]_vars => SocketInv'
  BY ConnStep, OnceStep DEF SocketInv, OnceInv, MsgTypes

(* However many goroutines find no transport to a node and dial at the     *)
(* same time, each of them leaves at most one connection behind.           *)
THEOREM OneConnectionEach == Spec => []ConnectionsBounded
<1>1. SocketInv => ConnectionsBounded
  <2> SUFFICES ASSUME SocketInv PROVE ConnectionsBounded
    OBVIOUS
  <2>1. Cardinality(At("dial")) \in Nat /\ Cardinality(Senders) \in Nat
    BY AtFacts DEF At
  <2>2. Len(queues) \in Nat
    BY LenProperties DEF SocketInv, ConnInv
  <2> QED
    BY SMTT(20), <2>1, <2>2 DEF SocketInv, ConnInv, ConnectionsBounded
<1> QED
  BY <1>1, SocketStart, SocketStep, PTL DEF Spec

(* No message is received twice, or received after it was discarded,       *)
(* whatever connections, delays and faults it meets.                       *)
THEOREM ReceivedAtMostOnce == Spec => []AtMostOnce
<1>1. SocketInv => AtMostOnce
  <2> SUFFICES ASSUME SocketInv PROVE AtMostOnce
    OBVIOUS
  <2>1. ASSUME NEW x \in Range(received) PROVE x \notin lost
    <3>1. Arrived(x)
      BY DEF Range, Arrived
    <3>2. x \in Msgs
      BY RangeOfSeq DEF SocketInv, OnceInv, MsgTypes
    <3> QED
      BY <3>1, <3>2 DEF SocketInv, OnceInv, Apart
  <2> QED
    BY <2>1 DEF SocketInv, OnceInv, AtMostOnce
<1> QED
  BY <1>1, SocketStart, SocketStep, PTL DEF Spec
=============================================================================
