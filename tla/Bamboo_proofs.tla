--------------------------- MODULE Bamboo_proofs ---------------------------
(***************************************************************************)
(* Replicas that run one of the three HotStuff protocols, for every number *)
(* of replicas, every leader election and every order, loss and delay of   *)
(* messages: types, one block per view, certified QCs, backed commits,     *)
(* locks that cover the commits.                                           *)
(*                                                                         *)
(* Handlers_proofs shows what one handler keeps of one replica; here are   *)
(* the events that run handlers, what they keep of all replicas and of     *)
(* the messages between them (Inv), and the induction on the depth of the  *)
(* calls by which handlers that call each other are covered.               *)
(***************************************************************************)
EXTENDS Handlers_proofs

(* Zenon proves a step that names no prover; SMTT(20) sends one to the SMT solver. *)
USE ZenonT(20)

-----------------------------------------------------------------------------
(* Events *)

(* What the replica is about to send is replaced. *)
LEMMA OutGood ==
  ASSUME NEW k, NEW r \in Replicas, NEW d, NEW s, Good(conf, k, r, d, s),
         NEW out \in SUBSET Message, \A m \in out : MsgOk(conf, Now(k, r, s), m)
  PROVE  Good(conf, k, r, d, [s EXCEPT !.out = out])
<1> DEFINE t == [s EXCEPT !.out = out]
<1>1. s \in ReplicaState
  BY DEF Good
<1>2. t \in ReplicaState
  BY <1>1, UpdateType
<1>3. /\ t.out = out
      /\ t.pm = s.pm /\ t.bc = s.bc /\ t.highQC = s.highQC
      /\ t.bufferedQCs = s.bufferedQCs /\ t.bufferedBlocks = s.bufferedBlocks
      /\ t.committed = s.committed /\ t.voted = s.voted /\ t.seen = s.seen
      /\ t.preferredView = s.preferredView
  BY <1>1 DEF ReplicaState
<1> HIDE DEF t
<1>4. Now(k, r, t) = Now(k, r, s)
  BY <1>3 DEF Now
<1>5. QcPart(conf, k, r, t)
  BY <1>3, <1>4 DEF Good, QcPart
<1>6. ViewPart(conf, r, t)
  BY <1>3 DEF Good, ViewPart
<1>7. CommitPart(conf, k, r, d, t)
  BY <1>3, <1>4 DEF Good, CommitPart, Backed
<1>8. LockPart(conf, k, r, t)
  BY <1>1, <1>2, <1>3, LockStays DEF Good
<1>9. Good(conf, k, r, d, t)
  BY <1>2, <1>5, <1>6, <1>7, <1>8 DEF Good
<1> QED BY <1>9 DEF t

(* Votes and locks of other replicas do no harm. *)
LEMMA VotesGrow ==
  ASSUME ConfOK, NEW k, NEW r \in Replicas, NEW d, NEW s, Good(conf, k, r, d, s),
         NEW l, l.votes \in [Replicas -> SUBSET Block], l.locks \in [Replicas -> Nat],
         l.votes[r] \subseteq s.voted, l.locks[r] <= s.preferredView,
         \A q \in Replicas : q # r => k.votes[q] \subseteq l.votes[q],
         conf.algo = "tchs" => \A q \in Replicas : q # r => k.locks[q] <= l.locks[q]
  PROVE  Good(conf, l, r, d, s)
<1>1. /\ s \in ReplicaState /\ k.votes \in [Replicas -> SUBSET Block]
      /\ k.locks \in [Replicas -> Nat]
  BY DEF Good
<1>2. \A q \in Replicas : Now(k, r, s)[q] \subseteq Now(l, r, s)[q]
  BY <1>1 DEF Now
<1>3. \A b : Cert(Now(k, r, s), b) => Cert(Now(l, r, s), b)
  BY <1>2, CertMonotone
<1>4. \A m \in s.out : MsgOk(conf, Now(l, r, s), m)
  BY <1>1, <1>2, MsgMonotone, StateFacts DEF Good, QcPart
<1>5. \A x \in s.bc.votes : x[1] \in Now(l, r, s)[x[2]]
  <2>1. \A x \in s.bc.votes : x[2] \in Replicas
    BY <1>1, StateFacts
  <2>2. \A x \in s.bc.votes : x[1] \in Now(k, r, s)[x[2]]
    BY DEF Good, QcPart
  <2> QED BY <1>2, <2>1, <2>2
<1>6. QcPart(conf, l, r, s)
  BY <1>3, <1>4, <1>5 DEF Good, QcPart
<1>7. CommitPart(conf, l, r, d, s)
  <2>1. \A x : Backed(conf, Now(k, r, s), d, s, x) => Backed(conf, Now(l, r, s), d, s, x)
    BY <1>3 DEF Backed
  <2> QED BY <2>1 DEF Good, CommitPart
<1>8. ASSUME NEW q \in Block, conf.algo = "tchs"
      PROVE  /\ Held(conf, k, r, s, q) => Held(conf, l, r, s, q)
             /\ Sourced(conf, k, r, s, q) => Sourced(conf, l, r, s, q)
  <2> DEFINE h == LeaderOf(conf, View(q) + 1)
  <2>1. View(q) + 1 \in 0 .. MaxView + 3 /\ View(Parent(q)) \in Nat
    BY SMTT(20), BlockFacts, ReplicaAssumption
  <2>2. h \in Replicas
    BY <2>1, LeaderFacts
  <2>3. h # r => k.locks[h] \in Nat /\ l.locks[h] \in Nat /\ k.locks[h] <= l.locks[h]
    BY <1>1, <1>8, <2>2
  <2> HIDE DEF h
  <2>4. Held(conf, k, r, s, q) => Held(conf, l, r, s, q)
    BY SMTT(20), <2>1, <2>3 DEF Held, h
  <2> QED BY <2>4 DEF Sourced
<1>9. LockPart(conf, l, r, s)
  <2>1. LockPart(conf, k, r, s)
    BY DEF Good
  <2>2. /\ s.highQC \in Block /\ s.bufferedQCs \subseteq Block
        /\ \A b \in s.seen : Parent(b) \in Block
    BY <1>1, StateFacts, BlockFacts
  <2> QED BY <1>8, <2>1, <2>2 DEF LockPart
<1> QED BY <1>1, <1>6, <1>7, <1>9 DEF Good

(* Taking an announced view: the views that remain are above it, and it is *)
(* above those of the blocks that the replica has proposed.                *)
LEMMA TakeViewFacts ==
  ASSUME NEW chan \in Seq(Views), chan # << >>, NEW cur \in Views, Rising(chan, cur)
  PROVE  /\ Tail(chan) \in Seq(Views) /\ Head(chan) \in Views /\ 0 < Head(chan)
         /\ Rising(Tail(chan), cur)
         /\ Past(Tail(chan), cur, Head(chan))
         /\ \A w \in Nat : Past(chan, cur, w) => Past(Tail(chan), cur, w) /\ w < Head(chan)
<1>0. Views \subseteq Nat
  BY SMTT(20), ReplicaAssumption DEF Views
<1> DEFINE rest == Tail(chan)
<1>1. /\ Len(chan) \in Nat /\ Len(chan) >= 1 /\ Len(rest) = Len(chan) - 1
      /\ Head(chan) = chan[1]
      /\ \A i \in 1 .. Len(chan) : chan[i] \in Nat /\ chan[i] \in Views
      /\ \A i \in 1 .. Len(rest) : rest[i] = chan[i + 1]
      /\ rest \in Seq(Views)
  <2>1. /\ rest \in Seq(Views) /\ Len(rest) = Len(chan) - 1
        /\ \A i \in 1 .. Len(rest) : rest[i] = chan[i + 1]
        /\ Head(chan) = chan[1]
    BY SMTT(20)
  <2>2. Len(chan) \in Nat /\ \A i \in 1 .. Len(chan) : chan[i] \in Views
    BY SMTT(20)
  <2>3. Len(chan) # 0
    BY SMTT(20)
  <2>4. Len(chan) >= 1
    BY SMTT(20), <2>2, <2>3
  <2>5. \A i \in 1 .. Len(chan) : chan[i] \in Nat
    BY <1>0, <2>2
  <2> HIDE DEF rest
  <2> QED BY <2>1, <2>2, <2>4, <2>5
<1> HIDE DEF rest
<1>2. /\ \A i, j \in 1 .. Len(chan) : i < j => chan[i] < chan[j]
      /\ \A i \in 1 .. Len(chan) : 0 < chan[i] /\ chan[i] <= cur
  BY DEF Rising
<1>3. 1 \in 1 .. Len(chan) /\ \A i \in 1 .. Len(rest) : i + 1 \in 1 .. Len(chan) /\ 1 < i + 1
  BY SMTT(20), <1>1
<1>4. Rising(rest, cur)
  <2>1. \A i, j \in 1 .. Len(rest) : i < j => rest[i] < rest[j]
    <3> SUFFICES ASSUME NEW i \in 1 .. Len(rest), NEW j \in 1 .. Len(rest), i < j
                 PROVE  rest[i] < rest[j]
      OBVIOUS
    <3>1. i + 1 \in 1 .. Len(chan) /\ j + 1 \in 1 .. Len(chan) /\ i + 1 < j + 1
      BY SMTT(20), <1>3
    <3> QED BY <1>1, <1>2, <3>1
  <2>2. \A i \in 1 .. Len(rest) : 0 < rest[i] /\ rest[i] <= cur
    BY <1>1, <1>2, <1>3
  <2> QED BY <2>1, <2>2 DEF Rising
<1>5. Past(rest, cur, Head(chan))
  BY <1>1, <1>2, <1>3 DEF Past
<1>6. \A w \in Nat : Past(chan, cur, w) => Past(rest, cur, w) /\ w < Head(chan)
  BY <1>1, <1>3 DEF Past
<1> QED BY <1>1, <1>2, <1>3, <1>4, <1>5, <1>6 DEF rest

(* t is s with the announced view v taken off the channel. *)
TookView(k, r, d, s, t, v) ==
  /\ Good(conf, k, r, d, t) /\ t.seen = s.seen /\ t.out = s.out
  /\ v \in Views /\ 0 < v
  /\ Past(t.pm.newViewChan, t.pm.curView, v)
  /\ \A b \in t.seen : LeaderOf(conf, View(b)) = r => View(b) < v

(* The event loop takes the announced view off the channel. *)
LEMMA TakeViewStep ==
  ASSUME NEW k, NEW r \in Replicas, NEW d, NEW s, Good(conf, k, r, d, s),
         s.pm.newViewChan # << >>
  PROVE  TookView(k, r, d, s, [s EXCEPT !.pm.newViewChan = Tail(@)],
                  Head(s.pm.newViewChan))
<1> DEFINE p == [s.pm EXCEPT !.newViewChan = Tail(s.pm.newViewChan)]
           t == [s EXCEPT !.pm = p]
           v == Head(s.pm.newViewChan)
<1>1. s \in ReplicaState /\ s.pm.newViewChan \in Seq(Views) /\ s.pm.curView \in Views
  BY StateFacts DEF Good
<1>2. Rising(s.pm.newViewChan, s.pm.curView)
  BY DEF Good, ViewPart
<1>3. /\ Tail(s.pm.newViewChan) \in Seq(Views) /\ v \in Views /\ 0 < v
      /\ Rising(Tail(s.pm.newViewChan), s.pm.curView)
      /\ Past(Tail(s.pm.newViewChan), s.pm.curView, v)
      /\ \A w \in Nat : Past(s.pm.newViewChan, s.pm.curView, w)
           => Past(Tail(s.pm.newViewChan), s.pm.curView, w) /\ w < v
  BY <1>1, <1>2, TakeViewFacts
<1>4. /\ p \in [curView : Views, newViewChan : Seq(Views),
                timeouts : [Views -> SUBSET Replicas],
                viewChanges : [Views -> SUBSET Replicas]]
      /\ p.newViewChan = Tail(s.pm.newViewChan) /\ p.curView = s.pm.curView
  BY <1>1, <1>3, StateFacts
<1>5. [s EXCEPT !.pm.newViewChan = Tail(@)] = t
  OBVIOUS
<1> HIDE DEF p, v
<1>6. t \in ReplicaState
  BY <1>1, <1>4 DEF ReplicaState
<1>7. /\ t.pm = p
      /\ t.out = s.out /\ t.bc = s.bc /\ t.highQC = s.highQC
      /\ t.bufferedQCs = s.bufferedQCs /\ t.bufferedBlocks = s.bufferedBlocks
      /\ t.committed = s.committed /\ t.voted = s.voted /\ t.seen = s.seen
      /\ t.preferredView = s.preferredView
  BY <1>1 DEF ReplicaState
<1> HIDE DEF t
<1>8. Now(k, r, t) = Now(k, r, s)
  BY <1>7 DEF Now
<1>9. QcPart(conf, k, r, t)
  BY <1>7, <1>8 DEF Good, QcPart
<1>10. \A b \in s.seen : View(b) \in Nat
  BY SMTT(20), <1>1, StateFacts, BlockFacts
<1>11. ViewPart(conf, r, t) /\ \A b \in s.seen : LeaderOf(conf, View(b)) = r => View(b) < v
  BY <1>3, <1>4, <1>7, <1>10 DEF Good, ViewPart
<1>12. CommitPart(conf, k, r, d, t)
  BY <1>7, <1>8 DEF Good, CommitPart, Backed
<1>13. LockPart(conf, k, r, t)
  BY <1>1, <1>6, <1>7, LockStays DEF Good
<1>14. Good(conf, k, r, d, t)
  BY <1>6, <1>9, <1>11, <1>12, <1>13 DEF Good
<1>15. TookView(k, r, d, s, t, v)
  BY <1>3, <1>4, <1>7, <1>11, <1>14 DEF TookView
<1> QED BY <1>5, <1>15 DEF v

(* ProcessBlock starts by noting the arrival of the block. *)
LEMMA ArrivalFirst ==
  ASSUME NEW s \in ReplicaState, NEW call, NEW r, NEW b
  PROVE  SafetyBlock(call, r, s, b)
           = SafetyBlock(call, r, [s EXCEPT !.seen = @ \cup {b}], b)
<1>1. [[s EXCEPT !.seen = @ \cup {b}] EXCEPT !.seen = @ \cup {b}]
        = [s EXCEPT !.seen = @ \cup {b}]
  BY DEF ReplicaState
<1> QED BY <1>1 DEF SafetyBlock, HS_ProcessBlock, TC_ProcessBlock, FH_ProcessBlock

-----------------------------------------------------------------------------
(* The inductive invariant *)

Votes == [q \in Replicas |-> rep[q].voted]

(* What an event starts from: the votes and the locks. *)
Known == [votes |-> Votes, locks |-> [q \in Replicas |-> rep[q].preferredView]]

(* Every replica is in a good state; every block there is was proposed by  *)
(* the leader of its view on a certified parent; every message keeps its   *)
(* promise, on the network and in the hand of a handler.                   *)
Inv ==
  /\ TypeOK
  /\ ConfOK
  /\ \A r \in Replicas : Good(conf, Known, r, {}, rep[r])
  /\ \A b \in Blocks :
       /\ b \in rep[Proposer(b)].seen
       /\ b # Genesis /\ Cert(Votes, Parent(b))
  /\ \A m \in net \cup {hand[r] : r \in Replicas} : m # None => MsgOk(conf, Votes, m)
  /\ \A r \in Replicas : hand[r] # None => hand[r].to = r

(* Between events the votes and the locks are those of the states. *)
LEMMA VotesFacts ==
  ASSUME Inv, NEW r \in Replicas
  PROVE  /\ Votes \in [Replicas -> SUBSET Block]
         /\ Now(Known, r, rep[r]) = Votes
         /\ rep[r] \in ReplicaState /\ rep[r].out = {}
         /\ Good(conf, Known, r, {}, rep[r])
         /\ Known.votes = Votes /\ Known.locks[r] = rep[r].preferredView
<1>1. rep[r] \in ReplicaState /\ rep[r].out = {} /\ Good(conf, Known, r, {}, rep[r])
  BY DEF Inv, TypeOK
<1>2. Known.votes = Votes /\ Known.locks[r] = rep[r].preferredView
  BY DEF Known
<1>3. Votes \in [Replicas -> SUBSET Block]
  BY <1>1, <1>2 DEF Good
<1>4. Now(Known, r, rep[r]) = Votes
  BY <1>2, <1>3 DEF Now, Votes
<1> QED BY <1>1, <1>2, <1>3, <1>4

(* What one replica knows to be held, all know. *)
LEMMA HeldByAll ==
  ASSUME Inv, NEW p \in Replicas, NEW r \in Replicas, NEW q,
         Held(conf, Known, p, rep[p], q)
  PROVE  Held(conf, Known, r, rep[r], q)
<1>1. Known.locks[p] = rep[p].preferredView /\ Known.locks[r] = rep[r].preferredView
  BY VotesFacts
<1> QED BY <1>1 DEF Held

(* The proposer of a block is a replica. *)
LEMMA ProposerFacts ==
  ASSUME ConfOK, NEW b \in Block
  PROVE  Proposer(b) \in Replicas /\ Proposer(b) = LeaderOf(conf, View(b))
<1>1. View(b) \in 0 .. MaxView + 3
  BY SMTT(20), BlockFacts, ReplicaAssumption
<1> QED BY <1>1, LeaderFacts DEF Proposer

(* Blocks are blocks. *)
LEMMA BlocksType ==
  ASSUME TypeOK
  PROVE  Blocks \subseteq Block
<1>1. \A r \in Replicas : rep[r].seen \subseteq Block
  BY StateFacts DEF TypeOK
<1>2. \A m \in net : m.type = "block" => m.block \in Block
  BY DEF TypeOK, Message
<1> QED BY <1>1, <1>2 DEF Blocks

(* One block per view follows: both blocks were seen by the leader of the  *)
(* view, who has seen only one.                                            *)
LEMMA OneBlock ==
  ASSUME Inv
  PROVE  OneBlockPerView
<1> SUFFICES ASSUME NEW a \in Blocks, NEW b \in Blocks, View(a) = View(b)
             PROVE  a = b
  BY DEF OneBlockPerView
<1>1. a \in Block /\ b \in Block
  BY BlocksType DEF Inv
<1>2. Proposer(a) = Proposer(b) /\ Proposer(a) \in Replicas
  BY <1>1, ProposerFacts DEF Inv, Proposer
<1> DEFINE p == Proposer(a)
<1>3. a \in rep[p].seen /\ b \in rep[p].seen
  BY <1>2 DEF Inv
<1> HIDE DEF p
<1>4. p \in Replicas
  BY <1>2 DEF p
<1>5. ViewPart(conf, p, rep[p])
  BY <1>4 DEF Inv, Good
<1> QED BY <1>3, <1>5 DEF ViewPart

(* What the event collected is sent. *)
Emptied(t) == [t EXCEPT !.out = {}]

(* The votes and the locks when an event has left replica r in state t. *)
Final(k, r, t) ==
  [votes |-> Now(k, r, t), locks |-> [k.locks EXCEPT ![r] = t.preferredView]]

(* A replica in state t at the end of an event, with nothing left to send, *)
(* and the votes that it has cast and the lock that it has by then.        *)
Over(k, r, t) ==
  LET l == Final(k, r, t)
  IN  /\ Good(conf, l, r, {}, Emptied(t))
      /\ l.votes \in [Replicas -> SUBSET Block] /\ l.locks \in [Replicas -> Nat]
      /\ \A q \in Replicas : k.votes[q] \subseteq l.votes[q]
      /\ \A q \in Replicas : q # r => l.votes[q] = k.votes[q] /\ l.locks[q] = k.locks[q]
      /\ l.votes[r] = t.voted /\ l.locks[r] = t.preferredView
      /\ conf.algo = "tchs" => k.locks[r] <= t.preferredView

(* The end of an event. *)
LEMMA EventOver ==
  ASSUME ConfOK, NEW k, NEW r \in Replicas, NEW t, Good(conf, k, r, {}, t)
  PROVE  Over(k, r, t)
<1> DEFINE l == Final(k, r, t)
<1>0. t \in ReplicaState
  BY DEF Good
<1>1. /\ k.votes \in [Replicas -> SUBSET Block] /\ k.locks \in [Replicas -> Nat]
      /\ t.voted \subseteq Block /\ k.votes[r] \subseteq t.voted
      /\ t.preferredView \in Nat
  BY SMTT(20), <1>0, StateFacts DEF Good, QcPart
<1>2. /\ l.votes \in [Replicas -> SUBSET Block] /\ l.locks \in [Replicas -> Nat]
      /\ \A q \in Replicas : k.votes[q] \subseteq l.votes[q]
      /\ \A q \in Replicas : q # r => l.votes[q] = k.votes[q] /\ l.locks[q] = k.locks[q]
      /\ l.votes[r] = t.voted /\ l.locks[r] = t.preferredView
  BY <1>1 DEF Now, Final
<1>3. conf.algo = "tchs" => k.locks[r] <= t.preferredView
  BY DEF Good, LockPart
<1> HIDE DEF l
<1>4. Good(conf, l, r, {}, t)
  BY SMTT(20), <1>1, <1>2, VotesGrow
<1>5. Good(conf, l, r, {}, Emptied(t))
  BY <1>4, OutGood DEF Emptied
<1> QED BY <1>2, <1>3, <1>5 DEF Over, l

(* An event that leaves replica r in a good state t keeps the invariant,   *)
(* if the blocks that t has seen or sends were there before or are         *)
(* proposed by r.                                                          *)
LEMMA EventStep ==
  ASSUME Inv, NEW r \in Replicas, NEW t, NEW taken,
         Good(conf, Known, r, {}, t), Done(r, t, taken),
         rep[r].seen \subseteq t.seen,
         \A b \in t.seen : b \in Blocks \/ Proposer(b) = r,
         \A m \in t.out : m.type = "block" => m.block \in t.seen,
         hand' \in [Replicas -> Message \cup {None}],
         \A q \in Replicas : hand'[q] \in {hand[q], None}
  PROVE  Inv'
<1> DEFINE e == Emptied(t)
           l == Final(Known, r, t)
<1>1. /\ rep' = [rep EXCEPT ![r] = e]
      /\ net' = (net \ taken) \cup t.out
      /\ conf' = conf
  BY DEF Done, Emptied
<1>2. /\ Good(conf, l, r, {}, e)
      /\ l.votes \in [Replicas -> SUBSET Block] /\ l.locks \in [Replicas -> Nat]
      /\ \A q \in Replicas : Votes[q] \subseteq l.votes[q]
      /\ \A q \in Replicas : q # r => l.votes[q] = Votes[q] /\ l.locks[q] = Known.locks[q]
      /\ l.votes[r] = t.voted /\ l.locks[r] = t.preferredView
      /\ conf.algo = "tchs" => Known.locks[r] <= t.preferredView
  <2>1. Over(Known, r, t)
    BY EventOver DEF Inv
  <2>2. Known.votes = Votes
    BY DEF Known
  <2> QED BY <2>1, <2>2 DEF Over
<1>3. t \in ReplicaState /\ t.out \subseteq Message
  BY StateFacts DEF Good
<1>4. e \in ReplicaState /\ e.out = {} /\ e.seen = t.seen /\ e.voted = t.voted
      /\ e.preferredView = t.preferredView
  BY <1>2, <1>3 DEF Good, ReplicaState, Emptied
<1>5. /\ \A m \in t.out : MsgOk(conf, l.votes, m)
      /\ \A b \in t.seen : b # Genesis /\ Cert(l.votes, Parent(b))
  <2>1. l.votes = Now(Known, r, t)
    BY DEF Final
  <2> QED BY <2>1 DEF Good, QcPart
<1>6. rep \in [Replicas -> {s \in ReplicaState : s.out = {}}] /\ net \subseteq Message
      /\ hand \in [Replicas -> Message \cup {None}]
  BY DEF Inv, TypeOK
<1> HIDE DEF e, l
<1>7. /\ rep' \in [Replicas -> {s \in ReplicaState : s.out = {}}]
      /\ rep'[r] = e /\ \A q \in Replicas : q # r => rep'[q] = rep[q]
  BY <1>1, <1>4, <1>6
<1>8. TypeOK'
  BY <1>1, <1>3, <1>6, <1>7 DEF TypeOK
<1>9. Votes' = l.votes /\ Known' = l
  <2>1. \A q \in Replicas : rep'[q].voted = l.votes[q]
    BY <1>2, <1>4, <1>7 DEF Votes
  <2>2. \A q \in Replicas : rep'[q].preferredView = l.locks[q]
    BY <1>2, <1>4, <1>7 DEF Known
  <2>3. /\ Votes' = [q \in Replicas |-> rep'[q].voted]
        /\ Known' = [votes |-> Votes', locks |-> [q \in Replicas |-> rep'[q].preferredView]]
    BY DEF Votes, Known
  <2>4. Votes' = l.votes /\ [q \in Replicas |-> rep'[q].preferredView] = l.locks
    BY <1>2, <2>1, <2>2, <2>3
  <2>5. l = [votes |-> l.votes, locks |-> l.locks]
    BY DEF l, Final
  <2> QED BY <2>3, <2>4, <2>5
<1>10. ASSUME NEW q \in Replicas PROVE Good(conf, l, q, {}, rep'[q])
  <2>1. CASE q = r
    BY <1>2, <1>7, <2>1
  <2>2. CASE q # r
    <3>1. /\ Good(conf, Known, q, {}, rep[q]) /\ Known.votes = Votes
          /\ Votes[q] = rep[q].voted
          /\ rep[q].preferredView \in Nat
          /\ \A p \in Replicas : Known.locks[p] = rep[p].preferredView
      BY SMTT(20), <1>6, StateFacts DEF Inv, Votes, Known
    <3>2. l.votes[q] \subseteq rep[q].voted /\ l.locks[q] <= rep[q].preferredView
      BY SMTT(20), <1>2, <2>2, <3>1
    <3>3. conf.algo = "tchs" => \A p \in Replicas : Known.locks[p] <= l.locks[p]
      <4>1. \A p \in Replicas : rep[p].preferredView \in Nat
        BY SMTT(20), <1>6, StateFacts
      <4> QED BY SMTT(20), <1>2, <3>1, <4>1
    <3>4. \A p \in Replicas : Known.votes[p] \subseteq l.votes[p]
      BY <1>2, <3>1
    <3>5. /\ ConfOK /\ Good(conf, Known, q, {}, rep[q])
          /\ l.votes \in [Replicas -> SUBSET Block] /\ l.locks \in [Replicas -> Nat]
      BY <1>2, <3>1 DEF Inv
    <3>6. Good(conf, l, q, {}, rep[q])
      BY <3>2, <3>3, <3>4, <3>5, VotesGrow
    <3> QED BY <1>7, <2>2, <3>6
  <2> QED BY <2>1, <2>2
<1>11. \A q \in Replicas : rep[q].seen \subseteq rep'[q].seen
  BY <1>4, <1>7
<1>12. \A b : Cert(Votes, b) => Cert(l.votes, b)
  BY <1>2, CertMonotone
<1>13. Blocks' \subseteq Blocks \cup t.seen
  <2>1. ASSUME NEW q \in Replicas PROVE rep'[q].seen \subseteq Blocks \cup t.seen
    BY <1>4, <1>7 DEF Blocks
  <2>2. ASSUME NEW m \in net', m.type = "block" PROVE m.block \in Blocks \cup t.seen
    BY <1>1, <2>2 DEF Blocks
  <2>3. Blocks' = (UNION {rep'[q].seen : q \in Replicas})
                    \cup {m.block : m \in {n \in net' : n.type = "block"}}
    BY DEF Blocks
  <2> QED BY <2>1, <2>2, <2>3
<1>14. ASSUME NEW b \in Blocks'
       PROVE  /\ b \in rep'[Proposer(b)].seen
              /\ b # Genesis /\ Cert(l.votes, Parent(b))
  <2>1. CASE b \in Blocks
    <3>1. b \in rep[Proposer(b)].seen /\ b # Genesis /\ Cert(Votes, Parent(b))
      BY <2>1 DEF Inv
    <3>2. Proposer(b) \in Replicas
      BY <2>1, BlocksType, ProposerFacts DEF Inv
    <3> QED BY <1>11, <1>12, <3>1, <3>2
  <2>2. CASE b \in t.seen /\ b \notin Blocks
    BY <1>4, <1>5, <1>7, <2>2
  <2> QED BY <1>13, <2>1, <2>2
<1>15. \A b : Proposer(b)' = Proposer(b)
  BY <1>1 DEF Proposer, FindLeaderFor, Static
<1>16. ASSUME NEW m \in net' \cup {hand'[q] : q \in Replicas}, m # None
       PROVE  MsgOk(conf, l.votes, m)
  <2>1. CASE m \in t.out
    BY <1>5, <2>1
  <2>2. CASE m \in net \cup {hand[q] : q \in Replicas}
    <3>1. MsgOk(conf, Votes, m) /\ m \in Message
      BY <1>6, <1>16, <2>2 DEF Inv
    <3> QED BY <1>2, <3>1, MsgMonotone
  <2> QED BY <1>1, <1>16, <2>1, <2>2
<1>17. ConfOK'
  BY <1>1 DEF Inv, ConfOK
<1>18. \A b \in Blocks' : /\ b \in rep'[Proposer(b)'].seen
                          /\ b # Genesis /\ Cert(l.votes, Parent(b))
  BY <1>14, <1>15
<1>19. \A q \in Replicas : hand'[q] # None => hand'[q].to = q
  BY DEF Inv
<1> QED BY <1>1, <1>8, <1>9, <1>10, <1>16, <1>17, <1>18, <1>19 DEF Inv, Genesis, Parent, Cert, None, MsgOk

(* An event of which a handler made t from the state of the replica. *)
LEMMA HandlerEvent ==
  ASSUME Inv, NEW r \in Replicas, NEW t, NEW taken,
         After(Known, r, {}, rep[r], t), Done(r, t, taken),
         hand' \in [Replicas -> Message \cup {None}],
         \A q \in Replicas : hand'[q] \in {hand[q], None}
  PROVE  Inv'
<1>1. rep[r].out = {}
  BY VotesFacts
<1>2. Good(conf, Known, r, {}, t) /\ t.seen = rep[r].seen /\ Proposals(t) = {}
  BY <1>1 DEF After, Proposals
<1>3. \A b \in t.seen : b \in Blocks
  BY <1>2 DEF Blocks
<1>4. \A m \in t.out : m.type # "block"
  BY <1>2 DEF Proposals
<1> QED BY <1>2, <1>3, <1>4, EventStep

(* The message in the hand of a handler. *)
LEMMA HandFacts ==
  ASSUME Inv, NEW r \in Replicas, NEW type, Receives(r, type), type # "none"
  PROVE  /\ hand[r] \in Message /\ hand[r].type = type /\ MsgOk(conf, Votes, hand[r])
         /\ hand[r].to = r
         /\ hand' \in [Replicas -> Message \cup {None}]
         /\ \A q \in Replicas : hand'[q] \in {hand[q], None}
<1>1. hand \in [Replicas -> Message \cup {None}] /\ hand[r].type = type
  BY DEF Inv, TypeOK, Receives
<1>2. hand[r] # None
  BY SMTT(20), <1>1 DEF None
<1>3. hand[r] \in Message /\ MsgOk(conf, Votes, hand[r]) /\ hand[r].to = r
  BY <1>1, <1>2 DEF Inv
<1>4. hand' = [hand EXCEPT ![r] = None]
  BY DEF Receives
<1>5. /\ hand' \in [Replicas -> Message \cup {None}]
      /\ \A q \in Replicas : hand'[q] \in {hand[q], None}
  <2> HIDE DEF None
  <2> QED BY <1>1, <1>4
<1> QED BY <1>1, <1>3, <1>5

(* handleTxn *)
LEMMA KickOffStep ==
  ASSUME Inv, NEW r \in Replicas, KickOff(r)
  PROVE  Inv'
<1>1. Good(conf, Known, r, {}, rep[r])
  BY VotesFacts
<1>2. 0 \in Views
  BY SMTT(20), ReplicaAssumption DEF Views
<1>3. After(Known, r, {}, rep[r], Advance(rep[r], 0))
  BY <1>1, <1>2, AdvanceStep
<1>4. hand' = hand /\ hand \in [Replicas -> Message \cup {None}]
  BY DEF KickOff, Inv, TypeOK
<1> QED BY <1>3, <1>4, HandlerEvent DEF KickOff

(* A vote. *)
LEMMA OnVoteStep ==
  ASSUME Inv, CallsOk, NEW r \in Replicas, OnVote(r)
  PROVE  Inv'
<1> DEFINE m == hand[r]
<1>1. /\ m \in Message /\ m.type = "vote" /\ MsgOk(conf, Votes, m) /\ m.to = r
      /\ hand' \in [Replicas -> Message \cup {None}]
      /\ \A q \in Replicas : hand'[q] \in {hand[q], None}
  BY HandFacts DEF OnVote
<1>2. /\ m.block \in Block /\ m.node \in Replicas /\ m.block \in Votes[m.node]
      /\ LeaderOf(conf, View(m.block) + 1) = r
  BY <1>1 DEF Message, MsgOk
<1>3. /\ Good(conf, Known, r, {}, rep[r]) /\ Now(Known, r, rep[r]) = Votes
      /\ SafetyOk(Calls[MaxDepth][r], Known, r)
  BY VotesFacts DEF CallsOk
<1>4. After(Known, r, {}, rep[r], ProcessVote(r, rep[r], m.block, m.node))
  BY <1>2, <1>3 DEF ProcessVote, SafetyOk
<1> QED BY <1>1, <1>4, HandlerEvent DEF OnVote

(* A TMO. *)
LEMMA OnTmoStep ==
  ASSUME Inv, CallsOk, NEW r \in Replicas, OnTmo(r)
  PROVE  Inv'
<1> DEFINE m == hand[r]
<1>1. /\ m \in Message /\ m.type = "tmo" /\ MsgOk(conf, Votes, m)
      /\ hand' \in [Replicas -> Message \cup {None}]
      /\ \A q \in Replicas : hand'[q] \in {hand[q], None}
  BY HandFacts DEF OnTmo
<1>2. m.view \in Views /\ m.highQC \in Block /\ m.node \in Replicas /\ Cert(Votes, m.highQC)
  BY <1>1 DEF Message, MsgOk
<1>3. /\ Good(conf, Known, r, {}, rep[r]) /\ Now(Known, r, rep[r]) = Votes
      /\ SafetyOk(Calls[MaxDepth][r], Known, r)
  BY VotesFacts DEF CallsOk
<1>4. After(Known, r, {}, rep[r], ProcessRemoteTmo(rep[r], m.view, m.highQC, m.node))
  BY <1>2, <1>3 DEF SafetyOk
<1> QED BY <1>1, <1>4, HandlerEvent DEF OnTmo

(* A VMO. *)
LEMMA OnVmoStep ==
  ASSUME Inv, CallsOk, NEW r \in Replicas, OnVmo(r)
  PROVE  Inv'
<1> DEFINE m == hand[r]
<1>1. /\ m \in Message /\ m.type = "vmo"
      /\ hand' \in [Replicas -> Message \cup {None}]
      /\ \A q \in Replicas : hand'[q] \in {hand[q], None}
  BY HandFacts DEF OnVmo
<1>2. m.view \in Views /\ m.node \in Replicas
  BY <1>1 DEF Message
<1>3. /\ Good(conf, Known, r, {}, rep[r])
      /\ SafetyOk(Calls[MaxDepth][r], Known, r)
  BY VotesFacts DEF CallsOk
<1>4. After(Known, r, {}, rep[r], ProcessRemoteVmo(r, rep[r], m.view, m.node))
  BY <1>2, <1>3 DEF ProcessRemoteVmo, SafetyOk
<1> QED BY <1>1, <1>4, HandlerEvent DEF OnVmo

(* The timer of the current view expires. *)
LEMMA TimeoutStep ==
  ASSUME Inv, CallsOk, NEW r \in Replicas, Timeout(r)
  PROVE  Inv'
<1>1. /\ Good(conf, Known, r, {}, rep[r]) /\ rep[r].pm.curView \in Views
      /\ SafetyOk(Calls[MaxDepth][r], Known, r)
  BY VotesFacts, StateFacts DEF CallsOk
<1>2. After(Known, r, {}, rep[r], ProcessLocalTmo(r, rep[r], CurView(rep[r])))
  BY <1>1 DEF CurView, SafetyOk
<1>3. hand' = hand /\ hand \in [Replicas -> Message \cup {None}]
  BY DEF Timeout, Inv, TypeOK
<1> QED BY <1>2, <1>3, HandlerEvent DEF Timeout

(* A handler takes a message from the network. *)
LEMMA HandleStep ==
  ASSUME Inv, NEW r \in Replicas, NEW m \in net, Handle(r, m)
  PROVE  Inv'
<1>1. /\ hand' = [hand EXCEPT ![r] = m] /\ net' = net \ {m}
      /\ conf' = conf /\ rep' = rep
  BY DEF Handle
<1>2. /\ rep \in [Replicas -> {s \in ReplicaState : s.out = {}}] /\ net \subseteq Message
      /\ hand \in [Replicas -> Message \cup {None}]
  BY DEF Inv, TypeOK
<1>3. /\ hand' \in [Replicas -> Message \cup {None}]
      /\ \A q \in Replicas : hand'[q] = hand[q] \/ hand'[q] = m
  <2> HIDE DEF None
  <2> QED BY <1>1, <1>2
<1>4. TypeOK' /\ ConfOK'
  BY <1>1, <1>2, <1>3 DEF TypeOK, Inv, ConfOK
<1>5. Votes' = Votes /\ Known' = Known
  BY <1>1 DEF Votes, Known
<1>6. Blocks' \subseteq Blocks
  BY <1>1 DEF Blocks
<1>7. \A b : Proposer(b)' = Proposer(b)
  BY <1>1 DEF Proposer, FindLeaderFor, Static
<1>8. ASSUME NEW x \in net' \cup {hand'[q] : q \in Replicas}, x # None
      PROVE  MsgOk(conf, Votes, x)
  BY SMTT(20), <1>1, <1>3, <1>8 DEF Inv
<1>9. /\ \A q \in Replicas : Good(conf, Known, q, {}, rep[q])
      /\ \A b \in Blocks' : /\ b \in rep[Proposer(b)'].seen
                            /\ b # Genesis /\ Cert(Votes, Parent(b))
  BY <1>6, <1>7 DEF Inv
<1>10. \A q \in Replicas : hand'[q] # None => hand'[q].to = q
  <2>1. m.to = r /\ \A q \in Replicas : q # r => hand'[q] = hand[q]
    BY <1>1, <1>2 DEF Handle
  <2> HIDE DEF None
  <2> QED BY <1>1, <1>2, <2>1 DEF Inv
<1> QED BY <1>1, <1>4, <1>5, <1>8, <1>9, <1>10 DEF Inv, Genesis, Parent, Cert, None, MsgOk

(* t is s after the processing of block b. *)
Arrived(k, r, s, b, t) ==
  /\ Good(conf, k, r, {}, t)
  /\ t.seen = s.seen \cup {b}
  /\ Proposals(t) = Proposals(s)

(* A block that a replica may see is processed. *)
LEMMA ArrivalStep ==
  ASSUME ConfOK, CallsOk, NEW k, NEW r \in Replicas, NEW s, Good(conf, k, r, {}, s),
         NEW b \in Block, b # Genesis, Cert(Now(k, r, s), Parent(b)),
         \A a \in s.seen : View(a) = View(b) => a = b,
         LeaderOf(conf, View(b)) = r => Past(s.pm.newViewChan, s.pm.curView, View(b)),
         conf.algo = "tchs" => Held(conf, k, r, s, Parent(b))
  PROVE  Arrived(k, r, s, b, ProcessBlock(r, s, b))
<1> DEFINE u == [s EXCEPT !.seen = @ \cup {b}]
           t == SafetyBlock(Calls[MaxDepth][r], r, u, b)
<1>1. s \in ReplicaState
  BY DEF Good
<1>2. Good(conf, k, r, {}, u)
  BY SeenStep
<1>3. u.seen = s.seen \cup {b} /\ u.out = s.out
  BY <1>1 DEF ReplicaState
<1>4. ProcessBlock(r, s, b) = t
  BY SMTT(20), <1>1, ArrivalFirst DEF ProcessBlock
<1> HIDE DEF u
<1>5. SafetyOk(Calls[MaxDepth][r], k, r)
  BY DEF CallsOk
<1>6. After(k, r, {}, u, t)
  BY <1>2, <1>3, <1>5 DEF SafetyOk
<1> HIDE DEF t
<1>7. Arrived(k, r, s, b, t)
  BY <1>3, <1>6 DEF Arrived, After, Proposals
<1> QED BY <1>4, <1>7

(* A block from the network: it was proposed by the leader of its view, so *)
(* no other block of the view has been seen.                               *)
LEMMA OnBlockStep ==
  ASSUME Inv, CallsOk, NEW r \in Replicas, NEW m \in net, OnBlock(r, m)
  PROVE  Inv'
<1> DEFINE b == m.block
           s == rep[r]
           t == ProcessBlock(r, s, b)
<1>1. b \in Blocks /\ b \in Block
  BY DEF OnBlock, Blocks, Inv, TypeOK, Message
<1>2. /\ ConfOK /\ b \in rep[Proposer(b)].seen
      /\ b # Genesis /\ Cert(Votes, Parent(b))
  BY <1>1 DEF Inv
<1>3. /\ Good(conf, Known, r, {}, s) /\ Now(Known, r, s) = Votes /\ s.out = {}
  BY VotesFacts
<1>4. Done(r, t, {m}) /\ hand' = hand /\ hand \in [Replicas -> Message \cup {None}]
  BY DEF OnBlock, Inv, TypeOK
<1>5. \A a \in s.seen : a \in Blocks
  BY DEF Blocks
<1> HIDE DEF b
<1>6. \A a \in s.seen : View(a) = View(b) => a = b
  BY <1>1, <1>5, OneBlock DEF OneBlockPerView
<1>7. LeaderOf(conf, View(b)) = r => Past(s.pm.newViewChan, s.pm.curView, View(b))
  <2>1. LeaderOf(conf, View(b)) = r => b \in s.seen
    BY <1>1, <1>2, ProposerFacts
  <2> QED BY <1>3, <2>1 DEF Good, ViewPart
<1>8. conf.algo = "tchs" => Held(conf, Known, r, s, Parent(b))
  <2> DEFINE p == Proposer(b)
  <2>1. p \in Replicas
    BY <1>1, <1>2, ProposerFacts
  <2>2. LockPart(conf, Known, p, rep[p])
    BY <2>1, VotesFacts DEF Good
  <2>3. conf.algo = "tchs" => Held(conf, Known, p, rep[p], Parent(b))
    BY <1>2, <2>2 DEF LockPart
  <2> HIDE DEF p
  <2> QED BY <2>1, <2>3, HeldByAll
<1> HIDE DEF s
<1>9. Arrived(Known, r, s, b, t)
  BY <1>1, <1>2, <1>3, <1>6, <1>7, <1>8, ArrivalStep
<1> HIDE DEF t
<1>10. /\ rep[r].seen \subseteq t.seen
      /\ \A a \in t.seen : a \in Blocks
  BY <1>1, <1>5, <1>9 DEF s, Arrived
<1>11. Good(conf, Known, r, {}, t) /\ \A x \in t.out : x.type # "block"
  BY <1>3, <1>9 DEF Proposals, Arrived
<1> QED BY <1>4, <1>10, <1>11, EventStep

(* t is s after the proposal of block b. *)
Proposed(k, r, s, b, t) ==
  /\ Proposer(b) = r /\ Good(conf, k, r, {}, t)
  /\ t.seen = s.seen \cup {b}
  /\ \A m \in t.out : m.type = "block" => m.block = b

(* The leader proposes a block of the view that it takes from the channel. *)
LEMMA ProposeStep ==
  ASSUME ConfOK, CallsOk, NEW k, NEW r \in Replicas, NEW s, Good(conf, k, r, {}, s),
         s.out = {}, NEW v \in 1 .. MaxView, FindLeaderFor(v) = r,
         Past(s.pm.newViewChan, s.pm.curView, v),
         \A a \in s.seen : LeaderOf(conf, View(a)) = r => View(a) < v
  PROVE  Proposed(k, r, s, MakeProposal(s, v), proposeBlock(r, s, v))
<1> DEFINE b == MakeProposal(s, v)
           msgs == {[BlockMsg(r, b) EXCEPT !.to = q] : q \in Replicas \ {r}}
           u == IF conf.algo = "streamlet" THEN s ELSE [s EXCEPT !.out = s.out \cup msgs]
           t == ProcessBlock(r, u, b)
<1>1. s \in ReplicaState /\ s.highQC \in Block /\ s.seen \subseteq Block
  BY StateFacts DEF Good
<1>2. b \in Block /\ b # Genesis /\ Parent(b) = s.highQC /\ View(b) = v
  BY <1>1, AppendFacts DEF MakeProposal
<1>3. Proposer(b) = r /\ LeaderOf(conf, View(b)) = r
  BY <1>2, ProposerFacts DEF Proposer
<1>4. Cert(Now(k, r, s), Parent(b))
  BY <1>2 DEF Good, QcPart
<1>5. \A a \in s.seen : View(a) = View(b) => a = b
  <2>1. \A a \in s.seen : View(a) \in Nat
    BY SMTT(20), <1>1, BlockFacts
  <2> QED BY SMTT(20), <1>2, <1>3, <2>1
<1>6. proposeBlock(r, s, v) = t
  BY DEF proposeBlock, Broadcast
<1> HIDE DEF b
<1>7. msgs \in SUBSET Message /\ \A m \in msgs : m.type = "block" /\ m.block = b
  <2> SUFFICES ASSUME NEW q \in Replicas
               PROVE  /\ [BlockMsg(r, b) EXCEPT !.to = q] \in Message
                      /\ [BlockMsg(r, b) EXCEPT !.to = q].type = "block"
                      /\ [BlockMsg(r, b) EXCEPT !.to = q].block = b
    OBVIOUS
  <2>1. View(b) \in Views
    BY <1>2, BlockFacts
  <2> QED BY <1>2, <2>1 DEF BlockMsg, Message
<1> HIDE DEF msgs
<1>8. /\ Good(conf, k, r, {}, u) /\ u.seen = s.seen /\ u.pm = s.pm /\ u.voted = s.voted
      /\ u.preferredView = s.preferredView
      /\ \A m \in u.out : m.type = "block" => m.block = b
  <2>1. CASE conf.algo = "streamlet"
    BY <2>1
  <2>2. CASE conf.algo # "streamlet"
    <3> DEFINE out == s.out \cup msgs
    <3>1. out \in SUBSET Message /\ \A m \in out : MsgOk(conf, Now(k, r, s), m) /\ m.block = b
      BY <1>7 DEF MsgOk
    <3> HIDE DEF out
    <3>2. Good(conf, k, r, {}, [s EXCEPT !.out = out])
      BY <3>1, OutGood
    <3>3. u = [s EXCEPT !.out = out]
      BY <2>2 DEF out
    <3>4. /\ [s EXCEPT !.out = out].seen = s.seen /\ [s EXCEPT !.out = out].pm = s.pm
          /\ [s EXCEPT !.out = out].voted = s.voted /\ [s EXCEPT !.out = out].out = out
          /\ [s EXCEPT !.out = out].preferredView = s.preferredView
      BY <1>1 DEF ReplicaState
    <3> HIDE DEF u
    <3> QED BY <3>1, <3>2, <3>3, <3>4
  <2> QED BY <2>1, <2>2
<1> HIDE DEF u
<1>9. /\ Cert(Now(k, r, u), Parent(b))
      /\ \A a \in u.seen : View(a) = View(b) => a = b
      /\ Past(u.pm.newViewChan, u.pm.curView, View(b))
  BY <1>2, <1>4, <1>5, <1>8 DEF Now
<1>10. conf.algo = "tchs" => Held(conf, k, r, u, Parent(b))
  <2>1. conf.algo = "tchs" => Held(conf, k, r, s, s.highQC)
    BY DEF Good, LockPart
  <2> QED BY <1>2, <1>8, <2>1 DEF Held
<1>11. Arrived(k, r, u, b, t)
  BY <1>2, <1>8, <1>9, <1>10, ArrivalStep
<1> HIDE DEF t
<1>12. \A m \in t.out : m.type = "block" => m.block = b
  BY <1>8, <1>11 DEF Proposals, Arrived
<1>13. Proposed(k, r, s, b, t)
  BY <1>3, <1>8, <1>11, <1>12 DEF Arrived, Proposed
<1> QED BY <1>6, <1>13 DEF b

(* The event loop takes an announced view. *)
LEMMA OnNewViewStep ==
  ASSUME Inv, CallsOk, NEW r \in Replicas, OnNewView(r)
  PROVE  Inv'
<1> DEFINE s == [rep[r] EXCEPT !.pm.newViewChan = Tail(@)]
           v == Head(rep[r].pm.newViewChan)
           p == proposeBlock(r, s, v)
           t == IF FindLeaderFor(v) = r /\ r \notin Byz THEN p ELSE s
<1>1. /\ rep[r].pm.newViewChan # << >> /\ v <= MaxView /\ Done(r, t, {}) /\ hand' = hand
      /\ hand \in [Replicas -> Message \cup {None}] /\ ConfOK
  BY DEF OnNewView, ViewEntered, Inv, TypeOK
<1>2. /\ Good(conf, Known, r, {}, rep[r]) /\ rep[r].out = {}
  BY VotesFacts
<1>3. /\ Good(conf, Known, r, {}, s) /\ s.seen = rep[r].seen /\ s.out = {}
      /\ v \in Views /\ 0 < v
      /\ Past(s.pm.newViewChan, s.pm.curView, v)
      /\ \A b \in s.seen : LeaderOf(conf, View(b)) = r => View(b) < v
  <2>1. TookView(Known, r, {}, rep[r], s, v)
    BY <1>1, <1>2, TakeViewStep
  <2> HIDE DEF s, v
  <2> QED BY <1>2, <2>1 DEF TookView
<1>4. \A b \in s.seen : b \in Blocks
  BY <1>3 DEF Blocks
<1> HIDE DEF s, v
<1>5. v \in 1 .. MaxView
  BY SMTT(20), <1>1, <1>3, ReplicaAssumption DEF Views
<1>6. CASE FindLeaderFor(v) = r /\ r \notin Byz
  <2> DEFINE b == MakeProposal(s, v)
  <2>0. Proposed(Known, r, s, b, p)
    BY <1>1, <1>3, <1>5, <1>6, ProposeStep
  <2> HIDE DEF b, p
  <2>1. /\ Proposer(b) = r /\ Good(conf, Known, r, {}, p)
        /\ p.seen = s.seen \cup {b}
        /\ \A m \in p.out : m.type = "block" => m.block = b
    BY <2>0 DEF Proposed
  <2>2. \A a \in p.seen : a \in Blocks \/ Proposer(a) = r
    BY <1>4, <2>1
  <2>3. /\ rep[r].seen \subseteq p.seen
        /\ \A m \in p.out : m.type = "block" => m.block \in p.seen
    BY <1>3, <2>1
  <2>4. Done(r, p, {})
    BY <1>1, <1>6
  <2> QED BY <1>1, <2>1, <2>2, <2>3, <2>4, EventStep
<1>7. CASE ~ (FindLeaderFor(v) = r /\ r \notin Byz)
  <2>1. Done(r, s, {})
    BY <1>1, <1>7
  <2> HIDE DEF t, p
  <2> QED BY <1>1, <1>3, <1>4, <2>1, EventStep
<1> QED BY <1>6, <1>7

(* A replica that has just been created. *)
LEMMA NewReplicaFacts ==
  /\ NewReplica \in ReplicaState /\ NewReplica.out = {}
  /\ NewReplica.seen = {} /\ NewReplica.voted = {} /\ NewReplica.committed = {}
  /\ NewReplica.bufferedBlocks = {} /\ NewReplica.bufferedQCs = {}
  /\ NewReplica.highQC = Genesis /\ NewReplica.bc.tree = {} /\ NewReplica.bc.votes = {}
  /\ NewReplica.bc.lowest = 0 /\ NewReplica.pm.newViewChan = << >>
  /\ NewReplica.pm.curView = 0 /\ NewReplica.preferredView = 0
<1>1. 0 \in Views /\ 0 \in 0 .. MaxView
  BY SMTT(20), ReplicaAssumption DEF Views
<1>2. Genesis \in Block
  BY SMTT(20) DEF Genesis, Block
<1>3. PM!NewPacemaker(Views) \in
        [curView : Views, newViewChan : Seq(Views),
         timeouts : [Views -> SUBSET Replicas], viewChanges : [Views -> SUBSET Replicas]]
  BY SMTT(20), <1>1 DEF PM!NewPacemaker
<1>4. NewBlockchain \in [tree : SUBSET Block, lowest : 0 .. MaxView,
                         votes : SUBSET (Block \X Replicas)]
  BY <1>1 DEF NewBlockchain
<1>5. NewReplica \in ReplicaState
  BY <1>1, <1>2, <1>3, <1>4 DEF NewReplica, ReplicaState
<1> QED BY <1>5 DEF NewReplica, NewBlockchain, PM!NewPacemaker

(* The invariant holds when all replicas have been created. *)
LEMMA InitInv ==
  ASSUME Init
  PROVE  Inv
<1>1. /\ conf.master \in Masters
      /\ rep = [r \in Replicas |-> NewReplica]
      /\ hand = [r \in Replicas |-> None] /\ net = {}
  BY DEF Init
<1>2. ConfOK
  BY <1>1, BambooAssumption DEF ConfOK
<1>3. TypeOK
  BY <1>1, NewReplicaFacts DEF TypeOK
<1>4. Votes = [q \in Replicas |-> {}] /\ Known.votes = Votes
      /\ Known.locks = [q \in Replicas |-> 0]
  BY <1>1, NewReplicaFacts DEF Votes, Known
<1>5. ASSUME NEW r \in Replicas PROVE Good(conf, Known, r, {}, rep[r])
  <2> DEFINE s == NewReplica
  <2>1. rep[r] = s
    BY <1>1
  <2>2. /\ Known.votes \in [Replicas -> SUBSET Block] /\ Known.votes[r] = {}
        /\ Known.locks \in [Replicas -> Nat] /\ Known.locks[r] = 0
    BY SMTT(20), <1>4
  <2>3. QcPart(conf, Known, r, s)
    BY <2>2, NewReplicaFacts DEF QcPart, Cert
  <2>4. Len(s.pm.newViewChan) = 0
    BY NewReplicaFacts
  <2>5. ViewPart(conf, r, s)
    BY SMTT(20), <2>4, NewReplicaFacts DEF ViewPart, Rising, Past
  <2>6. CommitPart(conf, Known, r, {}, s)
    BY NewReplicaFacts DEF CommitPart
  <2>7. LockPart(conf, Known, r, s)
    <3>1. View(Genesis) = 0
      BY DEF View, Genesis
    <3>2. Held(conf, Known, r, s, Genesis)
      BY SMTT(20), <3>1 DEF Held
    <3> QED BY SMTT(20), <2>2, <3>2, NewReplicaFacts DEF LockPart
  <2> QED BY <2>1, <2>2, <2>3, <2>5, <2>6, <2>7, NewReplicaFacts DEF Good
<1>6. Blocks = {}
  BY <1>1, NewReplicaFacts DEF Blocks
<1>7. \A m \in net \cup {hand[r] : r \in Replicas} : m = None
  BY <1>1
<1> QED BY <1>2, <1>3, <1>5, <1>6, <1>7 DEF Inv

(* Every step keeps the invariant. *)
LEMMA NextInv ==
  ASSUME Inv, CallsOk, [Next]_vars
  PROVE  Inv'
<1>1. CASE Next
  <2>1. PICK r \in Replicas :
          \/ KickOff(r) \/ OnVote(r) \/ OnTmo(r) \/ OnVmo(r) \/ OnNewView(r) \/ Timeout(r)
          \/ \E m \in net : Handle(r, m) \/ OnBlock(r, m)
    BY <1>1 DEF Next, Event
  <2>2. CASE KickOff(r)
    BY <2>2, KickOffStep
  <2>3. CASE OnVote(r)
    BY <2>3, OnVoteStep
  <2>4. CASE OnTmo(r)
    BY <2>4, OnTmoStep
  <2>5. CASE OnVmo(r)
    BY <2>5, OnVmoStep
  <2>6. CASE OnNewView(r)
    BY <2>6, OnNewViewStep
  <2>7. CASE Timeout(r)
    BY <2>7, TimeoutStep
  <2>8. CASE \E m \in net : Handle(r, m) \/ OnBlock(r, m)
    BY <2>8, HandleStep, OnBlockStep
  <2> QED BY <2>1, <2>2, <2>3, <2>4, <2>5, <2>6, <2>7, <2>8
<1>2. CASE UNCHANGED vars
  <2>1. conf' = conf /\ rep' = rep /\ hand' = hand /\ net' = net
    BY <1>2 DEF vars
  <2>2. Votes' = Votes /\ Known' = Known /\ Blocks' = Blocks
    BY <2>1 DEF Votes, Known, Blocks
  <2>3. TypeOK' /\ ConfOK'
    BY <2>1 DEF Inv, TypeOK, ConfOK
  <2>4. \A b : Proposer(b)' = Proposer(b)
    BY <2>1 DEF Proposer, FindLeaderFor, Static
  <2>5. \A b \in Blocks' : b \in rep'[Proposer(b)'].seen
    BY <2>1, <2>2, <2>4 DEF Inv
  <2> QED BY SMTT(20), <2>1, <2>2, <2>3, <2>5 DEF Inv, Genesis, Parent, Cert, None, MsgOk
<1> QED BY <1>1, <1>2

-----------------------------------------------------------------------------
(* Counting and induction: what needs facts about finite sets and about    *)
(* the natural numbers                                                     *)

INSTANCE FiniteSetTheorems

(* Induction over the depth of the calls, for a set of depths. *)
LEMMA DepthInduction ==
  ASSUME NEW S, 0 \in S, \A n \in Nat : n \in S => n + 1 \in S
  PROVE  Nat \subseteq S
<1> DEFINE T == Nat \ S
<1> SUFFICES ASSUME T # {} PROVE FALSE
  OBVIOUS
<1>1. PICK x \in T : \A y \in T : ~ (<<y, x>> \in OpToRel(<, Nat))
  BY NatLessThanWellFounded, WFMin
<1>2. x \in Nat /\ x # 0
  OBVIOUS
<1>3. x - 1 \in T
  BY SMTT(20), <1>2
<1>4. <<x - 1, x>> \in Nat \X Nat /\ <<x - 1, x>>[1] < <<x - 1, x>>[2]
  BY SMTT(20), <1>2
<1> QED BY <1>1, <1>3, <1>4 DEF OpToRel

(* The handlers whose calls are served by those of p. *)
Level(depth, p) ==
  [r \in Replicas |->
    [ProcessBlock |->
       [s \in ReplicaState |-> [b \in Block |->
          IF depth = 0 THEN IF Assert(FALSE, "MaxDepth") THEN s ELSE s
          ELSE SafetyBlock(p[r], r, s, b)]],
     ProcessRemoteVmo |->
       [s \in ReplicaState |-> [view \in Views |->
          IF depth = 0 THEN IF Assert(FALSE, "MaxDepth") THEN s ELSE s
          ELSE SafetyVmo(p[r], r, s, view, r)]]]]

(* At depth 0 nothing is called. *)
LEMMA LevelZero == \A p, q : Level(0, p) = Level(0, q)
  BY ZenonT(40) DEF Level

(* f holds the handlers of the depths up to n. *)
Levels(n, f) == f = [i \in 0 .. n |-> Level(i, f[i - 1])]

(* The handlers of a depth are determined. *)
LEMMA LevelsUnique ==
  ASSUME NEW n \in Nat, NEW m \in Nat, NEW f, NEW g, Levels(n, f), Levels(m, g)
  PROVE  \A i \in Nat : i <= n /\ i <= m => f[i] = g[i]
<1> DEFINE S == {i \in Nat : i <= n /\ i <= m => f[i] = g[i]}
<1>1. \A i \in 0 .. n : f[i] = Level(i, f[i - 1])
  BY DEF Levels
<1>2. \A i \in 0 .. m : g[i] = Level(i, g[i - 1])
  BY DEF Levels
<1>3. 0 \in S
  <2>1. f[0] = Level(0, f[0 - 1]) /\ g[0] = Level(0, g[0 - 1])
    BY SMTT(20), <1>1, <1>2
  <2> QED BY <2>1, LevelZero
<1>4. ASSUME NEW i \in Nat, i \in S PROVE i + 1 \in S
  <2> SUFFICES ASSUME i + 1 <= n, i + 1 <= m PROVE f[i + 1] = g[i + 1]
    BY SMTT(20)
  <2>1. f[i] = g[i] /\ i + 1 \in 0 .. n /\ i + 1 \in 0 .. m /\ (i + 1) - 1 = i
    BY SMTT(20), <1>4
  <2>2. f[i + 1] = Level(i + 1, f[i])
    BY <1>1, <2>1
  <2>3. g[i + 1] = Level(i + 1, g[i])
    BY <1>2, <2>1
  <2> QED BY <2>1, <2>2, <2>3
<1>5. Nat \subseteq S
  <2> HIDE DEF S
  <2> QED BY <1>3, <1>4, DepthInduction
<1> QED BY <1>5

(* The handlers of every depth exist. *)
LEMMA LevelsExist == \A n \in Nat : \E f : Levels(n, f)
<1> DEFINE S == {n \in Nat : \E f : Levels(n, f)}
<1>1. 0 \in S
  <2> DEFINE f == [i \in 0 .. 0 |-> Level(0, {})]
  <2>1. \A i \in 0 .. 0 : f[i] = Level(i, f[i - 1])
    <3> SUFFICES ASSUME NEW i \in 0 .. 0 PROVE f[i] = Level(i, f[i - 1])
      OBVIOUS
    <3>1. i = 0 /\ f[i] = Level(0, {})
      BY SMTT(20)
    <3> HIDE DEF f
    <3> QED BY <3>1, LevelZero
  <2>2. f = [i \in 0 .. 0 |-> f[i]]
    OBVIOUS
  <2>3. Levels(0, f)
    <3> HIDE DEF f
    <3> QED BY <2>1, <2>2 DEF Levels
  <2> QED BY <2>3
<1>2. ASSUME NEW n \in Nat, n \in S PROVE n + 1 \in S
  <2>1. PICK f : Levels(n, f)
    BY <1>2
  <2>2. \A i \in 0 .. n : f[i] = Level(i, f[i - 1])
    BY <2>1 DEF Levels
  <2> DEFINE g == [i \in 0 .. n + 1 |-> IF i = n + 1 THEN Level(n + 1, f[n]) ELSE f[i]]
  <2>3. /\ \A i \in 0 .. n : g[i] = f[i]
        /\ g[n + 1] = Level(n + 1, f[n])
        /\ g = [i \in 0 .. n + 1 |-> g[i]]
    BY SMTT(20)
  <2> HIDE DEF g
  <2>4. \A i \in 0 .. n + 1 : g[i] = Level(i, g[i - 1])
    <3> SUFFICES ASSUME NEW i \in 0 .. n + 1 PROVE g[i] = Level(i, g[i - 1])
      OBVIOUS
    <3>1. CASE i = 0
      <4>1. i \in 0 .. n
        BY SMTT(20), <3>1
      <4>2. g[i] = Level(i, f[i - 1])
        BY <2>2, <2>3, <4>1
      <4> QED BY <3>1, <4>2, LevelZero
    <3>2. CASE i \in 1 .. n
      <4>1. i \in 0 .. n /\ i - 1 \in 0 .. n
        BY SMTT(20), <3>2
      <4> QED BY <2>2, <2>3, <4>1
    <3>3. CASE i = n + 1
      <4>1. i - 1 = n /\ n \in 0 .. n
        BY SMTT(20), <3>3
      <4> QED BY <2>3, <3>3, <4>1
    <3> QED BY SMTT(20), <3>1, <3>2, <3>3
  <2>5. Levels(n + 1, g)
    BY <2>3, <2>4 DEF Levels
  <2> QED BY SMTT(20), <2>5
<1>3. Nat \subseteq S
  <2> HIDE DEF S
  <2> QED BY <1>1, <1>2, DepthInduction
<1> QED BY <1>3

(* Calls satisfies its recursive definition. *)
LEMMA CallsUnfold == Calls = [depth \in Nat |-> Level(depth, Calls[depth - 1])]
<1> DEFINE F(n) == CHOOSE f : Levels(n, f)
           G == [n \in Nat |-> F(n)[n]]
<1>1. \A n \in Nat : Levels(n, F(n))
  BY LevelsExist
<1> HIDE DEF F
<1>2. ASSUME NEW n \in Nat PROVE F(n)[n] = Level(n, F(n)[n - 1])
  <2>1. n \in 0 .. n
    BY SMTT(20)
  <2> QED BY <1>1, <2>1 DEF Levels
<1>3. \A n \in Nat : n # 0 => F(n)[n - 1] = F(n - 1)[n - 1]
  BY SMTT(20), <1>1, LevelsUnique
<1>4. ASSUME NEW n \in Nat PROVE G[n] = Level(n, G[n - 1])
  <2>1. CASE n = 0
    BY <1>2, <2>1, LevelZero
  <2>2. CASE n # 0
    BY SMTT(20), <1>2, <1>3, <2>2
  <2> QED BY <2>1, <2>2
<1>5. G = [n \in Nat |-> G[n]]
  OBVIOUS
<1> HIDE DEF G
<1>6. G = [n \in Nat |-> Level(n, G[n - 1])]
  BY <1>4, <1>5
<1>7. Calls = CHOOSE f : f = [depth \in Nat |-> Level(depth, f[depth - 1])]
  BY DEF Calls, Level
<1> QED BY <1>6, <1>7

(* The handlers of every depth keep what a handler promises: at depth 0    *)
(* because they do nothing, deeper because those they call do.             *)
LEMMA CallsStep ==
  ASSUME ConfOK, NEW k, NEW r \in Replicas
  PROVE  \A n \in Nat : CallOk(Calls[n][r], k, r)
<1> DEFINE S == {n \in Nat : CallOk(Calls[n][r], k, r)}
<1>1. ASSUME NEW n \in Nat, NEW d, NEW s, Good(conf, k, r, d, s)
      PROVE  /\ \A b \in Block : Calls[n][r].ProcessBlock[s][b] =
                  IF n = 0 THEN s ELSE SafetyBlock(Calls[n - 1][r], r, s, b)
             /\ \A view \in Views : Calls[n][r].ProcessRemoteVmo[s][view] =
                  IF n = 0 THEN s ELSE SafetyVmo(Calls[n - 1][r], r, s, view, r)
  <2>1. Calls[n] = Level(n, Calls[n - 1])
    BY CallsUnfold
  <2>2. s \in ReplicaState
    BY <1>1 DEF Good
  <2> DEFINE p == Calls[n - 1][r]
             B == [u \in ReplicaState |-> [b \in Block |->
                     IF n = 0 THEN IF Assert(FALSE, "MaxDepth") THEN u ELSE u
                     ELSE SafetyBlock(p, r, u, b)]]
             V == [u \in ReplicaState |-> [view \in Views |->
                     IF n = 0 THEN IF Assert(FALSE, "MaxDepth") THEN u ELSE u
                     ELSE SafetyVmo(p, r, u, view, r)]]
  <2>3. Calls[n][r] = [ProcessBlock |-> B, ProcessRemoteVmo |-> V]
    BY <2>1 DEF Level
  <2> HIDE DEF p
  <2>4. \A b \in Block : B[s][b] = IF n = 0 THEN s ELSE SafetyBlock(p, r, s, b)
    BY <2>2
  <2>5. \A view \in Views : V[s][view] = IF n = 0 THEN s ELSE SafetyVmo(p, r, s, view, r)
    BY <2>2
  <2> HIDE DEF B, V
  <2>6. Calls[n][r].ProcessBlock = B /\ Calls[n][r].ProcessRemoteVmo = V
    BY SMTT(20), <2>3
  <2> QED BY <2>4, <2>5, <2>6 DEF p
<1>2. 0 \in S
  <2>1. CallOk(Calls[0][r], k, r)
    BY SMTT(20), <1>1, AfterSelf DEF CallOk
  <2> QED BY <2>1
<1>3. ASSUME NEW n \in Nat, n \in S PROVE n + 1 \in S
  <2>1. CallOk(Calls[n][r], k, r)
    BY <1>3
  <2>2. n + 1 # 0 /\ (n + 1) - 1 = n /\ n + 1 \in Nat
    BY SMTT(20)
  <2>3. SafetyOk(Calls[n][r], k, r)
    BY <2>1, SafetyStep
  <2>4. CallOk(Calls[n + 1][r], k, r)
    <3>1. ASSUME NEW d, NEW s, NEW b \in Block, Good(conf, k, r, d, s), b \in s.seen
          PROVE  After(k, r, d, s, Calls[n + 1][r].ProcessBlock[s][b])
      <4>1. Calls[n + 1][r].ProcessBlock[s][b] = SafetyBlock(Calls[n][r], r, s, b)
        BY SMTT(20), <1>1, <2>2, <3>1
      <4> QED BY <2>3, <3>1, <4>1 DEF SafetyOk
    <3>2. ASSUME NEW d, NEW s, NEW view \in Views, Good(conf, k, r, d, s)
          PROVE  After(k, r, d, s, Calls[n + 1][r].ProcessRemoteVmo[s][view])
      <4>1. Calls[n + 1][r].ProcessRemoteVmo[s][view] = SafetyVmo(Calls[n][r], r, s, view, r)
        BY SMTT(20), <1>1, <2>2, <3>2
      <4> QED BY <2>3, <3>2, <4>1 DEF SafetyOk
    <3> QED BY <3>1, <3>2 DEF CallOk
  <2> QED BY <2>2, <2>4
<1>4. Nat \subseteq S
  <2> HIDE DEF S
  <2> QED BY <1>2, <1>3, DepthInduction
<1> QED BY <1>4

(* An event starts with all the depth there is. *)
LEMMA EventCalls ==
  ASSUME ConfOK, NEW k, NEW r \in Replicas
  PROVE  SafetyOk(Calls[MaxDepth][r], k, r)
<1>1. MaxDepth \in Nat
  BY SMTT(20), ReplicaAssumption DEF MaxDepth
<1> QED BY <1>1, CallsStep, SafetyStep

-----------------------------------------------------------------------------
(* The theorems *)

(* The inductive invariant holds in every reachable state. *)
THEOREM InvHolds == Spec => []Inv
<1>1. Init => Inv
  BY InitInv
<1>2. Inv /\ [Next]_vars => Inv'
  <2>1. Inv => CallsOk
    BY EventCalls DEF Inv, CallsOk
  <2> QED BY <2>1, NextInv
<1> QED BY <1>1, <1>2, PTL DEF Spec

(* Votes that were counted are of different voters. *)
LEMMA CertCounts ==
  ASSUME NEW v, NEW b, Cert(v, b), b # Genesis
  PROVE  Cardinality({q \in Replicas : b \in v[q]}) >= ByzNo * 2 + 1
<1> DEFINE T == {q \in Replicas : b \in v[q]}
<1>1. PICK S \in SUBSET ({b} \X Replicas) :
        (\A x \in S : b \in v[x[2]]) /\ Cardinality(S) >= ByzNo * 2 + 1
  BY DEF Cert
<1> DEFINE f == [x \in S |-> x[2]]
<1>2. IsFiniteSet(T)
  <2>1. IsFiniteSet(Replicas)
    BY SMTT(20), ReplicaAssumption, FS_Interval DEF Replicas
  <2> QED BY <2>1, FS_Subset
<1>3. f \in [S -> T]
  BY <1>1
<1>4. \A x, y \in S : f[x] = f[y] => x = y
  BY SMTT(20), <1>1
<1> HIDE DEF f
<1>5. f \in Injection(S, T)
  BY <1>3, <1>4 DEF Injection, IsInjective
<1>6. Cardinality(S) <= Cardinality(T) /\ IsFiniteSet(S)
  BY <1>2, <1>5, FS_Injection
<1>7. Cardinality(S) \in Nat /\ Cardinality(T) \in Nat
  BY <1>2, <1>6, FS_CardinalityType
<1> QED BY SMTT(20), <1>1, <1>6, <1>7, ByzNoAssumption

(* The QCs of a replica are certified by votes that were cast. *)
LEMMA QCsFollow ==
  ASSUME Inv
  PROVE  QCsCertified
<1> SUFFICES ASSUME NEW r \in Replicas, NEW qc \in {rep[r].highQC} \cup rep[r].bufferedQCs,
                    qc # Genesis
             PROVE  Certified(qc)
  BY DEF QCsCertified
<1>1. Good(conf, Known, r, {}, rep[r]) /\ Now(Known, r, rep[r]) = Votes
  BY VotesFacts
<1>2. Cert(Votes, qc)
  BY <1>1 DEF Good, QcPart
<1>3. {q \in Replicas : qc \in Votes[q]} = Voters(qc)
  BY DEF Voters, Votes
<1> QED BY <1>2, <1>3, CertCounts DEF Certified

(* The commits of a replica are backed. *)
LEMMA CommitsFollow ==
  ASSUME Inv
  PROVE  CommitBacked
<1> SUFFICES ASSUME NEW r \in Replicas, NEW b \in rep[r].committed
             PROVE  \E c \in rep[r].committed :
                      LET c1 == Append(c, View(c) + 1)
                          c2 == Append(c1, View(c) + 2)
                      IN  /\ Extends(c, b) /\ Certified(c) /\ Certified(c1)
                          /\ CASE conf.algo = "tchs"         -> c2 \in rep[r].seen
                               [] conf.algo = "fasthotstuff" -> c2 \in rep[r].voted
                               [] OTHER                      -> Certified(c2)
  BY DEF CommitBacked
<1>1. Good(conf, Known, r, {}, rep[r]) /\ Now(Known, r, rep[r]) = Votes
  BY VotesFacts
<1>2. PICK c \in rep[r].committed :
        Extends(c, b) /\ Backed(conf, Votes, {}, rep[r], c)
  BY <1>1 DEF Good, CommitPart
<1> DEFINE c1 == Append(c, View(c) + 1)
           c2 == Append(c1, View(c) + 2)
<1>3. \A x : x # Genesis /\ Cert(Votes, x) => Certified(x)
  <2> SUFFICES ASSUME NEW x, x # Genesis, Cert(Votes, x) PROVE Certified(x)
    OBVIOUS
  <2>1. {q \in Replicas : x \in Votes[q]} = Voters(x)
    BY DEF Voters, Votes
  <2> QED BY <2>1, CertCounts DEF Certified
<1>4. c \in Block /\ c # Genesis
  <2>1. c \in rep[r].seen
    BY <1>1, <1>2 DEF Good, CommitPart
  <2> QED BY <1>1, <2>1, StateFacts DEF Good, QcPart
<1>5. c1 # Genesis /\ c2 # Genesis
  <2>1. c \in Seq(Int) /\ View(c) \in Int
    BY SMTT(20), <1>4, BlockFacts, ReplicaAssumption DEF Block
  <2> QED BY SMTT(20), <2>1 DEF Genesis
<1>6. /\ Cert(Votes, c) /\ Cert(Votes, c1)
      /\ CASE conf.algo = "tchs"         -> c2 \in rep[r].seen
           [] conf.algo = "fasthotstuff" -> c2 \in rep[r].voted
           [] OTHER                      -> Cert(Votes, c2)
  BY <1>2 DEF Backed
<1> HIDE DEF c1, c2
<1>7. /\ Extends(c, b) /\ Certified(c) /\ Certified(c1)
      /\ CASE conf.algo = "tchs"         -> c2 \in rep[r].seen
           [] conf.algo = "fasthotstuff" -> c2 \in rep[r].voted
           [] OTHER                      -> Certified(c2)
  BY <1>2, <1>3, <1>4, <1>5, <1>6
<1> QED BY <1>2, <1>7 DEF c1, c2

(* A replica that has committed is locked on the commit, or above it. *)
LEMMA LocksFollow ==
  ASSUME Inv
  PROVE  LockCoversCommit
<1> SUFFICES ASSUME NEW r \in Replicas
             PROVE  /\ conf.algo = "hotstuff" /\ rep[r].committed # {}
                         => rep[r].preferredView > rep[r].bc.lowest
                    /\ conf.algo = "tchs" => rep[r].preferredView >= rep[r].bc.lowest
  BY DEF LockCoversCommit
<1>1. LockPart(conf, Known, r, rep[r]) /\ rep[r] \in ReplicaState
  BY VotesFacts DEF Good
<1>2. rep[r].preferredView \in Nat /\ rep[r].bc.lowest \in Nat
  BY SMTT(20), <1>1, StateFacts
<1> QED BY <1>1, <1>2 DEF LockPart

(* Types: no handler, through any depth of calls, makes anything but a     *)
(* replica state, and sends anything but messages.                         *)
THEOREM TypesHold == Spec => []TypeOK
<1>1. Inv => TypeOK
  BY DEF Inv
<1> QED BY <1>1, InvHolds, PTL

(* No two blocks of one view are ever proposed, seen or on their way,      *)
(* however timeouts, VMOs and TCs race to advance the leader: a view is    *)
(* announced once by AdvanceView and taken once by the event loop.         *)
THEOREM OneBlockPerViewHolds == Spec => []OneBlockPerView
<1>1. Inv => OneBlockPerView
  BY OneBlock
<1> QED BY <1>1, InvHolds, PTL

(* No replica ever holds a QC that less than a quorum has voted for.       *)
THEOREM QCsCertifiedHolds == Spec => []QCsCertified
<1>1. Inv => QCsCertified
  BY QCsFollow
<1> QED BY <1>1, InvHolds, PTL

(* No replica commits a block without the chain that the commit rule of    *)
(* its protocol asks for.                                                  *)
THEOREM CommitBackedHolds == Spec => []CommitBacked
<1>1. Inv => CommitBacked
  BY CommitsFollow
<1> QED BY <1>1, InvHolds, PTL

(* A replica is locked on what it has committed, and in HotStuff above it, *)
(* in every order of events.  HotStuff's processCertificate moves the lock *)
(* before it commits, in one call, also for a QC that waited in the        *)
(* buffer.  In two-chain HotStuff the proposer skips processCertificate    *)
(* for its own block: it is locked all the same, because the builder of a  *)
(* QC locks before the QC becomes its high QC and leaves it.               *)
THEOREM LockCoversCommitHolds == Spec => []LockCoversCommit
<1>1. Inv => LockCoversCommit
  BY LocksFollow
<1> QED BY <1>1, InvHolds, PTL
=============================================================================
