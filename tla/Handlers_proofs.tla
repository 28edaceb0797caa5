-------------------------- MODULE Handlers_proofs --------------------------
(***************************************************************************)
(* The handlers of the three HotStuff protocols, for every number of       *)
(* replicas and every leader election.                                     *)
(*                                                                         *)
(* A handler is a composition of elementary steps on the state of one      *)
(* replica.  Good is what every elementary step preserves, whatever is     *)
(* done before and after it inside the event; After says so of a step or   *)
(* of a whole handler.  The handlers of a protocol keep After if those     *)
(* they call do (CallOk); Bamboo_proofs closes the circle by induction.    *)
(***************************************************************************)
EXTENDS Bamboo, TLAPS

(* Zenon proves a step that names no prover; SMTT(20) sends one to the SMT solver. *)
USE ZenonT(20)

LeaderOf(c, view) == IF c.master = 0 THEN Rotation(view) ELSE c.master

(* k has the votes and the locks of all replicas at the start of an event. *)
(* These are the votes when replica r is in state s.                       *)
Now(k, r, s) == [k.votes EXCEPT ![r] = s.voted]

(* Enough votes were counted for b, and all of them were cast. *)
Cert(v, b) ==
  b = Genesis \/ \E S \in SUBSET ({b} \X Replicas) :
                   (\A x \in S : b \in v[x[2]]) /\ Cardinality(S) >= ByzNo * 2 + 1

(* What a message promises; a vote goes to the next leader. *)
MsgOk(c, v, m) ==
  /\ m.type = "vote" => m.block \in v[m.node] /\ LeaderOf(c, View(m.block) + 1) = m.to
  /\ m.type = "tmo" => Cert(v, m.highQC)

(* Votes that are counted were cast, and every QC that can be taken from   *)
(* what the replica keeps is certified.                                    *)
QcPart(c, k, r, s) ==
  LET v == Now(k, r, s)
  IN  /\ k.votes[r] \subseteq s.voted
      /\ \A x \in s.bc.votes : x[1] \in v[x[2]]
      /\ Cert(v, s.highQC)
      /\ \A b \in s.bufferedQCs : Cert(v, b)
      /\ \A b \in s.seen : b # Genesis /\ Cert(v, Parent(b))
      /\ s.bufferedBlocks \subseteq s.seen
      /\ s.bc.tree \subseteq s.seen
      /\ \A m \in s.out : MsgOk(c, v, m)

(* The announced views are increasing and not above the current one. *)
Rising(chan, cur) ==
  /\ \A i, j \in 1 .. Len(chan) : i < j => chan[i] < chan[j]
  /\ \A i \in 1 .. Len(chan) : 0 < chan[i] /\ chan[i] <= cur

(* A view that was announced before. *)
Past(chan, cur, v) == v <= cur /\ \A i \in 1 .. Len(chan) : v < chan[i]

(* The replica has seen one block per view, and has proposed only in views *)
(* that were announced before.                                             *)
ViewPart(c, r, s) ==
  /\ Rising(s.pm.newViewChan, s.pm.curView)
  /\ \A a, b \in s.seen : View(a) = View(b) => a = b
  /\ \A b \in s.seen :
       LeaderOf(c, View(b)) = r => Past(s.pm.newViewChan, s.pm.curView, View(b))

(* x heads the blocks of consecutive views that commit it.  d are blocks   *)
(* that are about to be voted for: Fast-HotStuff commits just before.      *)
Backed(c, v, d, s, x) ==
  LET c1 == Append(x, View(x) + 1)
      c2 == Append(c1, View(x) + 2)
  IN  /\ Cert(v, x) /\ Cert(v, c1)
      /\ CASE c.algo = "tchs"         -> c2 \in s.seen
           [] c.algo = "fasthotstuff" -> c2 \in s.voted \cup d
           [] OTHER                   -> Cert(v, c2)

CommitPart(c, k, r, d, s) ==
  /\ \A x \in s.bc.tree : View(x) >= s.bc.lowest
  /\ s.bc.lowest # 0 => \E x \in s.committed : View(x) = s.bc.lowest
  /\ s.committed \subseteq s.seen
  /\ \A b \in s.committed : \E x \in s.committed :
       Extends(x, b) /\ Backed(c, Now(k, r, s), d, s, x)

(* The replica that builds the QCs for blocks of the view of q is locked   *)
(* on the parent of q at least.                                            *)
Held(c, k, r, s, q) ==
  LET h == LeaderOf(c, View(q) + 1)
  IN  View(q) >= 2 =>
        View(Parent(q)) <= IF h = r THEN s.preferredView ELSE k.locks[h]

(* Replica r builds the QC for q itself, or it was published. *)
Sourced(c, k, r, s, q) == LeaderOf(c, View(q) + 1) = r \/ Held(c, k, r, s, q)

(* Where the lock is taken with the commit, it is above what is committed. *)
(* Two-chain HotStuff skips it when the replica receives its own block, so *)
(* there the lock must have been taken before the QC left its builder.     *)
LockPart(c, k, r, s) ==
  /\ c.algo \notin {"tchs", "fasthotstuff"} /\ s.committed # {}
       => s.preferredView > s.bc.lowest
  /\ c.algo = "tchs" =>
       /\ k.locks[r] <= s.preferredView /\ s.bc.lowest <= s.preferredView
       /\ Held(c, k, r, s, s.highQC)
       /\ \A b \in s.seen : Held(c, k, r, s, Parent(b))
       /\ \A q \in s.bufferedQCs : Sourced(c, k, r, s, q)

Good(c, k, r, d, s) ==
  /\ s \in ReplicaState
  /\ k.votes \in [Replicas -> SUBSET Block] /\ k.locks \in [Replicas -> Nat]
  /\ QcPart(c, k, r, s)
  /\ ViewPart(c, r, s)
  /\ CommitPart(c, k, r, d, s)
  /\ LockPart(c, k, r, s)

Proposals(s) == {m \in s.out : m.type = "block"}

(* t is what a step or a handler may make of s. *)
After(k, r, d, s, t) ==
  /\ Good(conf, k, r, d, t)
  /\ t.seen = s.seen
  /\ s.voted \subseteq t.voted
  /\ Proposals(t) = Proposals(s)

-----------------------------------------------------------------------------
(* Blocks *)

(* The first n views of a chain. *)
LEMMA PrefixFacts ==
  ASSUME NEW b \in Block, NEW n \in 0 .. Len(b)
  PROVE  /\ Len(b) \in Nat
         /\ SubSeq(b, 1, n) \in Block
         /\ Len(SubSeq(b, 1, n)) = n
         /\ \A i \in 1 .. n : SubSeq(b, 1, n)[i] = b[i]
<1>1. Len(b) \in Nat /\ \A i \in 1 .. Len(b) : b[i] \in 1 .. MaxView
  BY SMTT(20), ReplicaAssumption DEF Block
<1>2. \A i \in 1 .. n : b[i] \in 1 .. MaxView
  BY SMTT(20), <1>1
<1> QED BY SMTT(20), <1>1, <1>2 DEF Block

(* Every block has a view, a parent, and is made on its parent. *)
LEMMA BlockFacts ==
  ASSUME NEW b \in Block
  PROVE  /\ View(b) \in 0 .. MaxView
         /\ View(b) \in Views
         /\ Parent(b) \in Block
         /\ b # Genesis => View(b) \in 1 .. MaxView
         /\ b # Genesis => b = Append(Parent(b), View(b))
<1>0. MaxView \in Nat /\ b \in Seq(1 .. MaxView)
  BY ReplicaAssumption DEF Block
<1>1. CASE b = Genesis
  <2>1. Parent(b) = << >>
    BY SMTT(20), <1>1 DEF Genesis, Parent
  <2>2. Parent(b) \in Block
    BY SMTT(20), <2>1 DEF Block
  <2> QED BY SMTT(20), <1>0, <1>1, <2>2 DEF View, Views
<1>2. CASE b # Genesis
  <2>1. Len(b) \in Nat \ {0}
    BY SMTT(20), <1>0, <1>2 DEF Genesis
  <2>2. Len(b) - 1 \in 0 .. Len(b)
    BY SMTT(20), <2>1
  <2>3. /\ Parent(b) \in Block /\ Len(Parent(b)) = Len(b) - 1
        /\ \A i \in 1 .. Len(b) - 1 : Parent(b)[i] = b[i]
    BY <2>2, PrefixFacts DEF Parent
  <2>4. View(b) = b[Len(b)] /\ b[Len(b)] \in 1 .. MaxView
    BY SMTT(20), <1>0, <1>2, <2>1 DEF View
  <2>5. /\ Append(Parent(b), View(b)) \in Seq(1 .. MaxView)
        /\ Len(Append(Parent(b), View(b))) = Len(b)
        /\ \A i \in 1 .. Len(b) : Append(Parent(b), View(b))[i] = b[i]
    BY SMTT(20), <2>1, <2>3, <2>4 DEF Block
  <2>6. b = Append(Parent(b), View(b))
    BY SMTT(20), <1>0, <2>5
  <2> QED BY SMTT(20), <1>0, <2>3, <2>4, <2>6 DEF Views
<1> QED BY <1>1, <1>2

(* A block made on a. *)
LEMMA AppendFacts ==
  ASSUME NEW a \in Block, NEW v \in 1 .. MaxView
  PROVE  /\ Append(a, v) \in Block
         /\ Append(a, v) # Genesis
         /\ Parent(Append(a, v)) = a
         /\ View(Append(a, v)) = v
<1>1. a \in Seq(1 .. MaxView) /\ MaxView \in Nat
  BY ReplicaAssumption DEF Block
<1> QED BY SMTT(20), <1>1 DEF Block, Parent, View, Genesis

(* A block extends every block of its chain, and is one of them. *)
LEMMA PrefixesFacts ==
  ASSUME NEW b \in Block
  PROVE  /\ \A p \in Prefixes(b) : p \in Block /\ Extends(b, p) /\ Len(p) <= Len(b)
         /\ b # Genesis => b \in Prefixes(b)
         /\ \A p \in Prefixes(b) : Len(p) >= Len(b) => p = b
<1>0. b \in Seq(1 .. MaxView) /\ Len(b) \in Nat
  BY SMTT(20) DEF Block
<1>1. SubSeq(b, 1, Len(b)) = b
  BY SMTT(20), <1>0
<1>2. \A n \in 1 .. Len(b) : /\ SubSeq(b, 1, n) \in Block
                             /\ Len(SubSeq(b, 1, n)) = n
                             /\ n \in Nat /\ n <= Len(b)
  BY SMTT(20), <1>0, PrefixFacts
<1>3. \A p \in Prefixes(b) : p \in Block /\ Extends(b, p) /\ Len(p) <= Len(b)
  BY <1>2 DEF Prefixes, Extends
<1>4. b # Genesis => b \in Prefixes(b)
  <2> SUFFICES ASSUME b # Genesis PROVE b \in Prefixes(b)
    OBVIOUS
  <2>1. Len(b) \in 1 .. Len(b)
    BY SMTT(20), <1>0 DEF Genesis
  <2> QED BY <1>1, <2>1 DEF Prefixes
<1>5. \A p \in Prefixes(b) : Len(p) >= Len(b) => p = b
  BY SMTT(20), <1>0, <1>1, <1>2 DEF Prefixes
<1> QED BY <1>3, <1>4, <1>5

-----------------------------------------------------------------------------
(* Elementary steps *)

(* The fields of the state of a replica. *)
LEMMA StateFacts ==
  ASSUME NEW s \in ReplicaState
  PROVE  /\ s.pm \in [curView : Views, newViewChan : Seq(Views),
                      timeouts : [Views -> SUBSET Replicas],
                      viewChanges : [Views -> SUBSET Replicas]]
         /\ s.pm.curView \in Views /\ s.pm.newViewChan \in Seq(Views)
         /\ s.pm.timeouts \in [Views -> SUBSET Replicas]
         /\ s.pm.viewChanges \in [Views -> SUBSET Replicas]
         /\ s.bc \in [tree : SUBSET Block, lowest : 0 .. MaxView,
                      votes : SUBSET (Block \X Replicas)]
         /\ s.bc.tree \subseteq Block /\ s.bc.lowest \in 0 .. MaxView
         /\ s.bc.votes \subseteq Block \X Replicas
         /\ s.preferredView \in 0 .. MaxView /\ s.highQC \in Block
         /\ s.bufferedBlocks \subseteq Block /\ s.bufferedQCs \subseteq Block
         /\ s.recivedVMO \subseteq Views /\ s.recivedBlock \subseteq Views
         /\ s.committed \subseteq Block /\ s.forked \subseteq Block
         /\ s.seen \subseteq Block /\ s.voted \subseteq Block
         /\ s.out \subseteq Message
  BY DEF ReplicaState

(* What is held stays held when the lock moves up. *)
LEMMA HeldStays ==
  ASSUME NEW k, NEW r, NEW s \in ReplicaState, NEW t \in ReplicaState,
         t.preferredView = s.preferredView \/ t.preferredView > s.preferredView,
         NEW q \in Block
  PROVE  /\ Held(conf, k, r, s, q) => Held(conf, k, r, t, q)
         /\ Sourced(conf, k, r, s, q) => Sourced(conf, k, r, t, q)
<1>1. s.preferredView \in Nat /\ t.preferredView \in Nat
  BY SMTT(20), StateFacts
<1>2. View(Parent(q)) \in Nat
  BY SMTT(20), BlockFacts
<1>3. Held(conf, k, r, s, q) => Held(conf, k, r, t, q)
  BY SMTT(20), <1>1, <1>2 DEF Held
<1> QED BY <1>3 DEF Sourced

(* The lock moves up, or QCs are removed. *)
LEMMA LockStays ==
  ASSUME NEW k, NEW r, NEW s \in ReplicaState, NEW t \in ReplicaState,
         LockPart(conf, k, r, s), k.locks[r] \in Nat,
         t.preferredView = s.preferredView \/ t.preferredView > s.preferredView,
         t.bc.lowest = s.bc.lowest, t.committed = s.committed,
         t.highQC = s.highQC, t.seen = s.seen, t.bufferedQCs \subseteq s.bufferedQCs
  PROVE  LockPart(conf, k, r, t)
<1>1. /\ s.preferredView \in Nat /\ t.preferredView \in Nat /\ s.bc.lowest \in Nat
      /\ s.highQC \in Block /\ s.seen \subseteq Block /\ s.bufferedQCs \subseteq Block
  BY SMTT(20), StateFacts
<1>2. \A b \in s.seen : Parent(b) \in Block
  BY <1>1, BlockFacts
<1>3. ASSUME NEW q \in Block
      PROVE  /\ Held(conf, k, r, s, q) => Held(conf, k, r, t, q)
             /\ Sourced(conf, k, r, s, q) => Sourced(conf, k, r, t, q)
  BY HeldStays
<1>4. /\ conf.algo = "tchs" => Held(conf, k, r, t, t.highQC)
      /\ conf.algo = "tchs" => \A b \in t.seen : Held(conf, k, r, t, Parent(b))
      /\ conf.algo = "tchs" => \A q \in t.bufferedQCs : Sourced(conf, k, r, t, q)
  BY <1>1, <1>2, <1>3 DEF LockPart
<1> QED BY SMTT(20), <1>1, <1>4 DEF LockPart

(* A step that changes nothing Good speaks of, but for removing QCs and    *)
(* for what is buffered among the blocks that arrived.                     *)
LEMMA InertStep ==
  ASSUME NEW k, NEW r \in Replicas, NEW d, NEW s, NEW t \in ReplicaState,
         Good(conf, k, r, d, s),
         t.pm.curView = s.pm.curView, t.pm.newViewChan = s.pm.newViewChan,
         t.bc = s.bc, t.highQC = s.highQC,
         t.preferredView = s.preferredView \/ t.preferredView > s.preferredView,
         t.bufferedQCs \subseteq s.bufferedQCs, t.bufferedBlocks \subseteq s.seen,
         t.committed = s.committed, t.seen = s.seen, t.voted = s.voted, t.out = s.out
  PROVE  After(k, r, d, s, t)
<1>1. Now(k, r, t) = Now(k, r, s)
  BY DEF Now
<1>2. QcPart(conf, k, r, t)
  BY <1>1 DEF Good, QcPart
<1>3. ViewPart(conf, r, t)
  BY DEF Good, ViewPart
<1>4. CommitPart(conf, k, r, d, t)
  BY <1>1 DEF Good, CommitPart, Backed
<1>5. LockPart(conf, k, r, t)
  BY LockStays DEF Good
<1> QED BY <1>2, <1>3, <1>4, <1>5 DEF Good, After, Proposals

(* A certified QC becomes the highest one or waits for its block. *)
LEMMA QcStep ==
  ASSUME NEW k, NEW r \in Replicas, NEW d, NEW s, NEW t \in ReplicaState,
         Good(conf, k, r, d, s),
         NEW qc \in Block, Cert(Now(k, r, s), qc),
         \/ t.highQC = s.highQC
         \/ t.highQC = qc /\ (conf.algo = "tchs" => Held(conf, k, r, s, qc)),
         \/ t.bufferedQCs = s.bufferedQCs
         \/ /\ t.bufferedQCs = s.bufferedQCs \cup {qc}
            /\ conf.algo = "tchs" => Sourced(conf, k, r, s, qc),
         t.pm = s.pm, t.bc = s.bc, t.bufferedBlocks = s.bufferedBlocks,
         t.committed = s.committed, t.preferredView = s.preferredView,
         t.seen = s.seen, t.voted = s.voted, t.out = s.out
  PROVE  After(k, r, d, s, t)
<1>1. Now(k, r, t) = Now(k, r, s)
  BY DEF Now
<1>2. QcPart(conf, k, r, t)
  BY <1>1 DEF Good, QcPart
<1>3. ViewPart(conf, r, t)
  BY DEF Good, ViewPart
<1>4. CommitPart(conf, k, r, d, t)
  BY <1>1 DEF Good, CommitPart, Backed
<1>5. LockPart(conf, k, r, t)
  <2>1. \A x : Held(conf, k, r, t, x) = Held(conf, k, r, s, x)
    BY DEF Held
  <2>2. \A x : Sourced(conf, k, r, t, x) = Sourced(conf, k, r, s, x)
    BY <2>1 DEF Sourced
  <2>3. LockPart(conf, k, r, s)
    BY DEF Good
  <2> QED BY <2>1, <2>2, <2>3 DEF LockPart
<1> QED BY <1>2, <1>3, <1>4, <1>5 DEF Good, After, Proposals

(* Messages other than proposals are sent. *)
LEMMA OutStep ==
  ASSUME NEW k, NEW r \in Replicas, NEW d, NEW s, NEW t \in ReplicaState,
         Good(conf, k, r, d, s),
         NEW msgs, t.out = s.out \cup msgs,
         \A m \in msgs : m.type # "block" /\ MsgOk(conf, Now(k, r, s), m),
         t.pm = s.pm, t.bc = s.bc, t.highQC = s.highQC,
         t.bufferedQCs = s.bufferedQCs, t.bufferedBlocks = s.bufferedBlocks,
         t.committed = s.committed, t.preferredView = s.preferredView,
         t.seen = s.seen, t.voted = s.voted
  PROVE  After(k, r, d, s, t)
<1>1. Now(k, r, t) = Now(k, r, s)
  BY DEF Now
<1>2. QcPart(conf, k, r, t)
  BY <1>1 DEF Good, QcPart
<1>3. ViewPart(conf, r, t)
  BY DEF Good, ViewPart
<1>4. CommitPart(conf, k, r, d, t)
  BY <1>1 DEF Good, CommitPart, Backed
<1>5. LockPart(conf, k, r, t)
  BY LockStays DEF Good
<1>6. Proposals(t) = Proposals(s)
  BY DEF Proposals
<1> QED BY <1>2, <1>3, <1>4, <1>5, <1>6 DEF Good, After

(* Every view a replica talks about has a leader. *)
ConfOK == conf.master \in 0 .. N

(* Every view has a leader among the replicas. *)
LEMMA LeaderFacts ==
  ASSUME ConfOK, NEW view \in 0 .. MaxView + 3
  PROVE  FindLeaderFor(view) \in Replicas /\ FindLeaderFor(view) = LeaderOf(conf, view)
<1>1. /\ N \in Nat \ {0} /\ MaxView \in Nat
      /\ HashLeader \in [4 .. MaxView + 3 -> Replicas]
  BY ReplicaAssumption
<1>2. conf.master \in 0 .. N
  BY DEF ConfOK
<1>3. Rotation(view) \in Replicas
  BY SMTT(20), <1>1 DEF Rotation, Replicas
<1> QED BY SMTT(20), <1>1, <1>2, <1>3 DEF FindLeaderFor, LeaderOf, Static, Replicas

(* The certified blocks only become more. *)
LEMMA CertMonotone ==
  ASSUME NEW v, NEW w, \A q \in Replicas : v[q] \subseteq w[q], NEW b, Cert(v, b)
  PROVE  Cert(w, b)
  BY DEF Cert

(* A message that was good stays good. *)
LEMMA MsgMonotone ==
  ASSUME NEW v, NEW w, \A q \in Replicas : v[q] \subseteq w[q],
         NEW m \in Message, MsgOk(conf, v, m)
  PROVE  MsgOk(conf, w, m)
<1>1. m.type = "vote" => m.node \in Replicas
  BY DEF Message
<1>2. m.type = "tmo" => Cert(w, m.highQC)
  BY CertMonotone DEF MsgOk
<1> QED BY <1>1, <1>2 DEF MsgOk

(* The announced views stay increasing when a higher one is announced. *)
LEMMA AnnounceFacts ==
  ASSUME NEW chan \in Seq(Views), NEW cur \in Views, NEW v \in Views, cur < v,
         Rising(chan, cur)
  PROVE  /\ Rising(Append(chan, v), v)
         /\ \A w \in Nat : Past(chan, cur, w) => Past(Append(chan, v), v, w)
<1>0. Views \subseteq Nat
  BY SMTT(20), ReplicaAssumption DEF Views
<1> DEFINE next == Append(chan, v)
<1>1. /\ Len(chan) \in Nat /\ Len(next) = Len(chan) + 1 /\ next[Len(chan) + 1] = v
      /\ \A i \in 1 .. Len(chan) : next[i] = chan[i] /\ chan[i] \in Nat
      /\ cur \in Nat /\ v \in Nat
  <2>1. /\ Len(next) = Len(chan) + 1 /\ next[Len(chan) + 1] = v
        /\ \A i \in 1 .. Len(chan) : next[i] = chan[i]
    BY SMTT(20)
  <2>2. Len(chan) \in Nat /\ \A i \in 1 .. Len(chan) : chan[i] \in Views
    BY SMTT(20)
  <2> HIDE DEF next
  <2> QED BY <1>0, <2>1, <2>2
<1> HIDE DEF next
<1>2. \A i \in 1 .. Len(next) : i \in 1 .. Len(chan) \/ i = Len(chan) + 1
  BY SMTT(20), <1>1
<1>3. /\ \A i, j \in 1 .. Len(chan) : i < j => chan[i] < chan[j]
      /\ \A i \in 1 .. Len(chan) : 0 < chan[i] /\ chan[i] <= cur
  BY DEF Rising
<1>4. \A i \in 1 .. Len(chan) : 0 < next[i] /\ next[i] < v /\ next[i] \in Nat
  BY SMTT(20), <1>1, <1>3
<1>5. \A i \in 1 .. Len(next) : 0 < next[i] /\ next[i] <= v
  BY SMTT(20), <1>1, <1>2, <1>4
<1>6. \A i, j \in 1 .. Len(next) : i < j => next[i] < next[j]
  <2> SUFFICES ASSUME NEW i \in 1 .. Len(next), NEW j \in 1 .. Len(next), i < j
               PROVE  next[i] < next[j]
    OBVIOUS
  <2>1. i \in 1 .. Len(chan)
    BY SMTT(20), <1>1, <1>2
  <2>2. CASE j = Len(chan) + 1
    BY <1>1, <1>4, <2>1, <2>2
  <2>3. CASE j \in 1 .. Len(chan)
    BY <1>1, <1>3, <2>1, <2>3
  <2> QED BY <1>2, <2>2, <2>3
<1>7. ASSUME NEW w \in Nat, Past(chan, cur, w)
      PROVE  Past(next, v, w)
  BY SMTT(20), <1>1, <1>2, <1>7 DEF Past
<1> QED BY <1>5, <1>6, <1>7 DEF Rising, next

(* A step of the pacemaker announces a view above the current one. *)
LEMMA AnnounceStep ==
  ASSUME NEW k, NEW r \in Replicas, NEW d, NEW s, NEW t \in ReplicaState,
         Good(conf, k, r, d, s),
         NEW v \in Views, s.pm.curView < v,
         t.pm.curView = v, t.pm.newViewChan = Append(s.pm.newViewChan, v),
         t.bc = s.bc, t.highQC = s.highQC,
         t.bufferedQCs = s.bufferedQCs, t.bufferedBlocks = s.bufferedBlocks,
         t.committed = s.committed, t.preferredView = s.preferredView,
         t.seen = s.seen, t.voted = s.voted, t.out = s.out
  PROVE  After(k, r, d, s, t)
<1>1. Now(k, r, t) = Now(k, r, s)
  BY DEF Now
<1>2. QcPart(conf, k, r, t)
  BY <1>1 DEF Good, QcPart
<1>3. ViewPart(conf, r, t)
  <2>1. s.pm.curView \in Views /\ s.pm.newViewChan \in Seq(Views) /\ s.seen \subseteq Block
    BY StateFacts DEF Good
  <2>2. ViewPart(conf, r, s)
    BY DEF Good
  <2>3. \A b \in s.seen : View(b) \in Nat
    BY SMTT(20), <2>1, BlockFacts
  <2>4. /\ Rising(t.pm.newViewChan, t.pm.curView)
        /\ \A w \in Nat : Past(s.pm.newViewChan, s.pm.curView, w)
                           => Past(t.pm.newViewChan, t.pm.curView, w)
    BY <2>1, <2>2, AnnounceFacts DEF ViewPart
  <2> QED BY <2>2, <2>3, <2>4 DEF ViewPart
<1>4. CommitPart(conf, k, r, d, t)
  BY <1>1 DEF Good, CommitPart, Backed
<1>5. LockPart(conf, k, r, t)
  BY LockStays DEF Good
<1> QED BY <1>2, <1>3, <1>4, <1>5 DEF Good, After, Proposals

(* AdvanceView enters the next view and announces it, or does nothing. *)
LEMMA AdvanceStep ==
  ASSUME NEW k, NEW r \in Replicas, NEW d, NEW s, Good(conf, k, r, d, s), NEW view \in Views
  PROVE  After(k, r, d, s, Advance(s, view))
<1>0. s \in ReplicaState /\ MaxView \in Nat /\ s.pm.curView \in Views
  BY ReplicaAssumption, StateFacts DEF Good
<1>1. CASE view > MaxView + 1 \/ view < s.pm.curView
  <2>1. Advance(s, view) = s
    BY <1>0, <1>1 DEF Advance, PM!AdvanceView, ReplicaState
  <2> QED BY <2>1 DEF After
<1>2. CASE ~(view > MaxView + 1 \/ view < s.pm.curView)
  <2> DEFINE p == [s.pm EXCEPT !.curView = view + 1, !.newViewChan = Append(@, view + 1)]
             t == [s EXCEPT !.pm = p]
  <2>1. Advance(s, view) = t
    BY <1>2 DEF Advance, PM!AdvanceView
  <2>2. view + 1 \in Views /\ view + 1 \in Nat /\ s.pm.curView < view + 1
    BY SMTT(20), <1>0, <1>2 DEF Views
  <2>3. Append(s.pm.newViewChan, view + 1) \in Seq(Views)
    BY SMTT(20), <1>0, <2>2, StateFacts
  <2>4. p \in [curView : Views, newViewChan : Seq(Views),
               timeouts : [Views -> SUBSET Replicas],
               viewChanges : [Views -> SUBSET Replicas]]
    BY <1>0, <2>2, <2>3, StateFacts
  <2>5. p.curView = view + 1 /\ p.newViewChan = Append(s.pm.newViewChan, view + 1)
    BY <1>0, StateFacts
  <2> HIDE DEF p
  <2>6. t \in ReplicaState
    BY <1>0, <2>4 DEF ReplicaState
  <2>7. /\ t.pm = p /\ t.bc = s.bc /\ t.highQC = s.highQC
        /\ t.bufferedQCs = s.bufferedQCs /\ t.bufferedBlocks = s.bufferedBlocks
        /\ t.committed = s.committed /\ t.preferredView = s.preferredView
        /\ t.seen = s.seen /\ t.voted = s.voted /\ t.out = s.out
    BY <1>0 DEF ReplicaState
  <2> HIDE DEF t
  <2>8. t.pm.curView = view + 1 /\ t.pm.newViewChan = Append(s.pm.newViewChan, view + 1)
    BY <2>5, <2>7
  <2>9. After(k, r, d, s, t)
    BY <2>2, <2>6, <2>7, <2>8, AnnounceStep
  <2> QED BY <2>1, <2>9
<1> QED BY <1>1, <1>2

(* Steps follow one another. *)
LEMMA AfterSelf ==
  ASSUME NEW k, NEW r, NEW d, NEW s, Good(conf, k, r, d, s)
  PROVE  After(k, r, d, s, s)
  BY DEF After

(* What a step leaves is good. *)
LEMMA AfterGood ==
  ASSUME NEW k, NEW r, NEW d, NEW s, NEW t, After(k, r, d, s, t)
  PROVE  Good(conf, k, r, d, t) /\ t.seen = s.seen
  BY DEF After

(* Steps compose; d may shrink when the vote that it stands for is cast. *)
LEMMA AfterTrans ==
  ASSUME NEW k, NEW r, NEW d, NEW e, NEW s, NEW t, NEW u,
         After(k, r, e, s, t), After(k, r, d, t, u)
  PROVE  After(k, r, d, s, u)
  BY DEF After

(* One field of the state is replaced by another value of its type. *)
LEMMA UpdateType ==
  ASSUME NEW s \in ReplicaState
  PROVE  /\ \A x \in SUBSET Block :
              /\ [s EXCEPT !.bufferedBlocks = x] \in ReplicaState
              /\ [s EXCEPT !.bufferedQCs = x] \in ReplicaState
              /\ [s EXCEPT !.seen = x] \in ReplicaState
              /\ [s EXCEPT !.voted = x] \in ReplicaState
         /\ \A x \in Block : [s EXCEPT !.highQC = x] \in ReplicaState
         /\ \A x \in 0 .. MaxView : [s EXCEPT !.preferredView = x] \in ReplicaState
         /\ \A x \in SUBSET Message : [s EXCEPT !.out = x] \in ReplicaState
         /\ \A x \in SUBSET Views :
              /\ [s EXCEPT !.recivedVMO = x] \in ReplicaState
              /\ [s EXCEPT !.recivedBlock = x] \in ReplicaState
  BY ZenonT(40) DEF ReplicaState

(* The QC is buffered. *)
LEMMA BufferQCStep ==
  ASSUME NEW k, NEW r \in Replicas, NEW d, NEW s, Good(conf, k, r, d, s),
         NEW qc \in Block, Cert(Now(k, r, s), qc),
         conf.algo = "tchs" => Sourced(conf, k, r, s, qc)
  PROVE  After(k, r, d, s, BufferQC(s, qc))
<1>1. s \in ReplicaState /\ s.bufferedQCs \cup {qc} \in SUBSET Block
  BY StateFacts DEF Good
<1>2. BufferQC(s, qc) \in ReplicaState
  BY <1>1, UpdateType DEF BufferQC
<1> QED BY <1>1, <1>2, QcStep DEF BufferQC, ReplicaState

(* The highest QC is replaced by a higher one. *)
LEMMA HighQCStep ==
  ASSUME NEW k, NEW r \in Replicas, NEW d, NEW s, Good(conf, k, r, d, s),
         NEW qc \in Block, Cert(Now(k, r, s), qc),
         conf.algo = "tchs" => Held(conf, k, r, s, qc)
  PROVE  After(k, r, d, s, updateHighQC(s, qc))
<1>1. s \in ReplicaState
  BY DEF Good
<1>2. [s EXCEPT !.highQC = qc] \in ReplicaState
  BY <1>1, UpdateType
<1>3. After(k, r, d, s, [s EXCEPT !.highQC = qc])
  BY <1>1, <1>2, QcStep DEF ReplicaState
<1> QED BY <1>3, AfterSelf DEF updateHighQC

(* The lock moves. *)
LEMMA LockStep ==
  ASSUME NEW k, NEW r \in Replicas, NEW d, NEW s, Good(conf, k, r, d, s),
         NEW v \in 0 .. MaxView, v > s.preferredView
  PROVE  After(k, r, d, s, [s EXCEPT !.preferredView = v])
<1>1. s \in ReplicaState
  BY DEF Good
<1>2. [s EXCEPT !.preferredView = v] \in ReplicaState
  BY <1>1, UpdateType
<1>3. s.bufferedBlocks \subseteq s.seen
  BY DEF Good, QcPart
<1> QED BY <1>1, <1>2, <1>3, InertStep DEF ReplicaState

(* A QC is taken out of the buffer. *)
LEMMA DropQCStep ==
  ASSUME NEW k, NEW r \in Replicas, NEW d, NEW s, Good(conf, k, r, d, s), NEW qc
  PROVE  After(k, r, d, s, [s EXCEPT !.bufferedQCs = @ \ {qc}])
<1>1. s \in ReplicaState /\ s.bufferedQCs \ {qc} \in SUBSET Block
  BY StateFacts DEF Good
<1>2. [s EXCEPT !.bufferedQCs = s.bufferedQCs \ {qc}] \in ReplicaState
  BY <1>1, UpdateType
<1>3. s.bufferedBlocks \subseteq s.seen
  BY DEF Good, QcPart
<1> QED BY <1>1, <1>2, <1>3, InertStep DEF ReplicaState

(* A block is buffered, or the one of its view is taken out. *)
LEMMA BufferStep ==
  ASSUME NEW k, NEW r \in Replicas, NEW d, NEW s, Good(conf, k, r, d, s)
  PROVE  /\ \A b \in s.seen : After(k, r, d, s, Buffer(s, b))
         /\ \A view : After(k, r, d, s, Unbuffer(s, view))
<1>1. /\ s \in ReplicaState /\ s.seen \subseteq Block
      /\ s.bufferedBlocks \subseteq s.seen
  BY StateFacts DEF Good, QcPart
<1>2. ASSUME NEW x \in SUBSET s.seen
      PROVE  After(k, r, d, s, [s EXCEPT !.bufferedBlocks = x])
  <2>1. [s EXCEPT !.bufferedBlocks = x] \in ReplicaState
    BY <1>1, UpdateType
  <2> QED BY <1>1, <2>1, InertStep DEF ReplicaState
<1>3. \A view : s.bufferedBlocks \ Buffered(s, view) \in SUBSET s.seen
  BY <1>1
<1>4. \A b \in s.seen :
        (s.bufferedBlocks \ Buffered(s, View(b))) \cup {b} \in SUBSET s.seen
  BY <1>1
<1> QED BY <1>2, <1>3, <1>4 DEF Buffer, Unbuffer

(* The block that waits for its view. *)
LEMMA WaitingFacts ==
  ASSUME NEW k, NEW r \in Replicas, NEW d, NEW s, Good(conf, k, r, d, s),
         NEW view, Buffered(s, view) # {}
  PROVE  Waiting(s, view) \in Block /\ Waiting(s, view) \in s.seen
<1>1. Waiting(s, view) \in Buffered(s, view)
  BY DEF Waiting
<1> QED BY <1>1, StateFacts DEF Good, QcPart, Buffered

(* A VMO or the view of a block is stored. *)
LEMMA StoreViewStep ==
  ASSUME NEW k, NEW r \in Replicas, NEW d, NEW s, Good(conf, k, r, d, s),
         NEW view \in Views
  PROVE  /\ After(k, r, d, s, [s EXCEPT !.recivedVMO = @ \cup {view}])
         /\ After(k, r, d, s, [s EXCEPT !.recivedBlock = @ \cup {view}])
<1>1. /\ s \in ReplicaState /\ s.bufferedBlocks \subseteq s.seen
      /\ s.recivedVMO \cup {view} \in SUBSET Views
      /\ s.recivedBlock \cup {view} \in SUBSET Views
  BY StateFacts DEF Good, QcPart
<1>2. /\ [s EXCEPT !.recivedVMO = s.recivedVMO \cup {view}] \in ReplicaState
      /\ [s EXCEPT !.recivedBlock = s.recivedBlock \cup {view}] \in ReplicaState
  BY <1>1, UpdateType
<1>3. After(k, r, d, s, [s EXCEPT !.recivedVMO = s.recivedVMO \cup {view}])
  BY <1>1, <1>2, InertStep DEF ReplicaState
<1>4. After(k, r, d, s, [s EXCEPT !.recivedBlock = s.recivedBlock \cup {view}])
  BY <1>1, <1>2, InertStep DEF ReplicaState
<1> QED BY <1>3, <1>4

(* The VMO and the block of a view are forgotten. *)
LEMMA ForgetStep ==
  ASSUME NEW k, NEW r \in Replicas, NEW d, NEW s, Good(conf, k, r, d, s), NEW view
  PROVE  After(k, r, d, s, [s EXCEPT !.recivedVMO = @ \ {view},
                                     !.recivedBlock = @ \ {view}])
<1>1. /\ s \in ReplicaState /\ s.bufferedBlocks \subseteq s.seen
      /\ s.recivedVMO \ {view} \in SUBSET Views
      /\ s.recivedBlock \ {view} \in SUBSET Views
  BY StateFacts DEF Good, QcPart
<1> DEFINE t == [s EXCEPT !.recivedVMO = s.recivedVMO \ {view}]
           u == [t EXCEPT !.recivedBlock = s.recivedBlock \ {view}]
<1>2. t \in ReplicaState
  BY <1>1, UpdateType
<1>3. After(k, r, d, s, t)
  BY <1>1, <1>2, InertStep DEF ReplicaState
<1>4. t.recivedBlock = s.recivedBlock
  BY <1>1 DEF ReplicaState
<1> HIDE DEF t
<1>5. Good(conf, k, r, d, t) /\ t.bufferedBlocks \subseteq t.seen
  BY <1>3 DEF After, Good, QcPart
<1>6. u \in ReplicaState
  BY <1>1, <1>2, UpdateType
<1>7. After(k, r, d, t, u)
  BY <1>2, <1>5, <1>6, InertStep DEF ReplicaState
<1>8. u = [s EXCEPT !.recivedVMO = @ \ {view}, !.recivedBlock = @ \ {view}]
  BY <1>4 DEF t
<1> QED BY SMTT(20), <1>3, <1>7, <1>8, AfterTrans

(* Votes, TMOs or VMOs are sent. *)
LEMMA PostStep ==
  ASSUME NEW k, NEW r \in Replicas, NEW d, NEW s, Good(conf, k, r, d, s),
         NEW msgs \in SUBSET Message,
         \A m \in msgs : m.type # "block" /\ MsgOk(conf, Now(k, r, s), m)
  PROVE  After(k, r, d, s, [s EXCEPT !.out = @ \cup msgs])
<1>1. s \in ReplicaState /\ s.out \cup msgs \in SUBSET Message
  BY StateFacts DEF Good
<1>2. [s EXCEPT !.out = s.out \cup msgs] \in ReplicaState
  BY <1>1, UpdateType
<1> QED BY <1>1, <1>2, OutStep DEF ReplicaState

(* A message other than a block is sent. *)
LEMMA SendStep ==
  ASSUME NEW k, NEW r \in Replicas, NEW d, NEW s, Good(conf, k, r, d, s),
         NEW m \in Message, m.type # "block", MsgOk(conf, Now(k, r, s), m)
  PROVE  After(k, r, d, s, Send(s, m))
  BY PostStep DEF Send

(* The copy of a message for replica q. *)
LEMMA CopyFacts ==
  ASSUME NEW v, NEW m \in Message, m.type # "vote", MsgOk(conf, v, m), NEW q \in Replicas
  PROVE  /\ [m EXCEPT !.to = q] \in Message
         /\ MsgOk(conf, v, [m EXCEPT !.to = q])
         /\ [m EXCEPT !.to = q].type = m.type
<1>1. CASE m \in [type : {"block"}, to : Replicas, view : Views, block : Block]
  BY <1>1 DEF Message, MsgOk
<1>2. CASE m \in [type : {"vote"}, to : Replicas, view : Views, block : Block,
                  node : Replicas]
  BY <1>2 DEF Message, MsgOk
<1>3. CASE m \in [type : {"tmo"}, to : Replicas, view : Views, highQC : Block,
                  node : Replicas]
  BY <1>3 DEF Message, MsgOk
<1>4. CASE m \in [type : {"vmo"}, to : Replicas, view : Views, node : Replicas]
  BY <1>4 DEF Message, MsgOk
<1> QED BY <1>1, <1>2, <1>3, <1>4 DEF Message

(* A copy of a TMO or a VMO is sent to every other replica. *)
LEMMA BroadcastStep ==
  ASSUME NEW k, NEW r \in Replicas, NEW d, NEW s, Good(conf, k, r, d, s),
         NEW m \in Message, m.type \notin {"block", "vote"}, MsgOk(conf, Now(k, r, s), m)
  PROVE  After(k, r, d, s, Broadcast(r, s, m))
<1> DEFINE msgs == {[m EXCEPT !.to = q] : q \in Replicas \ {r}}
<1>1. ASSUME NEW q \in Replicas
      PROVE  /\ [m EXCEPT !.to = q] \in Message /\ [m EXCEPT !.to = q].type # "block"
             /\ MsgOk(conf, Now(k, r, s), [m EXCEPT !.to = q])
  BY CopyFacts
<1>2. /\ msgs \in SUBSET Message
      /\ \A x \in msgs : x.type # "block" /\ MsgOk(conf, Now(k, r, s), x)
  BY <1>1
<1> HIDE DEF msgs
<1>3. After(k, r, d, s, [s EXCEPT !.out = @ \cup msgs])
  BY <1>2, PostStep
<1> QED BY <1>3 DEF Broadcast, msgs

(* The messages of a replica. *)
LEMMA MessageFacts ==
  ASSUME NEW to \in Replicas, NEW r \in Replicas, NEW b \in Block, NEW v \in Views
  PROVE  /\ BlockMsg(to, b) \in Message /\ BlockMsg(to, b).type = "block"
         /\ BlockMsg(to, b).block = b
         /\ VoteMsg(to, b, r) \in Message /\ VoteMsg(to, b, r).type = "vote"
         /\ VoteMsg(to, b, r).block = b /\ VoteMsg(to, b, r).node = r
         /\ TmoMsg(to, v, b, r) \in Message /\ TmoMsg(to, v, b, r).type = "tmo"
         /\ TmoMsg(to, v, b, r).highQC = b
         /\ VmoMsg(to, v, r) \in Message /\ VmoMsg(to, v, r).type = "vmo"
<1>1. View(b) \in Views
  BY BlockFacts
<1> QED BY <1>1 DEF Message, BlockMsg, VoteMsg, TmoMsg, VmoMsg

(* A replica that has seen no view joins view 1. *)
LEMMA JoinStep ==
  ASSUME NEW k, NEW r \in Replicas, NEW d, NEW s, Good(conf, k, r, d, s)
  PROVE  After(k, r, d, s, JoinFirstView(s))
<1>1. 0 \in Views
  BY SMTT(20), ReplicaAssumption DEF Views
<1> QED BY <1>1, AdvanceStep, AfterSelf DEF JoinFirstView

(* The counters of the pacemaker change. *)
LEMMA CountStep ==
  ASSUME NEW k, NEW r \in Replicas, NEW d, NEW s, Good(conf, k, r, d, s),
         NEW x \in [Views -> SUBSET Replicas]
  PROVE  /\ After(k, r, d, s, [s EXCEPT !.pm = [s.pm EXCEPT !.timeouts = x]])
         /\ After(k, r, d, s, [s EXCEPT !.pm = [s.pm EXCEPT !.viewChanges = x]])
<1>1. s \in ReplicaState /\ s.bufferedBlocks \subseteq s.seen
  BY DEF Good, QcPart
<1>2. ASSUME NEW p \in [curView : Views, newViewChan : Seq(Views),
                        timeouts : [Views -> SUBSET Replicas],
                        viewChanges : [Views -> SUBSET Replicas]],
             p.curView = s.pm.curView, p.newViewChan = s.pm.newViewChan
      PROVE  After(k, r, d, s, [s EXCEPT !.pm = p])
  <2>1. [s EXCEPT !.pm = p] \in ReplicaState
    BY <1>1 DEF ReplicaState
  <2>2. [s EXCEPT !.pm = p].pm = p
    BY <1>1 DEF ReplicaState
  <2> QED BY <1>1, <1>2, <2>1, <2>2, InertStep DEF ReplicaState
<1>3. s.pm \in [curView : Views, newViewChan : Seq(Views),
                timeouts : [Views -> SUBSET Replicas],
                viewChanges : [Views -> SUBSET Replicas]]
  BY <1>1, StateFacts
<1>4. After(k, r, d, s, [s EXCEPT !.pm = [s.pm EXCEPT !.timeouts = x]])
  <2>1. [s.pm EXCEPT !.timeouts = x] \in [curView : Views, newViewChan : Seq(Views),
                        timeouts : [Views -> SUBSET Replicas],
                        viewChanges : [Views -> SUBSET Replicas]]
    BY <1>3
  <2> QED BY <1>2, <1>3, <2>1
<1>5. After(k, r, d, s, [s EXCEPT !.pm = [s.pm EXCEPT !.viewChanges = x]])
  <2>1. [s.pm EXCEPT !.viewChanges = x] \in [curView : Views, newViewChan : Seq(Views),
                        timeouts : [Views -> SUBSET Replicas],
                        viewChanges : [Views -> SUBSET Replicas]]
    BY <1>3
  <2> QED BY <1>2, <1>3, <2>1
<1> QED BY <1>4, <1>5

(* A VMO is counted, and the one that completes the VC enters the next     *)
(* view; so for TMOs and the TC.                                           *)
LEMMA CountVmoStep ==
  ASSUME NEW k, NEW r \in Replicas, NEW d, NEW s, Good(conf, k, r, d, s),
         NEW view \in Views, NEW node \in Replicas
  PROVE  After(k, r, d, s, CountVmo(s, view, node))
<1> DEFINE added == PM!ProcessRemoteVmo(s.pm, view, node)
           after == [s EXCEPT !.pm = added.pm]
<1>1. s \in ReplicaState /\ s.pm.viewChanges \in [Views -> SUBSET Replicas]
  BY StateFacts DEF Good
<1>2. after = s \/ \E x \in [Views -> SUBSET Replicas] :
                      after = [s EXCEPT !.pm = [s.pm EXCEPT !.viewChanges = x]]
  <2>1. [s.pm.viewChanges EXCEPT ![view] = @ \cup {node}] \in [Views -> SUBSET Replicas]
    BY <1>1
  <2>2. PM!AddVmo(s.pm.viewChanges, view, node).viewChanges \in [Views -> SUBSET Replicas]
    BY <1>1, <2>1 DEF PM!AddVmo
  <2>3. [s EXCEPT !.pm = s.pm] = s
    BY <1>1 DEF ReplicaState
  <2>4. \/ added.pm = s.pm
        \/ added.pm = [s.pm EXCEPT !.viewChanges =
                         PM!AddVmo(s.pm.viewChanges, view, node).viewChanges]
    BY DEF PM!ProcessRemoteVmo
  <2> QED BY <2>2, <2>3, <2>4
<1> HIDE DEF after, added
<1>3. After(k, r, d, s, after)
  <2>1. CASE after = s
    BY <2>1, AfterSelf
  <2>2. CASE after # s
    <3>1. PICK x \in [Views -> SUBSET Replicas] :
            after = [s EXCEPT !.pm = [s.pm EXCEPT !.viewChanges = x]]
      BY <1>2, <2>2
    <3>2. After(k, r, d, s, [s EXCEPT !.pm = [s.pm EXCEPT !.viewChanges = x]])
      BY CountStep
    <3> QED BY <3>1, <3>2
  <2> QED BY <2>1, <2>2
<1>4. After(k, r, d, after, Advance(after, view))
  BY <1>3, AfterGood, AdvanceStep
<1> QED BY SMTT(20), <1>3, <1>4, AfterTrans DEF CountVmo, after, added

(* A TMO is counted, and a TC enters the next view. *)
LEMMA CountTmoStep ==
  ASSUME NEW k, NEW r \in Replicas, NEW d, NEW s, Good(conf, k, r, d, s),
         NEW view \in Views, NEW node \in Replicas
  PROVE  After(k, r, d, s, CountTmo(s, view, node))
<1> DEFINE added == PM!ProcessRemoteTmo(s.pm, view, node)
           after == [s EXCEPT !.pm = added.pm]
<1>1. s \in ReplicaState /\ s.pm.timeouts \in [Views -> SUBSET Replicas]
  BY StateFacts DEF Good
<1>2. after = s \/ \E x \in [Views -> SUBSET Replicas] :
                      after = [s EXCEPT !.pm = [s.pm EXCEPT !.timeouts = x]]
  <2>1. [s.pm.timeouts EXCEPT ![view] = @ \cup {node}] \in [Views -> SUBSET Replicas]
    BY <1>1
  <2>2. PM!AddTmo(s.pm.timeouts, view, node).timeouts \in [Views -> SUBSET Replicas]
    BY <1>1, <2>1 DEF PM!AddTmo
  <2>3. [s EXCEPT !.pm = s.pm] = s
    BY <1>1 DEF ReplicaState
  <2>4. \/ added.pm = s.pm
        \/ added.pm = [s.pm EXCEPT !.timeouts =
                         PM!AddTmo(s.pm.timeouts, view, node).timeouts]
    BY DEF PM!ProcessRemoteTmo
  <2> QED BY <2>2, <2>3, <2>4
<1> HIDE DEF after, added
<1>3. After(k, r, d, s, after)
  <2>1. CASE after = s
    BY <2>1, AfterSelf
  <2>2. CASE after # s
    <3>1. PICK x \in [Views -> SUBSET Replicas] :
            after = [s EXCEPT !.pm = [s.pm EXCEPT !.timeouts = x]]
      BY <1>2, <2>2
    <3>2. After(k, r, d, s, [s EXCEPT !.pm = [s.pm EXCEPT !.timeouts = x]])
      BY CountStep
    <3> QED BY <3>1, <3>2
  <2> QED BY <2>1, <2>2
<1>4. Good(conf, k, r, d, after)
  BY <1>3, AfterGood
<1>5. After(k, r, d, after, processTC(after, view))
  BY <1>4, AdvanceStep, AfterSelf DEF processTC
<1> QED BY SMTT(20), <1>3, <1>5, AfterTrans DEF CountTmo, after, added

(* With the VMO and the block of a view, the view is left. *)
LEMMA LeaveViewStep ==
  ASSUME ConfOK, NEW k, NEW r \in Replicas, NEW d, NEW s, Good(conf, k, r, d, s),
         NEW view \in Views
  PROVE  After(k, r, d, s, LeaveView(r, s, view).s)
<1> DEFINE next   == FindLeaderFor(view + 1)
           posted == IF next = r THEN s ELSE Send(s, VmoMsg(next, view, r))
           t      == [posted EXCEPT !.recivedVMO = @ \ {view}, !.recivedBlock = @ \ {view}]
<1>1. next \in Replicas
  <2>1. view + 1 \in 0 .. MaxView + 3
    BY SMTT(20), ReplicaAssumption DEF Views
  <2> QED BY <2>1, LeaderFacts
<1>2. After(k, r, d, s, posted)
  <2>1. VmoMsg(next, view, r) \in Message /\ VmoMsg(next, view, r).type = "vmo"
    <3> HIDE DEF next
    <3>1. Genesis \in Block
      BY SMTT(20) DEF Genesis, Block
    <3> QED BY SMTT(20), <1>1, <3>1, MessageFacts
  <2>2. MsgOk(conf, Now(k, r, s), VmoMsg(next, view, r))
    BY <2>1 DEF MsgOk
  <2> HIDE DEF next
  <2> QED BY <2>1, <2>2, SendStep, AfterSelf
<1> HIDE DEF posted
<1>3. After(k, r, d, posted, t)
  BY <1>2, AfterGood, ForgetStep
<1> HIDE DEF t
<1>4. After(k, r, d, t, Advance(t, view))
  BY <1>3, AfterGood, AdvanceStep
<1>5. After(k, r, d, s, Advance(t, view))
  BY <1>2, <1>3, <1>4, AfterTrans
<1>6. LeaveView(r, s, view).s = s \/ LeaveView(r, s, view).s = Advance(t, view)
  BY DEF LeaveView, t, posted
<1> QED BY <1>5, <1>6, AfterSelf

-----------------------------------------------------------------------------
(* The block store *)

(* A quorum of recorded votes certifies the block. *)
LEMMA QuorumFacts ==
  ASSUME NEW v, NEW votes \in SUBSET (Block \X Replicas), NEW b \in Block,
         \A x \in votes : x[1] \in v[x[2]],
         Cardinality({x \in votes : x[1] = b}) >= ByzNo * 2 + 1
  PROVE  Cert(v, b)
<1> DEFINE S == {x \in votes : x[1] = b}
<1>1. S \in SUBSET ({b} \X Replicas) /\ \A x \in S : b \in v[x[2]]
  OBVIOUS
<1> QED BY <1>1 DEF Cert

(* Votes that were cast are recorded, or blocks that arrived are stored,   *)
(* not below the lowest level.                                             *)
LEMMA StoreStep ==
  ASSUME NEW k, NEW r \in Replicas, NEW d, NEW s, NEW t \in ReplicaState,
         Good(conf, k, r, d, s),
         \A x \in t.bc.votes : x[1] \in Now(k, r, s)[x[2]],
         t.bc.tree \subseteq s.seen,
         \A x \in t.bc.tree : View(x) >= t.bc.lowest,
         t.bc.lowest = s.bc.lowest,
         t.pm = s.pm, t.highQC = s.highQC,
         t.bufferedQCs = s.bufferedQCs, t.bufferedBlocks = s.bufferedBlocks,
         t.committed = s.committed, t.preferredView = s.preferredView,
         t.seen = s.seen, t.voted = s.voted, t.out = s.out
  PROVE  After(k, r, d, s, t)
<1>1. Now(k, r, t) = Now(k, r, s)
  BY DEF Now
<1>2. QcPart(conf, k, r, t)
  BY <1>1 DEF Good, QcPart
<1>3. ViewPart(conf, r, t)
  BY DEF Good, ViewPart
<1>4. CommitPart(conf, k, r, d, t)
  BY <1>1 DEF Good, CommitPart, Backed
<1>5. LockPart(conf, k, r, t)
  BY LockStays DEF Good
<1> QED BY <1>2, <1>3, <1>4, <1>5 DEF Good, After, Proposals

(* The store is replaced by another one. *)
LEMMA StoreFacts ==
  ASSUME NEW s \in ReplicaState,
         NEW x \in [tree : SUBSET Block, lowest : 0 .. MaxView,
                    votes : SUBSET (Block \X Replicas)]
  PROVE  /\ [s EXCEPT !.bc = x] \in ReplicaState
         /\ [s EXCEPT !.bc = x].bc = x
<1>1. [s EXCEPT !.bc = x] \in ReplicaState
  BY DEF ReplicaState
<1>2. [s EXCEPT !.bc = x].bc = x
  BY DEF ReplicaState
<1> QED BY <1>1, <1>2

(* Quorum.Add records a vote that was cast; the QC it builds is certified. *)
LEMMA AddVoteStep ==
  ASSUME NEW k, NEW r \in Replicas, NEW d, NEW s, Good(conf, k, r, d, s),
         NEW b \in Block, NEW voter \in Replicas, b \in Now(k, r, s)[voter]
  PROVE  /\ After(k, r, d, s, [s EXCEPT !.bc = AddVote(s.bc, b, voter).bc])
         /\ AddVote(s.bc, b, voter).isBuilt =>
              Cert(Now(k, r, [s EXCEPT !.bc = AddVote(s.bc, b, voter).bc]), b)
<1> DEFINE x == [s.bc EXCEPT !.votes = @ \cup {<<b, voter>>}]
<1>1. /\ s \in ReplicaState
      /\ s.bc \in [tree : SUBSET Block, lowest : 0 .. MaxView,
                   votes : SUBSET (Block \X Replicas)]
      /\ \A y \in s.bc.votes : y[1] \in Now(k, r, s)[y[2]]
      /\ s.bc.tree \subseteq s.seen
      /\ \A y \in s.bc.tree : View(y) >= s.bc.lowest
  BY StateFacts DEF Good, QcPart, CommitPart
<1>2. /\ x.votes = s.bc.votes \cup {<<b, voter>>}
      /\ x.tree = s.bc.tree /\ x.lowest = s.bc.lowest
  BY <1>1
<1>3. x.votes \in SUBSET (Block \X Replicas)
  BY SMTT(20), <1>1, <1>2
<1>4. x \in [tree : SUBSET Block, lowest : 0 .. MaxView,
             votes : SUBSET (Block \X Replicas)]
  BY <1>1, <1>2, <1>3
<1>5. \A y \in x.votes : y[1] \in Now(k, r, s)[y[2]]
  BY SMTT(20), <1>1, <1>2
<1> HIDE DEF x
<1>6. [s EXCEPT !.bc = x] \in ReplicaState /\ [s EXCEPT !.bc = x].bc = x
  BY <1>1, <1>4, StoreFacts
<1>7. After(k, r, d, s, [s EXCEPT !.bc = x])
  <2> DEFINE t == [s EXCEPT !.bc = x]
  <2>1. /\ t.pm = s.pm /\ t.highQC = s.highQC /\ t.preferredView = s.preferredView
        /\ t.bufferedQCs = s.bufferedQCs /\ t.bufferedBlocks = s.bufferedBlocks
        /\ t.committed = s.committed /\ t.seen = s.seen /\ t.voted = s.voted /\ t.out = s.out
    BY <1>1 DEF ReplicaState
  <2>2. t \in ReplicaState /\ t.bc = x
    BY <1>6
  <2> HIDE DEF t
  <2>3. /\ \A y \in t.bc.votes : y[1] \in Now(k, r, s)[y[2]]
        /\ t.bc.tree \subseteq s.seen /\ t.bc.lowest = s.bc.lowest
        /\ \A y \in t.bc.tree : View(y) >= t.bc.lowest
    BY <1>1, <1>2, <1>5, <2>2
  <2>4. After(k, r, d, s, t)
    BY <2>1, <2>2, <2>3, StoreStep
  <2> QED BY <2>4 DEF t
<1>8. Now(k, r, [s EXCEPT !.bc = x]) = Now(k, r, s)
  BY <1>1 DEF Now, ReplicaState
<1>9. CASE quorumReached(s.bc, b)
  <2>1. AddVote(s.bc, b, voter) = [isBuilt |-> FALSE, bc |-> s.bc]
    BY <1>9 DEF AddVote
  <2>2. [s EXCEPT !.bc = s.bc] = s
    BY <1>1 DEF ReplicaState
  <2> QED BY SMTT(20), <2>1, <2>2, AfterSelf
<1>10. CASE ~quorumReached(s.bc, b)
  <2>1. AddVote(s.bc, b, voter) = [isBuilt |-> quorumReached(x, b), bc |-> x]
    BY <1>10 DEF AddVote, x
  <2>2. quorumReached(x, b) => Cert(Now(k, r, s), b)
    BY <1>3, <1>5, QuorumFacts DEF quorumReached, size
  <2> QED BY SMTT(20), <1>7, <1>8, <2>1, <2>2
<1> QED BY <1>9, <1>10

(* A block that arrived is stored. *)
LEMMA AddBlockStep ==
  ASSUME NEW k, NEW r \in Replicas, NEW d, NEW s, Good(conf, k, r, d, s), NEW b \in s.seen
  PROVE  After(k, r, d, s, [s EXCEPT !.bc = AddBlock(@, b)])
<1> DEFINE x == [s.bc EXCEPT !.tree = @ \cup {b}]
<1>1. /\ s \in ReplicaState
      /\ s.bc \in [tree : SUBSET Block, lowest : 0 .. MaxView,
                   votes : SUBSET (Block \X Replicas)]
      /\ \A y \in s.bc.votes : y[1] \in Now(k, r, s)[y[2]]
      /\ s.bc.tree \subseteq s.seen /\ s.seen \subseteq Block
      /\ \A y \in s.bc.tree : View(y) >= s.bc.lowest
  BY StateFacts DEF Good, QcPart, CommitPart
<1>2. /\ x.votes = s.bc.votes
      /\ x.tree = s.bc.tree \cup {b} /\ x.lowest = s.bc.lowest
  BY <1>1
<1>3. x.tree \in SUBSET Block
  BY <1>1, <1>2
<1>4. x \in [tree : SUBSET Block, lowest : 0 .. MaxView,
             votes : SUBSET (Block \X Replicas)]
  BY <1>1, <1>2, <1>3
<1> HIDE DEF x
<1>5. [s EXCEPT !.bc = x] \in ReplicaState /\ [s EXCEPT !.bc = x].bc = x
  BY <1>1, <1>4, StoreFacts
<1>6. CASE View(b) < s.bc.lowest
  <2>1. [s EXCEPT !.bc = AddBlock(@, b)] = s
    BY <1>1, <1>6 DEF AddBlock, ReplicaState
  <2> QED BY <2>1, AfterSelf
<1>7. CASE ~(View(b) < s.bc.lowest)
  <2>1. [s EXCEPT !.bc = AddBlock(@, b)] = [s EXCEPT !.bc = x]
    BY <1>7 DEF AddBlock, x
  <2>2. View(b) \in Nat /\ s.bc.lowest \in Nat
    BY SMTT(20), <1>1, BlockFacts
  <2>3. \A y \in x.tree : View(y) >= x.lowest
    BY SMTT(20), <1>1, <1>2, <1>7, <2>2
  <2>4. After(k, r, d, s, [s EXCEPT !.bc = x])
    <3> DEFINE t == [s EXCEPT !.bc = x]
    <3>1. /\ t.pm = s.pm /\ t.highQC = s.highQC /\ t.preferredView = s.preferredView
          /\ t.bufferedQCs = s.bufferedQCs /\ t.bufferedBlocks = s.bufferedBlocks
          /\ t.committed = s.committed /\ t.seen = s.seen /\ t.voted = s.voted
          /\ t.out = s.out
      BY <1>1 DEF ReplicaState
    <3>2. t \in ReplicaState /\ t.bc = x
      BY <1>5
    <3> HIDE DEF t
    <3>3. /\ \A y \in t.bc.votes : y[1] \in Now(k, r, s)[y[2]]
          /\ t.bc.tree \subseteq s.seen /\ t.bc.lowest = s.bc.lowest
          /\ \A y \in t.bc.tree : View(y) >= t.bc.lowest
      BY <1>1, <1>2, <2>3, <3>2
    <3>4. After(k, r, d, s, t)
      BY <3>1, <3>2, <3>3, StoreStep
    <3> QED BY <3>4 DEF t
  <2> QED BY <2>1, <2>4
<1> QED BY <1>6, <1>7

(* What a commit of x does to the store. *)
LEMMA CommitFacts ==
  ASSUME NEW s \in ReplicaState, NEW x \in s.bc.tree,
         \A y \in s.bc.tree : View(y) >= s.bc.lowest
  PROVE  /\ CommitBlock(s.bc, x) \in [tree : SUBSET Block, lowest : 0 .. MaxView,
                                      votes : SUBSET (Block \X Replicas)]
         /\ CommitBlock(s.bc, x).tree = {y \in s.bc.tree : View(y) >= View(x)}
         /\ CommitBlock(s.bc, x).lowest = View(x)
         /\ CommitBlock(s.bc, x).votes \subseteq s.bc.votes
         /\ CommittedBlocks(s.bc, x) \subseteq s.bc.tree
         /\ ForkedBlocks(s.bc, x) \subseteq s.bc.tree
         /\ \A y \in CommittedBlocks(s.bc, x) : Extends(x, y)
         /\ View(x) > s.bc.lowest /\ x # Genesis => x \in CommittedBlocks(s.bc, x)
<1>1. /\ s.bc \in [tree : SUBSET Block, lowest : 0 .. MaxView,
                   votes : SUBSET (Block \X Replicas)]
      /\ s.bc.tree \subseteq Block /\ s.bc.lowest \in Nat /\ x \in Block
  BY SMTT(20), StateFacts
<1>2. View(x) \in 0 .. MaxView /\ ~(View(x) < s.bc.lowest)
  BY SMTT(20), <1>1, BlockFacts
<1>3. CommitBlock(s.bc, x) =
        [tree   |-> {y \in s.bc.tree : View(y) >= View(x)},
         lowest |-> View(x),
         votes  |-> {v \in s.bc.votes : v[1] \notin CommittedBlocks(s.bc, x)}]
  BY <1>2 DEF CommitBlock
<1>4. Linked(s.bc, x) \subseteq s.bc.tree
  <2>1. \A p \in Prefixes(x) : Len(p) \in Nat
    BY SMTT(20), <1>1, PrefixesFacts DEF Block
  <2> QED BY SMTT(20), <2>1 DEF Linked
<1>5. \A y \in Linked(s.bc, x) : Extends(x, y)
  BY <1>1, PrefixesFacts DEF Linked
<1>6. x # Genesis => x \in Linked(s.bc, x)
  BY <1>1, PrefixesFacts DEF Linked
<1> QED BY SMTT(20), <1>1, <1>2, <1>3, <1>4, <1>5, <1>6 DEF CommittedBlocks, ForkedBlocks

(* A block that heads blocks of consecutive views is committed with the    *)
(* chain below it.                                                         *)
LEMMA CommitStep ==
  ASSUME NEW k, NEW r \in Replicas, NEW d, NEW s, Good(conf, k, r, d, s),
         NEW x \in s.bc.tree, Backed(conf, Now(k, r, s), d, s, x),
         conf.algo \notin {"tchs", "fasthotstuff"} => s.preferredView > View(x),
         conf.algo = "tchs" => s.preferredView >= View(x)
  PROVE  After(k, r, d, s, commit(s, x))
<1> DEFINE new  == CommittedBlocks(s.bc, x)
           fork == ForkedBlocks(s.bc, x)
           bc   == CommitBlock(s.bc, x)
           t    == [s EXCEPT !.bc = bc, !.committed = @ \cup new, !.forked = @ \cup fork]
<1>1. /\ s \in ReplicaState /\ QcPart(conf, k, r, s) /\ ViewPart(conf, r, s)
      /\ CommitPart(conf, k, r, d, s) /\ s.bc.tree \subseteq s.seen
      /\ \A y \in s.bc.tree : View(y) >= s.bc.lowest
      /\ s.seen \subseteq Block /\ s.committed \subseteq Block /\ s.forked \subseteq Block
      /\ s.bc.lowest \in Nat
  <2>1. /\ s \in ReplicaState /\ QcPart(conf, k, r, s) /\ ViewPart(conf, r, s)
        /\ CommitPart(conf, k, r, d, s)
    BY DEF Good
  <2>2. s.bc.tree \subseteq s.seen /\ \A y \in s.bc.tree : View(y) >= s.bc.lowest
    BY <2>1 DEF QcPart, CommitPart
  <2>3. /\ s.seen \subseteq Block /\ s.committed \subseteq Block /\ s.forked \subseteq Block
        /\ s.bc.lowest \in 0 .. MaxView
    BY <2>1, StateFacts
  <2> QED BY SMTT(20), <2>1, <2>2, <2>3
<1>2. /\ bc \in [tree : SUBSET Block, lowest : 0 .. MaxView,
                 votes : SUBSET (Block \X Replicas)]
      /\ bc.tree = {y \in s.bc.tree : View(y) >= View(x)} /\ bc.lowest = View(x)
      /\ bc.votes \subseteq s.bc.votes
      /\ new \subseteq s.bc.tree /\ fork \subseteq s.bc.tree
      /\ \A y \in new : Extends(x, y)
      /\ View(x) > s.bc.lowest /\ x # Genesis => x \in new
  BY <1>1, CommitFacts
<1> HIDE DEF new, fork, bc
<1>3. s.committed \cup new \in SUBSET Block /\ s.forked \cup fork \in SUBSET Block
  BY <1>1, <1>2
<1>4. t \in ReplicaState
  BY <1>1, <1>2, <1>3 DEF ReplicaState
<1>5. /\ t.bc = bc /\ t.committed = s.committed \cup new
      /\ t.preferredView = s.preferredView
      /\ t.pm = s.pm /\ t.highQC = s.highQC /\ t.bufferedQCs = s.bufferedQCs
      /\ t.bufferedBlocks = s.bufferedBlocks /\ t.seen = s.seen
      /\ t.voted = s.voted /\ t.out = s.out
  BY <1>1 DEF ReplicaState
<1>6. commit(s, x) = t
  BY DEF commit, new, fork, bc
<1> HIDE DEF t
<1>7. Now(k, r, t) = Now(k, r, s)
  BY <1>5 DEF Now
<1>8. QcPart(conf, k, r, t)
  BY <1>1, <1>2, <1>5, <1>7 DEF QcPart
<1>9. ViewPart(conf, r, t)
  BY <1>1, <1>5 DEF ViewPart
<1>10. x \in s.committed \cup new
  <2>1. x # Genesis /\ x \in s.seen /\ x \in Block
    BY <1>1 DEF QcPart
  <2>2. View(x) \in 1 .. MaxView
    BY <2>1, BlockFacts
  <2>3. CASE View(x) = s.bc.lowest
    <3>1. PICK y \in s.committed : View(y) = s.bc.lowest
      BY SMTT(20), <1>1, <2>2, <2>3 DEF CommitPart
    <3>2. y \in s.seen
      BY <1>1 DEF CommitPart
    <3>3. y = x
      BY <1>1, <2>1, <2>3, <3>1, <3>2 DEF ViewPart
    <3> QED BY <3>3
  <2>4. CASE View(x) # s.bc.lowest
    <3>1. View(x) > s.bc.lowest
      BY SMTT(20), <1>1, <2>2, <2>4
    <3> QED BY <1>2, <2>1, <3>1
  <2> QED BY <2>3, <2>4
<1>11. CommitPart(conf, k, r, d, t)
  <2>1. Backed(conf, Now(k, r, t), d, t, x)
    BY <1>5, <1>7 DEF Backed
  <2>2. \A b \in s.committed : \E y \in s.committed :
          Extends(y, b) /\ Backed(conf, Now(k, r, t), d, t, y)
    BY <1>1, <1>5, <1>7 DEF CommitPart, Backed
  <2>3. t.committed \subseteq t.seen
    BY <1>1, <1>2, <1>5 DEF CommitPart
  <2>4. /\ \A y \in t.bc.tree : View(y) >= t.bc.lowest
        /\ \E y \in t.committed : View(y) = t.bc.lowest
    BY <1>2, <1>5, <1>10
  <2> QED BY <1>2, <1>5, <1>10, <2>1, <2>2, <2>3, <2>4 DEF CommitPart
<1>12. LockPart(conf, k, r, t)
  <2>1. \A q : Held(conf, k, r, t, q) = Held(conf, k, r, s, q)
    BY <1>5 DEF Held
  <2>2. \A q : Sourced(conf, k, r, t, q) = Sourced(conf, k, r, s, q)
    BY <2>1 DEF Sourced
  <2>3. LockPart(conf, k, r, s)
    BY DEF Good
  <2>4. conf.algo = "tchs" => t.bc.lowest <= t.preferredView
    <3>1. View(x) \in Nat /\ s.preferredView \in Nat
      BY SMTT(20), <1>1, StateFacts, BlockFacts
    <3> QED BY <1>2, <1>5, <3>1
  <2> QED BY <1>2, <1>5, <2>1, <2>2, <2>3, <2>4 DEF LockPart
<1>13. Good(conf, k, r, d, t)
  BY <1>4, <1>8, <1>9, <1>11, <1>12 DEF Good
<1> QED BY <1>5, <1>6, <1>13 DEF After, Proposals

(* A block is neither its parent nor its grandparent. *)
LEMMA AncestorFacts ==
  ASSUME NEW b \in Block, b # Genesis
  PROVE  Parent(b) # b /\ Parent(Parent(b)) # b
<1>1. Len(b) \in Nat /\ Len(b) - 1 \in 0 .. Len(b)
  BY SMTT(20) DEF Block, Genesis
<1>2. Parent(b) \in Block /\ Len(Parent(b)) = Len(b) - 1
  BY <1>1, PrefixFacts DEF Parent
<1>3. CASE Parent(b) = Genesis
  BY SMTT(20), <1>3 DEF Genesis, Parent
<1>4. CASE Parent(b) # Genesis
  <2>1. Len(Parent(b)) - 1 \in 0 .. Len(Parent(b))
    BY SMTT(20), <1>2, <1>4 DEF Block, Genesis
  <2>2. Len(Parent(Parent(b))) = Len(Parent(b)) - 1
    BY <1>2, <2>1, PrefixFacts DEF Parent
  <2> QED BY SMTT(20), <1>1, <1>2, <2>2
<1> QED BY <1>3, <1>4

(* Three blocks of consecutive views, named by the first or by the last. *)
LEMMA ChainFacts ==
  ASSUME NEW b \in Block, b # Genesis, Parent(b) # Genesis,
         View(Parent(Parent(b))) + 1 = View(Parent(b)), View(Parent(b)) + 1 = View(b)
  PROVE  /\ Parent(b) = Append(Parent(Parent(b)), View(Parent(Parent(b))) + 1)
         /\ b = Append(Parent(b), View(Parent(Parent(b))) + 2)
<1>1. Parent(b) \in Block /\ b = Append(Parent(b), View(b))
  BY BlockFacts
<1>2. Parent(Parent(b)) \in Block /\ Parent(b) = Append(Parent(Parent(b)), View(Parent(b)))
  BY <1>1, BlockFacts
<1>3. View(Parent(Parent(b))) \in Nat
  BY SMTT(20), <1>2, BlockFacts
<1>4. View(b) = View(Parent(Parent(b))) + 2
  BY SMTT(20), <1>3
<1> QED BY <1>1, <1>2, <1>4

(* The votes of the other replicas are those at the start of the event,    *)
(* and those of r are kept.                                                *)
LEMMA NowFacts ==
  ASSUME NEW k, k.votes \in [Replicas -> SUBSET Block], NEW r \in Replicas, NEW s, NEW t,
         s.voted \subseteq t.voted
  PROVE  /\ Now(k, r, s)[r] = s.voted
         /\ \A q \in Replicas : Now(k, r, s)[q] \subseteq Now(k, r, t)[q]
  BY DEF Now

(* A vote is cast for a block that a commit already counted on. *)
LEMMA VotedStep ==
  ASSUME NEW k, NEW r \in Replicas, NEW d, NEW s, NEW b \in Block,
         Good(conf, k, r, d \cup {b}, s)
  PROVE  After(k, r, d, s, [s EXCEPT !.voted = @ \cup {b}])
<1> DEFINE t == [s EXCEPT !.voted = s.voted \cup {b}]
<1>1. /\ s \in ReplicaState /\ k.votes \in [Replicas -> SUBSET Block]
      /\ s.voted \cup {b} \in SUBSET Block /\ s.out \subseteq Message
      /\ s.bc.votes \subseteq Block \X Replicas
  BY StateFacts DEF Good
<1>2. t \in ReplicaState
  BY <1>1, UpdateType
<1>3. /\ t.voted = s.voted \cup {b}
      /\ t.pm = s.pm /\ t.bc = s.bc /\ t.highQC = s.highQC
      /\ t.bufferedQCs = s.bufferedQCs /\ t.bufferedBlocks = s.bufferedBlocks
      /\ t.committed = s.committed /\ t.seen = s.seen /\ t.out = s.out
      /\ t.preferredView = s.preferredView
  BY <1>1 DEF ReplicaState
<1> HIDE DEF t
<1> DEFINE v == Now(k, r, s)
           w == Now(k, r, t)
<1>4. \A q \in Replicas : v[q] \subseteq w[q]
  <2>1. k.votes \in [Replicas -> SUBSET Block] /\ s.voted \subseteq t.voted
    BY <1>1, <1>3
  <2> QED BY <2>1, NowFacts
<1>5. QcPart(conf, k, r, s) /\ ViewPart(conf, r, s) /\ CommitPart(conf, k, r, d \cup {b}, s)
  BY DEF Good
<1> HIDE DEF v, w
<1>6. \A x : Cert(v, x) => Cert(w, x)
  BY <1>4, CertMonotone
<1>7. \A m \in Message : MsgOk(conf, v, m) => MsgOk(conf, w, m)
  BY <1>4, MsgMonotone
<1>8. QcPart(conf, k, r, t)
  <2>1. \A x \in t.bc.votes : x[1] \in w[x[2]]
    <3> SUFFICES ASSUME NEW x \in t.bc.votes PROVE x[1] \in w[x[2]]
      OBVIOUS
    <3>1. x[2] \in Replicas /\ x[1] \in v[x[2]]
      BY SMTT(20), <1>1, <1>3, <1>5 DEF QcPart, v
    <3> QED BY <1>4, <3>1
  <2>2. /\ Cert(w, t.highQC) /\ (\A x \in t.bufferedQCs : Cert(w, x))
        /\ \A x \in t.seen : x # Genesis /\ Cert(w, Parent(x))
    BY <1>3, <1>5, <1>6 DEF QcPart, v
  <2>3. \A m \in t.out : MsgOk(conf, w, m)
    BY <1>1, <1>3, <1>5, <1>7 DEF QcPart, v
  <2> QED BY <1>3, <1>5, <2>1, <2>2, <2>3 DEF QcPart, w
<1>9. ViewPart(conf, r, t)
  BY <1>3, <1>5 DEF ViewPart
<1>10. CommitPart(conf, k, r, d, t)
  <2>1. \A x : Backed(conf, v, d \cup {b}, s, x) => Backed(conf, w, d, t, x)
    BY <1>3, <1>6 DEF Backed
  <2> QED BY <1>3, <1>5, <2>1 DEF CommitPart, v, w
<1>11. LockPart(conf, k, r, t)
  BY <1>2, <1>3, LockStays DEF Good
<1>12. Good(conf, k, r, d, t)
  BY <1>2, <1>8, <1>9, <1>10, <1>11 DEF Good
<1>13. After(k, r, d, s, t)
  BY <1>3, <1>12 DEF After, Proposals
<1> QED BY <1>13 DEF t

(* More blocks are about to be voted for. *)
LEMMA GrowFacts ==
  ASSUME NEW k, NEW r \in Replicas, NEW d, NEW s, Good(conf, k, r, d, s), NEW b
  PROVE  Good(conf, k, r, d \cup {b}, s)
<1>1. \A x : Backed(conf, Now(k, r, s), d, s, x)
               => Backed(conf, Now(k, r, s), d \cup {b}, s, x)
  BY DEF Backed
<1>2. CommitPart(conf, k, r, d \cup {b}, s)
  BY <1>1 DEF Good, CommitPart
<1> QED BY <1>2 DEF Good

(* A block arrives: its QC is certified, it is the only one of its view,   *)
(* and if the replica itself proposed it, in a view it was given before.   *)
LEMMA SeenStep ==
  ASSUME NEW k, NEW r \in Replicas, NEW d, NEW s, Good(conf, k, r, d, s),
         NEW b \in Block, b # Genesis, Cert(Now(k, r, s), Parent(b)),
         \A a \in s.seen : View(a) = View(b) => a = b,
         LeaderOf(conf, View(b)) = r => Past(s.pm.newViewChan, s.pm.curView, View(b)),
         conf.algo = "tchs" => Held(conf, k, r, s, Parent(b))
  PROVE  Good(conf, k, r, d, [s EXCEPT !.seen = @ \cup {b}])
<1> DEFINE t == [s EXCEPT !.seen = s.seen \cup {b}]
<1>1. s \in ReplicaState /\ s.seen \cup {b} \in SUBSET Block
  BY StateFacts DEF Good
<1>2. t \in ReplicaState
  BY <1>1, UpdateType
<1>3. /\ t.seen = s.seen \cup {b}
      /\ t.pm = s.pm /\ t.bc = s.bc /\ t.highQC = s.highQC
      /\ t.bufferedQCs = s.bufferedQCs /\ t.bufferedBlocks = s.bufferedBlocks
      /\ t.committed = s.committed /\ t.voted = s.voted /\ t.out = s.out
      /\ t.preferredView = s.preferredView
  BY <1>1 DEF ReplicaState
<1> HIDE DEF t
<1>4. Now(k, r, t) = Now(k, r, s)
  BY <1>3 DEF Now
<1>5. QcPart(conf, k, r, t)
  BY <1>3, <1>4 DEF Good, QcPart
<1>6. ViewPart(conf, r, t)
  BY <1>3 DEF Good, ViewPart
<1>7. CommitPart(conf, k, r, d, t)
  <2>1. \A x : Backed(conf, Now(k, r, s), d, s, x)
                 => Backed(conf, Now(k, r, t), d, t, x)
    BY <1>3, <1>4 DEF Backed
  <2> QED BY <1>3, <2>1 DEF Good, CommitPart
<1>8. LockPart(conf, k, r, t)
  <2>1. \A x : Held(conf, k, r, t, x) = Held(conf, k, r, s, x)
    BY <1>3 DEF Held
  <2>2. \A x : Sourced(conf, k, r, t, x) = Sourced(conf, k, r, s, x)
    BY <2>1 DEF Sourced
  <2>3. LockPart(conf, k, r, s)
    BY DEF Good
  <2> QED BY <1>3, <2>1, <2>2, <2>3 DEF LockPart
<1>9. Good(conf, k, r, d, t)
  BY <1>2, <1>5, <1>6, <1>7, <1>8 DEF Good
<1> QED BY <1>9 DEF t

(* What was certified stays certified. *)
LEMMA CertAfter ==
  ASSUME NEW k, NEW r \in Replicas, NEW d, NEW s, NEW t, After(k, r, d, s, t),
         NEW b, Cert(Now(k, r, s), b)
  PROVE  Cert(Now(k, r, t), b)
<1>1. k.votes \in [Replicas -> SUBSET Block] /\ s.voted \subseteq t.voted
  BY DEF After, Good
<1> QED BY <1>1, NowFacts, CertMonotone

-----------------------------------------------------------------------------
(* Handlers.  The ones that a handler calls are assumed to be good. *)

CallOk(call, k, r) ==
  /\ \A d, s : \A b \in Block :
       Good(conf, k, r, d, s) /\ b \in s.seen
         => After(k, r, d, s, call.ProcessBlock[s][b])
  /\ \A d, s : \A view \in Views :
       Good(conf, k, r, d, s) => After(k, r, d, s, call.ProcessRemoteVmo[s][view])

(* The block that waits for a view is processed. *)
LEMMA BufferedStep ==
  ASSUME NEW k, NEW r \in Replicas, NEW d, NEW s, Good(conf, k, r, d, s),
         NEW call, CallOk(call, k, r), NEW view
  PROVE  After(k, r, d, s, ProcessBuffered(call, s, view))
<1>1. CASE Buffered(s, view) = {}
  BY <1>1, AfterSelf DEF ProcessBuffered
<1>2. CASE Buffered(s, view) # {}
  <2>1. Waiting(s, view) \in Block /\ Waiting(s, view) \in s.seen
    BY <1>2, WaitingFacts
  <2>2. After(k, r, d, s, Unbuffer(s, view))
    BY BufferStep
  <2>3. Good(conf, k, r, d, Unbuffer(s, view)) /\ Waiting(s, view) \in Unbuffer(s, view).seen
    BY SMTT(20), <2>1, <2>2, AfterGood
  <2>4. After(k, r, d, Unbuffer(s, view),
              call.ProcessBlock[Unbuffer(s, view)][Waiting(s, view)])
    BY <2>1, <2>3 DEF CallOk
  <2> QED BY SMTT(20), <1>2, <2>2, <2>4, AfterTrans DEF ProcessBuffered
<1> QED BY <1>1, <1>2

(* The block that waits for the view, then the VMO of the view. *)
LEMMA VMOAndBlockStep ==
  ASSUME ConfOK, NEW k, NEW r \in Replicas, NEW d, NEW s, Good(conf, k, r, d, s),
         NEW call, CallOk(call, k, r), NEW view \in Views
  PROVE  After(k, r, d, s, ProcessVMOAndBlock(call, r, s, view).s)
<1>1. CASE view \notin s.recivedVMO
  BY <1>1, AfterSelf DEF ProcessVMOAndBlock
<1>2. CASE view \in s.recivedVMO
  <2> DEFINE t == ProcessBuffered(call, s, view)
  <2>1. After(k, r, d, s, t)
    BY BufferedStep
  <2> HIDE DEF t
  <2>2. After(k, r, d, t, LeaveView(r, t, view).s)
    BY <2>1, AfterGood, LeaveViewStep
  <2> QED BY SMTT(20), <1>2, <2>1, <2>2, AfterTrans DEF ProcessVMOAndBlock, t
<1> QED BY <1>1, <1>2

(* The VMO of the view, if it was stored. *)
LEMMA StoredVmoStep ==
  ASSUME ConfOK, NEW k, NEW r \in Replicas, NEW d, NEW s, Good(conf, k, r, d, s),
         NEW call, CallOk(call, k, r), NEW view \in Views
  PROVE  After(k, r, d, s, ProcessStoredVmo(call, r, s, view))
<1> DEFINE left == ProcessVMOAndBlock(call, r, s, view)
<1>1. After(k, r, d, s, left.s)
  BY VMOAndBlockStep
<1> HIDE DEF left
<1>2. Good(conf, k, r, d, left.s) /\ left.s.recivedVMO \subseteq Views
  <2>1. Good(conf, k, r, d, left.s)
    BY <1>1, AfterGood
  <2>2. left.s \in ReplicaState
    BY <2>1 DEF Good
  <2> QED BY <2>1, <2>2, StateFacts
<1>3. After(k, r, d, left.s, ProcessNextVmo(call, left, view))
  BY <1>2, AfterSelf DEF ProcessNextVmo, CallOk
<1> QED BY SMTT(20), <1>1, <1>3, AfterSelf, AfterTrans DEF ProcessStoredVmo, left

(* The block is here: its view is left if the VMO is here too. *)
LEMMA ReceiveStep ==
  ASSUME ConfOK, NEW k, NEW r \in Replicas, NEW d, NEW s, Good(conf, k, r, d, s),
         NEW call, CallOk(call, k, r), NEW b \in Block
  PROVE  After(k, r, d, s, ReceiveBlock(call, r, s, b))
<1> DEFINE t == [s EXCEPT !.recivedBlock = @ \cup {View(b)}]
<1>0. View(b) \in Views
  BY BlockFacts
<1>1. After(k, r, d, s, t)
  BY <1>0, StoreViewStep
<1> HIDE DEF t
<1>2. After(k, r, d, t, ProcessVMOAndBlock(call, r, t, View(b)).s)
  BY <1>0, <1>1, AfterGood, VMOAndBlockStep
<1> QED BY SMTT(20), <1>1, <1>2, AfterTrans DEF ReceiveBlock, t

(* A VMO of another view than those the replica leads next is stored. *)
LEMMA StoreVmoStep ==
  ASSUME ConfOK, NEW k, NEW r \in Replicas, NEW d, NEW s, Good(conf, k, r, d, s),
         NEW call, CallOk(call, k, r), NEW view \in Views
  PROVE  After(k, r, d, s, ProcessStoredVmo(call, r,
                 JoinFirstView([s EXCEPT !.recivedVMO = @ \cup {view}]), view))
<1> DEFINE t == [s EXCEPT !.recivedVMO = @ \cup {view}]
           u == JoinFirstView(t)
<1>1. After(k, r, d, s, t)
  BY StoreViewStep
<1> HIDE DEF t
<1>2. After(k, r, d, t, u)
  BY <1>1, AfterGood, JoinStep
<1> HIDE DEF u
<1>3. After(k, r, d, u, ProcessStoredVmo(call, r, u, view))
  BY <1>2, AfterGood, StoredVmoStep
<1>4. After(k, r, d, s, ProcessStoredVmo(call, r, u, view))
  BY <1>1, <1>2, <1>3, AfterTrans
<1> QED BY <1>4 DEF t, u

(* The VMO that a replica broadcasts. *)
LEMMA BroadcastVmoStep ==
  ASSUME NEW k, NEW r \in Replicas, NEW d, NEW s, Good(conf, k, r, d, s),
         NEW view \in Views
  PROVE  After(k, r, d, s, Broadcast(r, s, VmoMsg(r, view, r)))
<1>1. Genesis \in Block
  BY SMTT(20) DEF Genesis, Block
<1>2. VmoMsg(r, view, r) \in Message /\ VmoMsg(r, view, r).type = "vmo"
  BY SMTT(20), <1>1, MessageFacts
<1>3. MsgOk(conf, Now(k, r, s), VmoMsg(r, view, r))
  BY <1>2 DEF MsgOk
<1> QED BY <1>2, <1>3, BroadcastStep

(* The TMO that a replica broadcasts carries its highest QC. *)
LEMMA BroadcastTmoStep ==
  ASSUME NEW k, NEW r \in Replicas, NEW d, NEW s, Good(conf, k, r, d, s),
         NEW view \in Views, NEW qc \in Block, Cert(Now(k, r, s), qc)
  PROVE  After(k, r, d, s, Broadcast(r, s, TmoMsg(r, view, qc, r)))
<1>1. /\ TmoMsg(r, view, qc, r) \in Message /\ TmoMsg(r, view, qc, r).type = "tmo"
      /\ TmoMsg(r, view, qc, r).highQC = qc
  BY SMTT(20), MessageFacts
<1>2. MsgOk(conf, Now(k, r, s), TmoMsg(r, view, qc, r))
  BY <1>1 DEF MsgOk
<1> QED BY <1>1, <1>2, BroadcastStep

(* The vote that a replica sends to the next leader. *)
LEMMA SendVoteStep ==
  ASSUME ConfOK, NEW k, NEW r \in Replicas, NEW d, NEW s, Good(conf, k, r, d, s),
         NEW b \in Block, b \in s.voted
  PROVE  /\ b \in Now(k, r, s)[r]
         /\ After(k, r, d, s, Send(s, VoteMsg(FindLeaderFor(View(b) + 1), b, r)))
<1> DEFINE next == FindLeaderFor(View(b) + 1)
<1>1. b \in Now(k, r, s)[r]
  BY DEF Good, Now
<1>2. next \in Replicas
  <2>1. View(b) + 1 \in 0 .. MaxView + 3
    BY SMTT(20), BlockFacts, ReplicaAssumption
  <2> QED BY <2>1, LeaderFacts
<1>3. 0 \in Views
  BY SMTT(20), ReplicaAssumption DEF Views
<1> HIDE DEF next
<1>4. /\ VoteMsg(next, b, r) \in Message /\ VoteMsg(next, b, r).type = "vote"
      /\ VoteMsg(next, b, r).block = b /\ VoteMsg(next, b, r).node = r
  BY SMTT(20), <1>2, <1>3, MessageFacts
<1>5. MsgOk(conf, Now(k, r, s), VoteMsg(next, b, r))
  <2>1. LeaderOf(conf, View(b) + 1) = next
    BY SMTT(20), LeaderFacts, BlockFacts, ReplicaAssumption DEF next
  <2>2. VoteMsg(next, b, r).to = next
    BY DEF VoteMsg
  <2> QED BY <1>1, <1>4, <2>1, <2>2 DEF MsgOk
<1>6. After(k, r, d, s, Send(s, VoteMsg(next, b, r)))
  BY <1>4, <1>5, SendStep
<1> QED BY <1>1, <1>6 DEF next

(* The block that waits for the next view is processed where it is. *)
LEMMA WaitingStep ==
  ASSUME NEW k, NEW r \in Replicas, NEW d, NEW s, Good(conf, k, r, d, s),
         NEW call, CallOk(call, k, r), NEW view, Buffered(s, view) # {}
  PROVE  After(k, r, d, s, call.ProcessBlock[s][Waiting(s, view)])
<1>1. Waiting(s, view) \in Block /\ Waiting(s, view) \in s.seen
  BY WaitingFacts
<1> QED BY <1>1 DEF CallOk

(* Two-chain commits: a block of the view after that of its parent, whose  *)
(* parent and grandparent are stored and of consecutive views.             *)
LEMMA TwoChainStep ==
  ASSUME NEW k, NEW r \in Replicas, NEW d, NEW s, Good(conf, k, r, d, s),
         NEW b \in Block, b \in s.seen, HasParentBlock(s.bc, Parent(b)),
         View(Parent(Parent(b))) + 1 = View(Parent(b)), View(Parent(b)) + 1 = View(b),
         \/ conf.algo = "tchs" /\ s.preferredView >= View(Parent(Parent(b)))
         \/ conf.algo = "fasthotstuff" /\ b \in d
  PROVE  After(k, r, d, s, commit(s, Parent(Parent(b))))
<1>1. /\ Parent(b) \in s.bc.tree /\ Parent(Parent(b)) \in s.bc.tree
  BY DEF HasParentBlock
<1>2. /\ b # Genesis /\ Parent(b) # Genesis
      /\ Cert(Now(k, r, s), Parent(b)) /\ Cert(Now(k, r, s), Parent(Parent(b)))
  BY <1>1 DEF Good, QcPart
<1>3. /\ Parent(b) = Append(Parent(Parent(b)), View(Parent(Parent(b))) + 1)
      /\ b = Append(Parent(b), View(Parent(Parent(b))) + 2)
  BY <1>2, ChainFacts
<1>4. Backed(conf, Now(k, r, s), d, s, Parent(Parent(b)))
  BY <1>2, <1>3 DEF Backed
<1> QED BY <1>1, <1>4, CommitStep

(* What the handlers of the configured protocol promise. *)
SafetyOk(call, k, r) ==
  \A d, s :
    Good(conf, k, r, d, s) =>
      /\ \A b \in Block :
           b \in s.seen => After(k, r, d, s, SafetyBlock(call, r, s, b))
      /\ \A view \in Views, node \in Replicas :
           After(k, r, d, s, SafetyVmo(call, r, s, view, node))
      /\ \A b \in Block, voter \in Replicas :
           b \in Now(k, r, s)[voter] /\ LeaderOf(conf, View(b) + 1) = r
             => After(k, r, d, s, SafetyVote(call, r, s, b, voter))
      /\ \A view \in Views, node \in Replicas, qc \in Block :
           Cert(Now(k, r, s), qc)
             => After(k, r, d, s, ProcessRemoteTmo(s, view, qc, node))
      /\ \A view \in Views : After(k, r, d, s, ProcessLocalTmo(r, s, view))

-----------------------------------------------------------------------------
(* HotStuff *)

HSAlgo == conf.algo # "tchs" /\ conf.algo # "fasthotstuff"

(* The handlers of HotStuff, one after the other. *)
LEMMA HS_Handlers ==
  ASSUME ConfOK, HSAlgo, NEW k, NEW r \in Replicas, NEW call, CallOk(call, k, r)
  PROVE  SafetyOk(call, k, r)
<1>0. conf.algo # "tchs"
  BY DEF HSAlgo
<1> USE <1>0
(* A certified QC moves the lock and the highest QC, and the three blocks  *)
(* of consecutive views that end in its block commit the first; or it is   *)
(* buffered.                                                               *)
<1>1. ASSUME NEW d, NEW s, Good(conf, k, r, d, s), NEW qc \in Block,
             Cert(Now(k, r, s), qc)
      PROVE  After(k, r, d, s, HS_processCertificate(s, qc))
  <2> USE <1>1
  <2> DEFINE t      == HS_updatePreferredView(s, qc)
             locked == updateHighQC(t, qc)
  <2>1. After(k, r, d, s, t)
    <3>1. View(Parent(qc)) \in 0 .. MaxView
      BY BlockFacts
    <3> QED BY <3>1, LockStep, AfterSelf DEF HS_updatePreferredView
  <2>7. View(qc) > 2 => locked.preferredView >= View(Parent(qc))
    <3>1. /\ s \in ReplicaState /\ s.preferredView \in Nat
          /\ View(Parent(qc)) \in 0 .. MaxView
      BY SMTT(20), BlockFacts, StateFacts DEF Good
    <3>2. View(qc) > 2 => t.preferredView >= View(Parent(qc))
      BY SMTT(20), <3>1 DEF HS_updatePreferredView, ReplicaState
    <3>3. t \in ReplicaState
      BY <2>1 DEF After, Good
    <3> HIDE DEF t
    <3>4. locked.preferredView = t.preferredView
      BY <3>3 DEF updateHighQC, ReplicaState
    <3> QED BY <3>2, <3>4
  <2> HIDE DEF t
  <2>2. After(k, r, d, t, locked)
    BY <2>1, AfterGood, CertAfter, HighQCStep
  <2> HIDE DEF locked
  <2>3. After(k, r, d, s, locked) /\ Good(conf, k, r, d, locked)
    BY <2>1, <2>2, AfterTrans, AfterGood
  <2>4. After(k, r, d, s, BufferQC(s, qc))
    BY BufferQCStep
  <2>5. ASSUME HS_commitRule(locked, qc)
        PROVE  After(k, r, d, locked, commit(locked, Parent(Parent(qc))))
    <3>1. /\ qc \in locked.bc.tree /\ Parent(qc) \in locked.bc.tree
          /\ Parent(Parent(qc)) \in locked.bc.tree
          /\ View(Parent(Parent(qc))) + 1 = View(Parent(qc))
          /\ View(Parent(qc)) + 1 = View(qc)
      BY <2>5 DEF HS_commitRule, HasParentBlock
    <3>2. /\ qc # Genesis /\ Parent(qc) # Genesis
          /\ Cert(Now(k, r, locked), Parent(qc))
          /\ Cert(Now(k, r, locked), Parent(Parent(qc)))
      BY <2>3, <3>1 DEF Good, QcPart
    <3>3. Cert(Now(k, r, locked), qc)
      BY <2>3, CertAfter
    <3>4. /\ Parent(qc) = Append(Parent(Parent(qc)), View(Parent(Parent(qc))) + 1)
          /\ qc = Append(Parent(qc), View(Parent(Parent(qc))) + 2)
      BY <3>1, <3>2, ChainFacts
    <3>5. Backed(conf, Now(k, r, locked), d, locked, Parent(Parent(qc)))
      BY <3>2, <3>3, <3>4 DEF Backed, HSAlgo
    <3>6. locked.preferredView > View(Parent(Parent(qc)))
      <4>1. Parent(Parent(qc)) \in Block /\ Parent(Parent(qc)) # Genesis
        BY <2>3, <3>1, StateFacts DEF Good, QcPart
      <4>2. View(Parent(Parent(qc))) \in 1 .. MaxView
        BY <4>1, BlockFacts
      <4>3. locked.preferredView \in Nat
        BY SMTT(20), <2>3, StateFacts DEF Good
      <4> QED BY SMTT(20), <2>7, <3>1, <4>2, <4>3
    <3> QED BY <2>3, <3>1, <3>5, <3>6, CommitStep
  <2>6. HS_processCertificate(s, qc) \in
          {BufferQC(s, qc), locked}
            \cup {x \in {commit(locked, Parent(Parent(qc)))} : HS_commitRule(locked, qc)}
    BY DEF HS_processCertificate, locked, t
  <2> QED BY <2>3, <2>4, <2>5, <2>6, AfterTrans
(* A VMO is counted by the next leader and stored by the others. *)
<1>2. ASSUME NEW d, NEW s, Good(conf, k, r, d, s), NEW view \in Views,
             NEW node \in Replicas
      PROVE  After(k, r, d, s, HS_ProcessRemoteVmo(call, r, s, view, node))
  BY <1>2, CountVmoStep, StoreVmoStep DEF HS_ProcessRemoteVmo
(* The VMO of the replica itself. *)
<1>3. ASSUME NEW d, NEW s, Good(conf, k, r, d, s), NEW view \in Views
      PROVE  After(k, r, d, s, HS_ProcessLocalVmo(call, r, s, view))
  <2> USE <1>3
  <2> DEFINE t == Broadcast(r, s, VmoMsg(r, view, r))
  <2>1. After(k, r, d, s, t)
    BY BroadcastVmoStep
  <2> HIDE DEF t
  <2>2. After(k, r, d, t, HS_ProcessRemoteVmo(call, r, t, view, r))
    BY <2>1, AfterGood, <1>2
  <2> QED BY SMTT(20), <2>1, <2>2, AfterTrans DEF HS_ProcessLocalVmo, t
(* A QC that was just built is processed and the view is left; or it waits *)
(* for its block.                                                          *)
<1>4. ASSUME NEW d, NEW s, Good(conf, k, r, d, s), NEW qc \in Block,
             Cert(Now(k, r, s), qc)
      PROVE  After(k, r, d, s, HS_ProcessNewQC(call, r, s, qc))
  <2> USE <1>4
  <2> DEFINE t == HS_processCertificate(s, qc)
  <2>1. After(k, r, d, s, t)
    BY <1>1
  <2> HIDE DEF t
  <2>2. Good(conf, k, r, d, t) /\ CurView(t) \in Views
    BY <2>1, AfterGood, StateFacts DEF Good, CurView
  <2>3. After(k, r, d, t, HS_ProcessLocalVmo(call, r, t, CurView(t)))
    BY <2>2, <1>3
  <2>4. After(k, r, d, s, BufferQC(s, qc))
    BY BufferQCStep
  <2> QED BY SMTT(20), <2>1, <2>3, <2>4, AfterTrans DEF HS_ProcessNewQC, HS_StartViewChange, t
(* A vote that was cast is counted. *)
<1>5. ASSUME NEW d, NEW s, Good(conf, k, r, d, s), NEW b \in Block,
             NEW voter \in Replicas, b \in Now(k, r, s)[voter]
      PROVE  After(k, r, d, s, HS_ProcessVote(call, r, s, b, voter))
  <2> USE <1>5
  <2> DEFINE added == AddVote(s.bc, b, voter)
             after == [s EXCEPT !.bc = added.bc]
  <2>1. After(k, r, d, s, after) /\ (added.isBuilt => Cert(Now(k, r, after), b))
    BY AddVoteStep
  <2> HIDE DEF after, added
  <2>2. added.isBuilt => After(k, r, d, after, HS_ProcessNewQC(call, r, after, b))
    BY <2>1, AfterGood, <1>4
  <2>3. HS_ProcessVote(call, r, s, b, voter) =
          IF r \in Byz THEN s
          ELSE IF added.isBuilt THEN HS_ProcessNewQC(call, r, after, b) ELSE after
    BY DEF HS_ProcessVote, after, added
  <2> QED BY <2>1, <2>2, <2>3, AfterSelf, AfterTrans
(* The vote of the replica itself is counted or sent. *)
<1>6. ASSUME NEW d, NEW s, Good(conf, k, r, d, s), NEW b \in Block,
             b \in s.voted
      PROVE  After(k, r, d, s, HS_Vote(call, r, s, b))
  <2> USE <1>6
  <2>1. /\ b \in Now(k, r, s)[r]
        /\ After(k, r, d, s, Send(s, VoteMsg(FindLeaderFor(View(b) + 1), b, r)))
    BY SendVoteStep
  <2>2. After(k, r, d, s, HS_ProcessVote(call, r, s, b, r))
    BY <2>1, <1>5
  <2> QED BY <2>1, <2>2 DEF HS_Vote
(* The QC that waited for the block is processed. *)
<1>7. ASSUME NEW d, NEW s, Good(conf, k, r, d, s), NEW b \in Block
      PROVE  After(k, r, d, s, HS_ReleaseQC(call, r, s, b))
  <2> USE <1>7
  <2> DEFINE t    == HS_processCertificate(s, b)
             done == [t EXCEPT !.bufferedQCs = @ \ {b}]
  <2>1. ASSUME b \in s.bufferedQCs
        PROVE  After(k, r, d, s, done)
    <3>1. Cert(Now(k, r, s), b)
      BY <2>1 DEF Good, QcPart
    <3>2. After(k, r, d, s, t)
      BY <3>1, <1>1
    <3> HIDE DEF t
    <3>3. Good(conf, k, r, d, t)
      BY <3>2, AfterGood
    <3>4. After(k, r, d, t, done)
      BY <3>3, DropQCStep
    <3> QED BY SMTT(20), <3>2, <3>4, AfterTrans
  <2> HIDE DEF done
  <2>2. View(b) \in Views
    BY BlockFacts
  <2>3. b \in s.bufferedQCs => After(k, r, d, done, HS_ProcessLocalVmo(call, r, done, View(b)))
    BY <2>1, <2>2, AfterGood, <1>3
  <2>4. HS_ReleaseQC(call, r, s, b) =
          IF b \notin s.bufferedQCs THEN s
          ELSE IF FindLeaderFor(View(b) + 1) = r
               THEN HS_ProcessLocalVmo(call, r, done, View(b)) ELSE done
    BY DEF HS_ReleaseQC, done
  <2> QED BY <2>1, <2>3, <2>4, AfterSelf, AfterTrans
(* The QC in a block that arrived is taken. *)
<1>8. ASSUME NEW d, NEW s, Good(conf, k, r, d, s), NEW b \in Block,
             b \in s.seen
      PROVE  After(k, r, d, s, HS_TakeQC(r, s, b))
  <2> USE <1>8
  <2> DEFINE t == updateHighQC(s, Parent(b))
  <2>1. Parent(b) \in Block /\ Cert(Now(k, r, s), Parent(b))
    BY BlockFacts DEF Good, QcPart
  <2>2. After(k, r, d, s, t)
    BY <2>1, HighQCStep
  <2> HIDE DEF t
  <2>3. Good(conf, k, r, d, t) /\ Cert(Now(k, r, t), Parent(b))
    BY <2>1, <2>2, AfterGood, CertAfter
  <2>4. After(k, r, d, t, HS_processCertificate(t, Parent(b)))
    BY <2>1, <2>3, <1>1
  <2> QED BY SMTT(20), <2>2, <2>4, AfterTrans DEF HS_TakeQC, t
(* The block buffered for the next view is processed. *)
<1>9. ASSUME NEW d, NEW s, Good(conf, k, r, d, s), NEW view
      PROVE  After(k, r, d, s, HS_ProcessNextBlock(call, s, view))
  <2> USE <1>9
  <2> DEFINE t == call.ProcessBlock[s][Waiting(s, view)]
  <2>1. Buffered(s, view) # {} => After(k, r, d, s, t)
    BY WaitingStep
  <2> HIDE DEF t
  <2>2. Buffered(s, view) # {} => After(k, r, d, t, Unbuffer(t, view))
    BY <2>1, AfterGood, BufferStep
  <2> QED BY SMTT(20), <2>1, <2>2, AfterSelf, AfterTrans DEF HS_ProcessNextBlock, t
(* A block that arrived is stored; the QC that waited for it is released. *)
<1>10. ASSUME NEW d, NEW s, Good(conf, k, r, d, s), NEW b \in Block,
              b \in s.seen
       PROVE  After(k, r, d, s, HS_StoreBlock(call, r, s, b))
  <2> USE <1>10
  <2> DEFINE t == [s EXCEPT !.bc = AddBlock(@, b)]
  <2>1. After(k, r, d, s, t)
    BY AddBlockStep
  <2> HIDE DEF t
  <2>2. After(k, r, d, t, HS_ReleaseQC(call, r, t, b))
    BY <2>1, AfterGood, <1>7
  <2> QED BY SMTT(20), <2>1, <2>2, AfterTrans DEF HS_StoreBlock, t
(* The vote, and the block of the next view. *)
<1>11. ASSUME NEW d, NEW s, Good(conf, k, r, d, s), NEW b \in Block
       PROVE  After(k, r, d, s, HS_VoteOn(call, r, s, b))
  <2> USE <1>11
  <2> DEFINE t    == [s EXCEPT !.voted = @ \cup {b}]
             sent == HS_Vote(call, r, t, b)
  <2>1. After(k, r, d, s, t)
    BY GrowFacts, VotedStep
  <2>2. b \in t.voted
    BY DEF Good, ReplicaState
  <2> HIDE DEF t
  <2>3. After(k, r, d, t, sent)
    BY <2>1, <2>2, AfterGood, <1>6
  <2> HIDE DEF sent
  <2>4. After(k, r, d, sent, HS_ProcessNextBlock(call, sent, View(b) + 1))
    BY <2>3, AfterGood, <1>9
  <2>5. After(k, r, d, s, HS_ProcessNextBlock(call, sent, View(b) + 1))
    BY SMTT(20), <2>1, <2>3, <2>4, AfterTrans
  <2> QED BY <2>5, AfterSelf DEF HS_VoteOn, sent, t
(* ProcessBlock on a block that has arrived. *)
<1>12. ASSUME NEW d, NEW s, Good(conf, k, r, d, s), NEW b \in Block,
              b \in s.seen
       PROVE  After(k, r, d, s, HS_ProcessBlock(call, r, s, b))
  <2> USE <1>12
  <2> DEFINE j == JoinFirstView(s)
             t == ReceiveBlock(call, r, j, b)
             u == HS_TakeQC(r, t, b)
             w == HS_StoreBlock(call, r, u, b)
  <2>0. [s EXCEPT !.seen = @ \cup {b}] = s
    BY SMTT(20) DEF Good, ReplicaState
  <2>1. After(k, r, d, s, j)
    BY JoinStep
  <2> HIDE DEF j
  <2>2. Good(conf, k, r, d, j) /\ b \in j.seen
    BY SMTT(20), <2>1, AfterGood
  <2>3. After(k, r, d, j, t)
    BY <2>2, ReceiveStep
  <2> HIDE DEF t
  <2>4. Good(conf, k, r, d, t) /\ b \in t.seen
    BY SMTT(20), <2>2, <2>3, AfterGood
  <2>5. After(k, r, d, t, u)
    BY <2>4, <1>8
  <2> HIDE DEF u
  <2>6. Good(conf, k, r, d, u) /\ b \in u.seen
    BY SMTT(20), <2>4, <2>5, AfterGood
  <2>7. After(k, r, d, u, w)
    BY <2>6, <1>10
  <2> HIDE DEF w
  <2>8. After(k, r, d, w, HS_VoteOn(call, r, w, b))
    BY <2>7, AfterGood, <1>11
  <2>9. After(k, r, d, j, HS_VoteOn(call, r, w, b))
    BY <2>3, <2>5, <2>7, <2>8, AfterTrans
  <2>10. After(k, r, d, j, Buffer(j, b))
    BY <2>2, BufferStep
  <2>11. HS_ProcessBlock(call, r, s, b) =
           IF View(b) > CurView(j) THEN Buffer(j, b) ELSE HS_VoteOn(call, r, w, b)
    BY <2>0 DEF HS_ProcessBlock, HS_AcceptBlock, j, t, u, w
  <2> QED BY <2>1, <2>9, <2>10, <2>11, AfterTrans
(* A TMO is counted, after its QC was taken. *)
<1>13. ASSUME NEW d, NEW s, Good(conf, k, r, d, s), NEW view \in Views,
              NEW node \in Replicas, NEW qc \in Block, Cert(Now(k, r, s), qc)
       PROVE  After(k, r, d, s, HS_ProcessRemoteTmo(s, view, qc, node))
  <2> USE <1>13
  <2> DEFINE t == HS_processCertificate(s, qc)
  <2>1. After(k, r, d, s, t)
    BY <1>1
  <2> HIDE DEF t
  <2>2. After(k, r, d, t, CountTmo(t, view, node))
    BY <2>1, AfterGood, CountTmoStep
  <2> QED BY <2>1, <2>2, AfterTrans DEF HS_ProcessRemoteTmo, t
(* The TMO of the replica itself is broadcast and counted. *)
<1>14. ASSUME NEW d, NEW s, Good(conf, k, r, d, s), NEW view \in Views
       PROVE  After(k, r, d, s, HS_ProcessLocalTmo(r, s, view))
  <2> USE <1>14
  <2> DEFINE t == Broadcast(r, s, TmoMsg(r, view, s.highQC, r))
  <2>1. s.highQC \in Block /\ Cert(Now(k, r, s), s.highQC)
    BY StateFacts DEF Good, QcPart
  <2>2. After(k, r, d, s, t)
    BY <2>1, BroadcastTmoStep
  <2> HIDE DEF t
  <2>3. Good(conf, k, r, d, t) /\ Cert(Now(k, r, t), s.highQC)
    BY <2>1, <2>2, AfterGood, CertAfter
  <2>4. After(k, r, d, t, HS_ProcessRemoteTmo(t, view, s.highQC, r))
    BY <2>1, <2>3, <1>13
  <2> QED BY SMTT(20), <2>2, <2>4, AfterTrans DEF HS_ProcessLocalTmo, t
<1> QED
  BY SMTT(20), <1>12, <1>2, <1>5, <1>13, <1>14
  DEF SafetyOk, SafetyBlock, SafetyVmo, SafetyVote,
      ProcessRemoteTmo, ProcessLocalTmo, HSAlgo

-----------------------------------------------------------------------------
(* Two-chain HotStuff *)

TCAlgo == conf.algo = "tchs"

(* The lock is taken, if block b is going to commit its grandparent. *)
Ready(s, b) ==
  View(Parent(b)) >= 2 /\ View(Parent(b)) + 1 = View(b) /\ HasParentBlock(s.bc, Parent(b))
    => s.preferredView >= View(Parent(Parent(b)))

(* The handlers of Two-chain HotStuff, one after the other. *)
LEMMA TC_Handlers ==
  ASSUME ConfOK, TCAlgo, NEW k, NEW r \in Replicas, NEW call, CallOk(call, k, r)
  PROVE  SafetyOk(call, k, r)
(* A certified QC moves the lock and the highest QC, or is buffered. *)
<1>1. ASSUME NEW d, NEW s, Good(conf, k, r, d, s), NEW qc \in Block,
             Cert(Now(k, r, s), qc), Sourced(conf, k, r, s, qc)
      PROVE  /\ After(k, r, d, s, TC_processCertificate(s, qc))
             /\ TC_processCertificate(s, qc).bc = s.bc
             /\ TC_preferredViewKnown(s, qc) /\ View(qc) >= 2 =>
                  TC_processCertificate(s, qc).preferredView >= View(Parent(qc))
  <2> USE <1>1
  <2> DEFINE t == TC_updatePreferredView(s, qc)
  <2>1. After(k, r, d, s, t)
    <3>1. View(Parent(qc)) \in 0 .. MaxView
      BY BlockFacts
    <3> QED BY <3>1, LockStep, AfterSelf DEF TC_updatePreferredView
  <2>4. s \in ReplicaState /\ t \in ReplicaState
    BY <2>1 DEF After, Good
  <2>5. /\ s.preferredView \in Nat /\ t.preferredView \in Nat /\ View(Parent(qc)) \in Nat
        /\ View(qc) \in Nat
    BY SMTT(20), <2>4, StateFacts, BlockFacts
  <2>6. /\ t.bc = s.bc
        /\ t.preferredView = s.preferredView \/ t.preferredView > s.preferredView
        /\ View(qc) >= 2 => t.preferredView >= View(Parent(qc))
    BY SMTT(20), <2>4, <2>5 DEF TC_updatePreferredView, ReplicaState
  <2> HIDE DEF t
  <2>7. Held(conf, k, r, t, qc)
    <3>1. CASE LeaderOf(conf, View(qc) + 1) = r
      BY <2>5, <2>6, <3>1 DEF Held
    <3>2. CASE Held(conf, k, r, s, qc)
      BY <2>4, <2>6, <3>2, HeldStays
    <3> QED BY <3>1, <3>2 DEF Sourced
  <2>2. After(k, r, d, t, updateHighQC(t, qc))
    <3>1. Good(conf, k, r, d, t) /\ Cert(Now(k, r, t), qc)
      BY <2>1, AfterGood, CertAfter
    <3> QED BY <2>7, <3>1, HighQCStep
  <2>3. After(k, r, d, s, BufferQC(s, qc))
    BY BufferQCStep
  <2>8. /\ updateHighQC(t, qc).bc = t.bc
        /\ updateHighQC(t, qc).preferredView = t.preferredView
        /\ BufferQC(s, qc).bc = s.bc
    BY <2>4 DEF updateHighQC, BufferQC, ReplicaState
  <2>9. TC_processCertificate(s, qc) =
          IF TC_preferredViewKnown(s, qc) THEN updateHighQC(t, qc) ELSE BufferQC(s, qc)
    BY DEF TC_processCertificate, t
  <2>10. After(k, r, d, s, TC_processCertificate(s, qc))
    BY <2>1, <2>2, <2>3, <2>9, AfterTrans
  <2> QED BY <2>6, <2>8, <2>9, <2>10
(* A VMO is counted by the next leader and stored by the others. *)
<1>2. ASSUME NEW d, NEW s, Good(conf, k, r, d, s), NEW view \in Views,
             NEW node \in Replicas
      PROVE  After(k, r, d, s, TC_ProcessRemoteVmo(call, r, s, view, node))
  BY <1>2, CountVmoStep, StoreVmoStep DEF TC_ProcessRemoteVmo
(* The VMO of the replica itself. *)
<1>3. ASSUME NEW d, NEW s, Good(conf, k, r, d, s), NEW view \in Views
      PROVE  After(k, r, d, s, TC_ProcessLocalVmo(call, r, s, view))
  <2> USE <1>3
  <2> DEFINE t == Broadcast(r, s, VmoMsg(r, view, r))
  <2>1. After(k, r, d, s, t)
    BY BroadcastVmoStep
  <2> HIDE DEF t
  <2>2. After(k, r, d, t, TC_ProcessRemoteVmo(call, r, t, view, r))
    BY <2>1, AfterGood, <1>2
  <2> QED BY SMTT(20), <2>1, <2>2, AfterTrans DEF TC_ProcessLocalVmo, t
(* A QC that was just built is processed and the view is left; or it waits *)
(* for its block.                                                          *)
<1>4. ASSUME NEW d, NEW s, Good(conf, k, r, d, s), NEW qc \in Block,
             Cert(Now(k, r, s), qc), LeaderOf(conf, View(qc) + 1) = r
      PROVE  After(k, r, d, s, TC_ProcessNewQC(call, r, s, qc))
  <2> USE <1>4
  <2>0. Sourced(conf, k, r, s, qc)
    BY DEF Sourced
  <2> DEFINE t == TC_processCertificate(s, qc)
  <2>1. After(k, r, d, s, t)
    BY <2>0, <1>1
  <2> HIDE DEF t
  <2>2. Good(conf, k, r, d, t) /\ CurView(t) \in Views
    BY <2>1, AfterGood, StateFacts DEF Good, CurView
  <2>3. After(k, r, d, t, TC_ProcessLocalVmo(call, r, t, CurView(t)))
    BY <2>2, <1>3
  <2>4. After(k, r, d, s, BufferQC(s, qc))
    BY <2>0, BufferQCStep
  <2> QED BY SMTT(20), <2>1, <2>3, <2>4, AfterTrans DEF TC_ProcessNewQC, TC_StartViewChange, t
(* A vote that was cast is counted. *)
<1>5. ASSUME NEW d, NEW s, Good(conf, k, r, d, s), NEW b \in Block,
             NEW voter \in Replicas, b \in Now(k, r, s)[voter],
             LeaderOf(conf, View(b) + 1) = r
      PROVE  After(k, r, d, s, TC_ProcessVote(call, r, s, b, voter))
  <2> USE <1>5
  <2> DEFINE added == AddVote(s.bc, b, voter)
             after == [s EXCEPT !.bc = added.bc]
  <2>1. After(k, r, d, s, after) /\ (added.isBuilt => Cert(Now(k, r, after), b))
    BY AddVoteStep
  <2> HIDE DEF after, added
  <2>2. added.isBuilt => After(k, r, d, after, TC_ProcessNewQC(call, r, after, b))
    BY <2>1, AfterGood, <1>4
  <2>3. TC_ProcessVote(call, r, s, b, voter) =
          IF r \in Byz THEN s
          ELSE IF added.isBuilt THEN TC_ProcessNewQC(call, r, after, b) ELSE after
    BY DEF TC_ProcessVote, after, added
  <2>4. /\ After(k, r, d, s, s)
        /\ added.isBuilt => After(k, r, d, s, TC_ProcessNewQC(call, r, after, b))
    BY <2>1, <2>2, AfterSelf, AfterTrans
  <2> QED BY <2>1, <2>3, <2>4
(* The vote of the replica itself is counted or sent. *)
<1>6. ASSUME NEW d, NEW s, Good(conf, k, r, d, s), NEW b \in Block,
             b \in s.voted
      PROVE  After(k, r, d, s, TC_Vote(call, r, s, b))
  <2> USE <1>6
  <2>1. /\ b \in Now(k, r, s)[r]
        /\ After(k, r, d, s, Send(s, VoteMsg(FindLeaderFor(View(b) + 1), b, r)))
    BY SendVoteStep
  <2>2. FindLeaderFor(View(b) + 1) = LeaderOf(conf, View(b) + 1)
    BY SMTT(20), LeaderFacts, BlockFacts, ReplicaAssumption
  <2>3. FindLeaderFor(View(b) + 1) = r => After(k, r, d, s, TC_ProcessVote(call, r, s, b, r))
    BY <2>1, <2>2, <1>5
  <2> QED BY <2>1, <2>3 DEF TC_Vote
(* The QC that waited for the block is processed. *)
<1>7. ASSUME NEW d, NEW s, Good(conf, k, r, d, s), NEW b \in Block
      PROVE  After(k, r, d, s, TC_ReleaseQC(call, r, s, b))
  <2> USE <1>7
  <2> DEFINE t    == TC_processCertificate(s, b)
             done == [t EXCEPT !.bufferedQCs = @ \ {b}]
  <2>1. ASSUME b \in s.bufferedQCs
        PROVE  After(k, r, d, s, done)
    <3>1. Cert(Now(k, r, s), b) /\ Sourced(conf, k, r, s, b)
      BY <2>1 DEF Good, QcPart, LockPart, TCAlgo
    <3>2. After(k, r, d, s, t)
      BY <3>1, <1>1
    <3> HIDE DEF t
    <3>3. Good(conf, k, r, d, t)
      BY <3>2, AfterGood
    <3>4. After(k, r, d, t, done)
      BY <3>3, DropQCStep
    <3> QED BY SMTT(20), <3>2, <3>4, AfterTrans
  <2> HIDE DEF done
  <2>2. View(b) \in Views
    BY BlockFacts
  <2>3. b \in s.bufferedQCs => After(k, r, d, done, TC_ProcessLocalVmo(call, r, done, View(b)))
    BY <2>1, <2>2, AfterGood, <1>3
  <2>4. TC_ReleaseQC(call, r, s, b) =
          IF b \notin s.bufferedQCs THEN s
          ELSE IF FindLeaderFor(View(b) + 1) = r
               THEN TC_ProcessLocalVmo(call, r, done, View(b)) ELSE done
    BY DEF TC_ReleaseQC, done
  <2> QED BY <2>1, <2>3, <2>4, AfterSelf, AfterTrans
(* The QC in a block that arrived is taken. *)
<1>8. ASSUME NEW d, NEW s, Good(conf, k, r, d, s), NEW b \in Block,
             b \in s.seen
      PROVE  /\ After(k, r, d, s, TC_TakeQC(r, s, b))
             /\ Ready(TC_TakeQC(r, s, b), b)
  <2> USE <1>8
  <2> DEFINE q == Parent(b)
             t == updateHighQC(s, q)
             u == TC_processCertificate(t, q)
  <2>1. q \in Block /\ Cert(Now(k, r, s), q)
    BY BlockFacts DEF Good, QcPart
  <2>2. Held(conf, k, r, s, q)
    BY DEF Good, LockPart, TCAlgo
  <2> HIDE DEF q
  <2>3. After(k, r, d, s, t)
    BY <2>1, <2>2, HighQCStep
  <2>4. s \in ReplicaState /\ t \in ReplicaState
    BY <2>3 DEF After, Good
  <2>5. t.preferredView = s.preferredView /\ t.bc = s.bc
    BY <2>4 DEF updateHighQC, ReplicaState
  <2> HIDE DEF t
  <2>6. Good(conf, k, r, d, t) /\ Cert(Now(k, r, t), q)
    BY <2>1, <2>3, AfterGood, CertAfter
  <2>7. Held(conf, k, r, t, q)
    BY <2>1, <2>2, <2>4, <2>5, HeldStays
  <2>8. Sourced(conf, k, r, t, q)
    BY <2>7 DEF Sourced
  <2>9. /\ After(k, r, d, t, u) /\ u.bc = t.bc
        /\ TC_preferredViewKnown(t, q) /\ View(q) >= 2 => u.preferredView >= View(Parent(q))
    BY <2>1, <2>6, <2>8, <1>1
  <2> HIDE DEF u
  <2>10. CASE Proposer(b) = r
    <3>1. TC_TakeQC(r, s, b) = t
      BY <2>10 DEF TC_TakeQC, t, q
    <3>2. View(q) + 1 = View(b) => LeaderOf(conf, View(q) + 1) = r
      BY SMTT(20), <2>10, LeaderFacts, BlockFacts, ReplicaAssumption DEF Proposer
    <3>3. View(q) >= 2 /\ View(q) + 1 = View(b) => View(Parent(q)) <= t.preferredView
      BY <2>7, <3>2 DEF Held
    <3>4. View(Parent(q)) \in Nat /\ t.preferredView \in Nat
      BY SMTT(20), <2>1, <2>4, BlockFacts, StateFacts
    <3>5. Ready(t, b)
      BY <3>3, <3>4 DEF Ready, q
    <3> QED BY <2>3, <3>1, <3>5
  <2>11. CASE Proposer(b) # r
    <3>1. TC_TakeQC(r, s, b) = u
      BY <2>11 DEF TC_TakeQC, t, q, u
    <3>2. Ready(u, b)
      BY <2>9 DEF Ready, TC_preferredViewKnown, q
    <3> QED BY <2>3, <2>9, <3>1, <3>2, AfterTrans
  <2> QED BY <2>10, <2>11
(* The block buffered for the next view is processed. *)
<1>9. ASSUME NEW d, NEW s, Good(conf, k, r, d, s), NEW view
      PROVE  After(k, r, d, s, TC_ProcessNextBlock(call, s, view))
  BY <1>9, WaitingStep, AfterSelf DEF TC_ProcessNextBlock
(* The block commits its grandparent. *)
<1>10. ASSUME NEW d, NEW s, Good(conf, k, r, d, s), NEW b \in Block,
              b \in s.seen, Ready(s, b)
       PROVE  After(k, r, d, s, TC_CheckCommit(s, b))
  BY <1>10, TwoChainStep, AfterSelf DEF TC_CheckCommit, TC_commitRule, TCAlgo, Ready
(* A block that arrived is stored and commits its grandparent; the QC that *)
(* waited for it is released.                                              *)
<1>11. ASSUME NEW d, NEW s, Good(conf, k, r, d, s), NEW b \in Block,
              b \in s.seen, Ready(s, b)
       PROVE  After(k, r, d, s, TC_StoreBlock(call, r, s, b))
  <2> USE <1>11
  <2> DEFINE t == [s EXCEPT !.bc = AddBlock(@, b)]
             u == TC_CheckCommit(t, b)
  <2>1. After(k, r, d, s, t)
    BY AddBlockStep
  <2>6. Ready(t, b)
    <3>1. s \in ReplicaState /\ t.preferredView = s.preferredView /\ t.bc = AddBlock(s.bc, b)
      BY DEF Good, ReplicaState
    <3>2. t.bc.tree \subseteq s.bc.tree \cup {b}
      BY SMTT(20), <3>1, StateFacts DEF AddBlock
    <3> HIDE DEF t
    <3>3. b # Genesis
      BY DEF Good, QcPart
    <3>4. Parent(b) # b /\ Parent(Parent(b)) # b
      BY <3>3, AncestorFacts
    <3>5. HasParentBlock(t.bc, Parent(b)) => HasParentBlock(s.bc, Parent(b))
      BY <3>2, <3>4 DEF HasParentBlock
    <3> QED BY <3>1, <3>5 DEF Ready
  <2> HIDE DEF t
  <2>2. Good(conf, k, r, d, t) /\ b \in t.seen
    BY SMTT(20), <2>1, AfterGood
  <2>3. After(k, r, d, t, u)
    BY <2>2, <2>6, <1>10
  <2> HIDE DEF u
  <2>4. After(k, r, d, u, TC_ReleaseQC(call, r, u, b))
    BY <2>3, AfterGood, <1>7
  <2>5. After(k, r, d, s, TC_ReleaseQC(call, r, u, b))
    BY <2>1, <2>3, <2>4, AfterTrans
  <2> QED BY <2>5 DEF TC_StoreBlock, t, u
(* The vote, and the block of the next view. *)
<1>12. ASSUME NEW d, NEW s, Good(conf, k, r, d, s), NEW b \in Block
       PROVE  After(k, r, d, s, TC_VoteOn(call, r, s, b))
  <2> USE <1>12
  <2> DEFINE t    == [s EXCEPT !.voted = @ \cup {b}]
             sent == TC_Vote(call, r, t, b)
  <2>1. After(k, r, d, s, t)
    BY GrowFacts, VotedStep
  <2>2. b \in t.voted
    BY DEF Good, ReplicaState
  <2> HIDE DEF t
  <2>3. After(k, r, d, t, sent)
    BY <2>1, <2>2, AfterGood, <1>6
  <2> HIDE DEF sent
  <2>4. After(k, r, d, sent, TC_ProcessNextBlock(call, sent, View(b) + 1))
    BY <2>3, AfterGood, <1>9
  <2>5. After(k, r, d, s, TC_ProcessNextBlock(call, sent, View(b) + 1))
    BY SMTT(20), <2>1, <2>3, <2>4, AfterTrans
  <2> QED BY <2>5, AfterSelf DEF TC_VoteOn, sent, t
(* ProcessBlock on a block that has arrived. *)
<1>13. ASSUME NEW d, NEW s, Good(conf, k, r, d, s), NEW b \in Block,
              b \in s.seen
       PROVE  After(k, r, d, s, TC_ProcessBlock(call, r, s, b))
  <2> USE <1>13
  <2> DEFINE j == JoinFirstView(s)
             t == ReceiveBlock(call, r, j, b)
             u == TC_TakeQC(r, t, b)
             w == TC_StoreBlock(call, r, u, b)
  <2>0. [s EXCEPT !.seen = @ \cup {b}] = s
    BY SMTT(20) DEF Good, ReplicaState
  <2>1. After(k, r, d, s, j)
    BY JoinStep
  <2> HIDE DEF j
  <2>2. Good(conf, k, r, d, j) /\ b \in j.seen
    BY SMTT(20), <2>1, AfterGood
  <2>3. After(k, r, d, j, t)
    BY <2>2, ReceiveStep
  <2> HIDE DEF t
  <2>4. Good(conf, k, r, d, t) /\ b \in t.seen
    BY SMTT(20), <2>2, <2>3, AfterGood
  <2>5. After(k, r, d, t, u) /\ Ready(u, b)
    BY <2>4, <1>8
  <2> HIDE DEF u
  <2>6. Good(conf, k, r, d, u) /\ b \in u.seen
    BY SMTT(20), <2>4, <2>5, AfterGood
  <2>7. After(k, r, d, u, w)
    BY <2>5, <2>6, <1>11
  <2> HIDE DEF w
  <2>8. After(k, r, d, w, TC_VoteOn(call, r, w, b))
    BY <2>7, AfterGood, <1>12
  <2>9. After(k, r, d, j, TC_VoteOn(call, r, w, b))
    BY <2>3, <2>5, <2>7, <2>8, AfterTrans
  <2>10. After(k, r, d, j, Buffer(j, b))
    BY <2>2, BufferStep
  <2>11. TC_ProcessBlock(call, r, s, b) =
           IF View(b) > CurView(j) THEN Buffer(j, b) ELSE TC_VoteOn(call, r, w, b)
    BY <2>0 DEF TC_ProcessBlock, TC_AcceptBlock, j, t, u, w
  <2> QED BY <2>1, <2>9, <2>10, <2>11, AfterTrans
(* A TMO is counted. *)
<1>14. ASSUME NEW d, NEW s, Good(conf, k, r, d, s), NEW view \in Views,
              NEW node \in Replicas, NEW qc
       PROVE  After(k, r, d, s, TC_ProcessRemoteTmo(s, view, qc, node))
  BY <1>14, CountTmoStep, AfterSelf DEF TC_ProcessRemoteTmo
(* The TMO of the replica itself is broadcast and counted. *)
<1>15. ASSUME NEW d, NEW s, Good(conf, k, r, d, s), NEW view \in Views
       PROVE  After(k, r, d, s, TC_ProcessLocalTmo(r, s, view))
  <2> USE <1>15
  <2> DEFINE t == Broadcast(r, s, TmoMsg(r, view, s.highQC, r))
  <2>1. s.highQC \in Block /\ Cert(Now(k, r, s), s.highQC)
    BY StateFacts DEF Good, QcPart
  <2>2. After(k, r, d, s, t)
    BY <2>1, BroadcastTmoStep
  <2> HIDE DEF t
  <2>3. Good(conf, k, r, d, t) /\ Cert(Now(k, r, t), s.highQC)
    BY <2>1, <2>2, AfterGood, CertAfter
  <2>4. After(k, r, d, t, TC_ProcessRemoteTmo(t, view, s.highQC, r))
    BY <2>1, <2>3, <1>14
  <2> QED BY SMTT(20), <2>2, <2>4, AfterTrans DEF TC_ProcessLocalTmo, t
<1> QED BY SMTT(20), <1>13, <1>2, <1>5, <1>14, <1>15
       DEF SafetyOk, SafetyBlock, SafetyVmo, SafetyVote, ProcessRemoteTmo, ProcessLocalTmo, TCAlgo

-----------------------------------------------------------------------------
(* Fast-HotStuff *)

FHAlgo == conf.algo = "fasthotstuff"

(* The handlers of Fast-HotStuff, one after the other. *)
LEMMA FH_Handlers ==
  ASSUME ConfOK, FHAlgo, NEW k, NEW r \in Replicas, NEW call, CallOk(call, k, r)
  PROVE  SafetyOk(call, k, r)
<1>0. conf.algo # "tchs"
  BY DEF FHAlgo
<1> USE <1>0
(* A certified QC of the current view moves the lock and the highest QC,   *)
(* or is buffered.                                                         *)
<1>1. ASSUME NEW d, NEW s, Good(conf, k, r, d, s), NEW qc \in Block,
             Cert(Now(k, r, s), qc)
      PROVE  After(k, r, d, s, FH_processCertificate(s, qc))
  <2> USE <1>1
  <2> DEFINE t == FH_updatePreferredView(s, qc)
  <2>1. After(k, r, d, s, t)
    <3>1. View(qc) \in 0 .. MaxView
      BY BlockFacts
    <3> QED BY <3>1, LockStep, AfterSelf DEF FH_updatePreferredView
  <2> HIDE DEF t
  <2>2. After(k, r, d, t, updateHighQC(t, qc))
    BY <2>1, AfterGood, CertAfter, HighQCStep
  <2>3. After(k, r, d, s, BufferQC(s, qc))
    BY BufferQCStep
  <2> QED BY <2>1, <2>2, <2>3, AfterSelf, AfterTrans DEF FH_processCertificate, t
(* A VMO is counted by the next leader and stored by the others. *)
<1>2. ASSUME NEW d, NEW s, Good(conf, k, r, d, s), NEW view \in Views,
             NEW node \in Replicas
      PROVE  After(k, r, d, s, FH_ProcessRemoteVmo(call, r, s, view, node))
  BY <1>2, CountVmoStep, StoreVmoStep DEF FH_ProcessRemoteVmo
(* The VMO of the replica itself. *)
<1>3. ASSUME NEW d, NEW s, Good(conf, k, r, d, s), NEW view \in Views
      PROVE  After(k, r, d, s, FH_ProcessLocalVmo(call, r, s, view))
  <2> USE <1>3
  <2> DEFINE t == Broadcast(r, s, VmoMsg(r, view, r))
  <2>1. After(k, r, d, s, t)
    BY BroadcastVmoStep
  <2> HIDE DEF t
  <2>2. After(k, r, d, t, FH_ProcessRemoteVmo(call, r, t, view, r))
    BY <2>1, AfterGood, <1>2
  <2> QED BY SMTT(20), <2>1, <2>2, AfterTrans DEF FH_ProcessLocalVmo, t
(* A QC that was just built is processed and the view is left; or it waits *)
(* for its block.                                                          *)
<1>4. ASSUME NEW d, NEW s, Good(conf, k, r, d, s), NEW qc \in Block,
             Cert(Now(k, r, s), qc)
      PROVE  After(k, r, d, s, FH_ProcessNewQC(call, r, s, qc))
  <2> USE <1>4
  <2> DEFINE t == FH_processCertificate(s, qc)
  <2>1. After(k, r, d, s, t)
    BY <1>1
  <2> HIDE DEF t
  <2>2. View(qc) \in Views
    BY BlockFacts
  <2>3. After(k, r, d, t, FH_ProcessLocalVmo(call, r, t, View(qc)))
    BY <2>1, <2>2, AfterGood, <1>3
  <2>4. After(k, r, d, s, BufferQC(s, qc))
    BY BufferQCStep
  <2> QED BY SMTT(20), <2>1, <2>3, <2>4, AfterTrans DEF FH_ProcessNewQC, t
(* A vote that was cast is counted. *)
<1>5. ASSUME NEW d, NEW s, Good(conf, k, r, d, s), NEW b \in Block,
             NEW voter \in Replicas, b \in Now(k, r, s)[voter]
      PROVE  After(k, r, d, s, FH_ProcessVote(call, r, s, b, voter))
  <2> USE <1>5
  <2> DEFINE added == AddVote(s.bc, b, voter)
             after == [s EXCEPT !.bc = added.bc]
  <2>1. After(k, r, d, s, after) /\ (added.isBuilt => Cert(Now(k, r, after), b))
    BY AddVoteStep
  <2> HIDE DEF after, added
  <2>2. added.isBuilt => After(k, r, d, after, FH_ProcessNewQC(call, r, after, b))
    BY <2>1, AfterGood, <1>4
  <2>3. FH_ProcessVote(call, r, s, b, voter) =
          IF r \in Byz THEN s
          ELSE IF added.isBuilt THEN FH_ProcessNewQC(call, r, after, b) ELSE after
    BY DEF FH_ProcessVote, after, added
  <2> QED BY <2>1, <2>2, <2>3, AfterSelf, AfterTrans
(* The vote of the replica itself is counted or sent. *)
<1>6. ASSUME NEW d, NEW s, Good(conf, k, r, d, s), NEW b \in Block,
             b \in s.voted
      PROVE  After(k, r, d, s, FH_Vote(call, r, s, b))
  <2> USE <1>6
  <2>1. /\ b \in Now(k, r, s)[r]
        /\ After(k, r, d, s, Send(s, VoteMsg(FindLeaderFor(View(b) + 1), b, r)))
    BY SendVoteStep
  <2>2. After(k, r, d, s, FH_ProcessVote(call, r, s, b, r))
    BY <2>1, <1>5
  <2> QED BY <2>1, <2>2 DEF FH_Vote
(* The QC that waited for the block is processed. *)
<1>7. ASSUME NEW d, NEW s, Good(conf, k, r, d, s), NEW b \in Block
      PROVE  After(k, r, d, s, FH_ReleaseQC(call, r, s, b))
  <2> USE <1>7
  <2> DEFINE t    == FH_processCertificate(s, b)
             done == [t EXCEPT !.bufferedQCs = @ \ {b}]
  <2>1. ASSUME b \in s.bufferedQCs
        PROVE  After(k, r, d, s, done)
    <3>1. Cert(Now(k, r, s), b)
      BY <2>1 DEF Good, QcPart
    <3>2. After(k, r, d, s, t)
      BY <3>1, <1>1
    <3> HIDE DEF t
    <3>3. Good(conf, k, r, d, t)
      BY <3>2, AfterGood
    <3>4. After(k, r, d, t, done)
      BY <3>3, DropQCStep
    <3> QED BY SMTT(20), <3>2, <3>4, AfterTrans
  <2> HIDE DEF done
  <2>2. View(b) \in Views
    BY BlockFacts
  <2>3. b \in s.bufferedQCs => After(k, r, d, done, FH_ProcessLocalVmo(call, r, done, View(b)))
    BY <2>1, <2>2, AfterGood, <1>3
  <2>4. FH_ReleaseQC(call, r, s, b) =
          IF b \notin s.bufferedQCs THEN s
          ELSE IF FindLeaderFor(View(b) + 1) = r
               THEN FH_ProcessLocalVmo(call, r, done, View(b)) ELSE done
    BY DEF FH_ReleaseQC, done
  <2> QED BY <2>1, <2>3, <2>4, AfterSelf, AfterTrans
(* The QC in a block that arrived is taken. *)
<1>8. ASSUME NEW d, NEW s, Good(conf, k, r, d, s), NEW b \in Block,
             b \in s.seen
      PROVE  After(k, r, d, s, FH_TakeQC(r, s, b))
  <2> USE <1>8
  <2> DEFINE t == updateHighQC(s, Parent(b))
  <2>1. Parent(b) \in Block /\ Cert(Now(k, r, s), Parent(b))
    BY BlockFacts DEF Good, QcPart
  <2>2. After(k, r, d, s, t)
    BY <2>1, HighQCStep
  <2> HIDE DEF t
  <2>3. Good(conf, k, r, d, t) /\ Cert(Now(k, r, t), Parent(b))
    BY <2>1, <2>2, AfterGood, CertAfter
  <2>4. After(k, r, d, t, FH_processCertificate(t, Parent(b)))
    BY <2>1, <2>3, <1>1
  <2>5. FH_TakeQC(r, s, b) =
          IF Proposer(b) = r THEN t ELSE FH_processCertificate(t, Parent(b))
    BY DEF FH_TakeQC, t
  <2> QED BY <2>2, <2>4, <2>5, AfterTrans
(* The block buffered for the next view is processed. *)
<1>9. ASSUME NEW d, NEW s, Good(conf, k, r, d, s), NEW view
      PROVE  After(k, r, d, s, FH_ProcessNextBlock(call, s, view))
  BY <1>9, WaitingStep, AfterSelf DEF FH_ProcessNextBlock
(* The block commits its grandparent, counting on the vote for it that     *)
(* follows.                                                                *)
<1>10. ASSUME NEW d, NEW s, Good(conf, k, r, d, s), NEW b \in Block,
              b \in s.seen, b \in d
       PROVE  After(k, r, d, s, FH_CheckCommit(s, b))
  BY <1>10, TwoChainStep, AfterSelf DEF FH_CheckCommit, FH_commitRule, FHAlgo
(* The vote, and the block of the next view. *)
<1>11. ASSUME NEW d, NEW s, NEW b \in Block, Good(conf, k, r, d \cup {b}, s)
       PROVE  After(k, r, d, s, FH_VoteFor(call, r, s, b))
  <2> USE <1>11
  <2> DEFINE t    == [s EXCEPT !.voted = @ \cup {b}]
             sent == FH_Vote(call, r, t, b)
  <2>1. After(k, r, d, s, t)
    BY VotedStep
  <2>2. b \in t.voted
    BY DEF Good, ReplicaState
  <2> HIDE DEF t
  <2>3. After(k, r, d, t, sent)
    BY <2>1, <2>2, AfterGood, <1>6
  <2> HIDE DEF sent
  <2>4. After(k, r, d, sent, FH_ProcessNextBlock(call, sent, View(b) + 1))
    BY <2>3, AfterGood, <1>9
  <2>5. After(k, r, d, s, FH_ProcessNextBlock(call, sent, View(b) + 1))
    BY SMTT(20), <2>1, <2>3, <2>4, AfterTrans
  <2> QED BY <2>5 DEF FH_VoteFor, sent, t
(* The QC is taken, the grandparent committed and the waiting QC released  *)
(* before the vote that all of them count on.                              *)
<1>12. ASSUME NEW d, NEW s, Good(conf, k, r, d, s), NEW b \in Block,
              b \in s.seen
       PROVE  After(k, r, d, s, FH_VoteOn(call, r, s, b))
  <2> USE <1>12
  <2> DEFINE e == d \cup {b}
             t == FH_TakeQC(r, s, b)
             u == FH_CheckCommit(t, b)
             w == FH_ReleaseQC(call, r, u, b)
  <2>1. After(k, r, d, s, t)
    BY <1>8
  <2> HIDE DEF t
  <2>2. Good(conf, k, r, e, t) /\ b \in t.seen /\ b \in e
    <3>1. Good(conf, k, r, d, t) /\ t.seen = s.seen
      BY <2>1 DEF After
    <3>2. Good(conf, k, r, e, t)
      BY <3>1, GrowFacts
    <3> QED BY <3>1, <3>2
  <2>3. After(k, r, e, t, u)
    <3> HIDE DEF e
    <3> QED BY <2>2, <1>10
  <2> HIDE DEF u
  <2>4. After(k, r, e, u, w)
    <3> HIDE DEF e
    <3> QED BY <2>3, AfterGood, <1>7
  <2> HIDE DEF w
  <2>5. After(k, r, d, w, FH_VoteFor(call, r, w, b))
    BY <2>4, AfterGood, <1>11
  <2> HIDE DEF e
  <2>6. After(k, r, d, s, FH_VoteFor(call, r, w, b))
    BY <2>1, <2>3, <2>4, <2>5, AfterTrans
  <2> QED BY <2>6, AfterSelf DEF FH_VoteOn, t, u, w
(* ProcessBlock on a block that has arrived. *)
<1>13. ASSUME NEW d, NEW s, Good(conf, k, r, d, s), NEW b \in Block,
              b \in s.seen
       PROVE  After(k, r, d, s, FH_ProcessBlock(call, r, s, b))
  <2> USE <1>13
  <2> DEFINE j == JoinFirstView(s)
             t == ReceiveBlock(call, r, j, b)
             u == [t EXCEPT !.bc = AddBlock(@, b)]
  <2>0. [s EXCEPT !.seen = @ \cup {b}] = s
    BY SMTT(20) DEF Good, ReplicaState
  <2>1. After(k, r, d, s, j)
    BY JoinStep
  <2> HIDE DEF j
  <2>2. Good(conf, k, r, d, j) /\ b \in j.seen
    BY SMTT(20), <2>1, AfterGood
  <2>3. After(k, r, d, j, t)
    BY <2>2, ReceiveStep
  <2> HIDE DEF t
  <2>4. Good(conf, k, r, d, t) /\ b \in t.seen
    BY SMTT(20), <2>2, <2>3, AfterGood
  <2>5. After(k, r, d, t, u)
    BY <2>4, AddBlockStep
  <2> HIDE DEF u
  <2>6. Good(conf, k, r, d, u) /\ b \in u.seen
    BY SMTT(20), <2>4, <2>5, AfterGood
  <2>7. After(k, r, d, u, FH_VoteOn(call, r, u, b))
    BY <2>6, <1>12
  <2>8. After(k, r, d, j, FH_VoteOn(call, r, u, b))
    BY <2>3, <2>5, <2>7, AfterTrans
  <2>9. After(k, r, d, j, Buffer(j, b))
    BY <2>2, BufferStep
  <2>10. FH_ProcessBlock(call, r, s, b) =
           IF View(b) > CurView(j) THEN Buffer(j, b) ELSE FH_VoteOn(call, r, u, b)
    BY <2>0 DEF FH_ProcessBlock, FH_AcceptBlock, j, t, u
  <2> QED BY <2>1, <2>8, <2>9, <2>10, AfterTrans
(* A TMO is counted. *)
<1>14. ASSUME NEW d, NEW s, Good(conf, k, r, d, s), NEW view \in Views,
              NEW node \in Replicas, NEW qc
       PROVE  After(k, r, d, s, FH_ProcessRemoteTmo(s, view, qc, node))
  BY <1>14, CountTmoStep DEF FH_ProcessRemoteTmo
(* The TMO of the replica itself is broadcast and counted. *)
<1>15. ASSUME NEW d, NEW s, Good(conf, k, r, d, s), NEW view \in Views
       PROVE  After(k, r, d, s, FH_ProcessLocalTmo(r, s, view))
  <2> USE <1>15
  <2> DEFINE t == Broadcast(r, s, TmoMsg(r, view, s.highQC, r))
  <2>1. s.highQC \in Block /\ Cert(Now(k, r, s), s.highQC)
    BY StateFacts DEF Good, QcPart
  <2>2. After(k, r, d, s, t)
    BY <2>1, BroadcastTmoStep
  <2> HIDE DEF t
  <2>3. Good(conf, k, r, d, t) /\ Cert(Now(k, r, t), s.highQC)
    BY <2>1, <2>2, AfterGood, CertAfter
  <2>4. After(k, r, d, t, FH_ProcessRemoteTmo(t, view, s.highQC, r))
    BY <2>1, <2>3, <1>14
  <2> QED BY SMTT(20), <2>2, <2>4, AfterTrans DEF FH_ProcessLocalTmo, t
<1> QED
  BY SMTT(20), <1>13, <1>2, <1>5, <1>14, <1>15
  DEF SafetyOk, SafetyBlock, SafetyVmo, SafetyVote,
      ProcessRemoteTmo, ProcessLocalTmo, FHAlgo

-----------------------------------------------------------------------------
(* The configured protocol *)

(* The handlers of the configured protocol. *)
LEMMA SafetyStep ==
  ASSUME ConfOK, NEW k, NEW r \in Replicas, NEW call, CallOk(call, k, r)
  PROVE  SafetyOk(call, k, r)
  BY HS_Handlers, TC_Handlers, FH_Handlers DEF HSAlgo, TCAlgo, FHAlgo

(* What the handlers that an event starts with promise. *)
CallsOk == \A k : \A r \in Replicas : SafetyOk(Calls[MaxDepth][r], k, r)
=============================================================================
