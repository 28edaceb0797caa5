---------------------------- MODULE Node_proofs ----------------------------
(***************************************************************************)
(* The start and the pool of a whole replica, for any messages, any number *)
(* of transactions, any limit and any size of blocks and channels.         *)
(*                                                                         *)
(* The invariant of the pool counts: Places(t) is the number of places in  *)
(* which transaction t is, and each step of Mempool takes it out of one    *)
(* place for each one it puts it into.                                     *)
(***************************************************************************)
EXTENDS Node, FiniteSetTheorems, SequenceTheorems, TLAPS

(* Zenon proves a step that names no prover; SMTT(20) sends one to the SMT solver. *)
USE ZenonT(20)

-----------------------------------------------------------------------------
(* The start signal *)

(* A goroutine that has sent the signal, or is about to, has set the flag; *)
(* so once the loop runs no other one gets past its load.                  *)
StartInv ==
  /\ pc \in [Callers -> {"idle", "load", "store", "signal", "offer", "kick"}]
  /\ Running \/ (\E g \in Callers : pc[g] = "signal") => isStarted
  /\ StuckOnlyByRace

(* Every step of the replica is a step of the goroutines of Boot or leaves *)
(* them where they are.                                                    *)
LEMMA StepOfBoot ==
  ASSUME [NodeNext]_allVars
  PROVE  [Next]_vars
<1>1. CASE Starting
  BY <1>1 DEF Starting, Next, Main, handle, txn, Callers
<1>2. CASE handleTxn
  BY <1>2 DEF handleTxn, Next, txn
<1>3. CASE Propose \/ Decide \/ Deliver \/ ListenCommittedBlocks
  BY <1>3 DEF Propose, Decide, Deliver, ListenCommittedBlocks
<1>4. CASE EndOfEvent
  BY <1>4 DEF EndOfEvent, Next, Main
<1>5. CASE UNCHANGED allVars
  BY <1>5 DEF allVars
<1> QED
  BY <1>1, <1>2, <1>3, <1>4, <1>5 DEF NodeNext

(* The start signal inside the replica. *)
LEMMA StartStep ==
  ASSUME StartInv, [Next]_vars
  PROVE  StartInv'
<1>0. "wait" \notin Types /\ "run" \notin Types
  BY BootAssumption
<1>1. ASSUME NEW g \in Callers, Load(g)
      PROVE  StartInv'
  BY <1>1 DEF StartInv, StuckOnlyByRace, Running, Load, Goto, After, Callers
<1>2. ASSUME NEW g \in Callers, Store(g)
      PROVE  StartInv'
  BY <1>2 DEF StartInv, StuckOnlyByRace, Running, Store, Goto, Callers
<1>3. ASSUME NEW g \in Callers, Signal(g)
      PROVE  StartInv'
  BY <1>3 DEF StartInv, StuckOnlyByRace, Running, Signal, Goto, After, Callers
<1>4. CASE TakeMessage
  BY <1>4 DEF StartInv, StuckOnlyByRace, Running, TakeMessage, Goto, Callers
<1>5. CASE Offer
  BY <1>5 DEF StartInv, StuckOnlyByRace, Running, Offer, Goto, Callers
<1>6. CASE TakeTxn \/ KickOff
  BY <1>6 DEF StartInv, StuckOnlyByRace, Running, TakeTxn, KickOff, Goto, Callers
<1>7. CASE Wait
  BY <1>0, <1>7 DEF StartInv, StuckOnlyByRace, Running, Wait
<1>8. CASE Process
  BY <1>8 DEF StartInv, StuckOnlyByRace, Running, Process
<1>9. CASE MessageArrives \/ TxnArrives \/ UNCHANGED vars
  BY <1>9 DEF StartInv, StuckOnlyByRace, Running, MessageArrives, TxnArrives, vars
<1> QED
  BY <1>1, <1>2, <1>3, <1>4, <1>5, <1>6, <1>7, <1>8, <1>9
  DEF Next, Main, handle, txn, Callers

(* Of the goroutines that share the start signal only the loser of the     *)
(* race between the load and the store of isStarted is left behind, and    *)
(* never both once the event loop runs: whatever the pool and the channels *)
(* of decided blocks do meanwhile.                                         *)
THEOREM StartLeavesOneBehind == NodeSpec => []StuckOnlyByRace
<1>1. NodeInit => StartInv
  BY BootAssumption DEF NodeInit, Init, StartInv, StuckOnlyByRace, Running, Callers
<1>2. StartInv /\ [NodeNext]_allVars => StartInv'
  BY StepOfBoot, StartStep
<1>3. StartInv => StuckOnlyByRace
  BY DEF StartInv
<1> QED
  BY <1>1, <1>2, <1>3, PTL DEF NodeSpec

-----------------------------------------------------------------------------
(* The pool *)

(* The operators of the community modules that Mempool uses are the ones   *)
(* of the library's theorems.                                              *)
LEMMA PoolOperators ==
  /\ \A S : P!Cardinality(S) = Cardinality(S)
  /\ \A s : P!Range(s) = Range(s)
  /\ \A S, T : P!Bijection(S, T) = Bijection(S, T)
<1>1. \A S : P!Cardinality(S) = Cardinality(S)
  BY DEF P!Cardinality, Cardinality
<1>2. \A s : P!Range(s) = Range(s)
  BY DEF P!Range, Range
<1>3. \A f : P!IsInjective(f) = IsInjective(f)
  BY DEF P!IsInjective, IsInjective
<1>4. \A S, T : P!Bijection(S, T) = Bijection(S, T)
  BY <1>3 DEF P!Bijection, Bijection, P!Injection, Injection, P!Surjection, Surjection
<1> QED BY <1>1, <1>2, <1>4

-----------------------------------------------------------------------------
(* Counting in lists *)

(* The positions of a list that hold a member of S, and their number. *)
Hits(list, S)  == {i \in DOMAIN list : list[i] \in S}
Count(list, S) == Cardinality(Hits(list, S))

(* Positions are finitely many. *)
LEMMA CountType ==
  ASSUME NEW T, NEW s \in Seq(T), NEW S
  PROVE  /\ Hits(s, S) \subseteq 1 .. Len(s) /\ IsFiniteSet(Hits(s, S))
         /\ Count(s, S) \in Nat
<1>1. Len(s) \in Nat /\ DOMAIN s = 1 .. Len(s)
  BY LenProperties
<1>2. Hits(s, S) \subseteq 1 .. Len(s)
  BY <1>1 DEF Hits
<1>3. IsFiniteSet(1 .. Len(s))
  BY SMTT(20), <1>1, FS_Interval
<1> QED BY <1>2, <1>3, FS_Subset, FS_CardinalityType DEF Count

(* A list made of two parts. *)
Joined(w, s, u) == w = s \o u

(* What a list holds it holds in its first or in its second part. *)
LEMMA CountConcat ==
  ASSUME NEW T, NEW s \in Seq(T), NEW u \in Seq(T), NEW w, Joined(w, s, u), NEW S
  PROVE  Count(w, S) = Count(s, S) + Count(u, S)
<1> DEFINE n == Len(s)
           H == {i + n : i \in Hits(u, S)}
           f == [i \in Hits(u, S) |-> i + n]
<1>1. /\ n \in Nat /\ DOMAIN s = 1 .. n /\ Len(u) \in Nat /\ DOMAIN u = 1 .. Len(u)
      /\ w \in Seq(T) /\ DOMAIN w = 1 .. (n + Len(u))
      /\ \A i \in 1 .. n : w[i] = s[i]
      /\ \A i \in 1 .. Len(u) : w[i + n] = u[i]
  BY SMTT(20), LenProperties, ConcatProperties DEF Joined
<1>2. Hits(w, S) = Hits(s, S) \cup H
  <2>1. ASSUME NEW i \in Hits(w, S) PROVE i \in Hits(s, S) \cup H
    <3>1. CASE i \in 1 .. n
      BY <1>1, <2>1, <3>1 DEF Hits
    <3>2. CASE i \notin 1 .. n
      <4>1. i - n \in 1 .. Len(u) /\ i = (i - n) + n
        BY SMTT(20), <1>1, <2>1, <3>2 DEF Hits
      <4>2. i - n \in Hits(u, S)
        BY <1>1, <2>1, <4>1 DEF Hits
      <4> QED BY <4>1, <4>2
    <3> QED BY <3>1, <3>2
  <2>2. ASSUME NEW i \in Hits(s, S) PROVE i \in Hits(w, S)
    BY SMTT(20), <1>1, <2>2 DEF Hits
  <2>3. ASSUME NEW i \in Hits(u, S) PROVE i + n \in Hits(w, S)
    BY SMTT(20), <1>1, <2>3 DEF Hits
  <2> QED BY <2>1, <2>2, <2>3
<1>3. Hits(s, S) \cap H = {}
  BY SMTT(20), <1>1 DEF Hits
<1>4. IsFiniteSet(Hits(s, S)) /\ IsFiniteSet(Hits(u, S)) /\ Count(u, S) \in Nat
  BY CountType
<1>5. f \in Bijection(Hits(u, S), H)
  <2>1. Hits(u, S) \subseteq Nat
    BY SMTT(20), <1>1 DEF Hits
  <2>2. f \in Injection(Hits(u, S), H)
    BY SMTT(20), <1>1, <2>1 DEF Injection, IsInjective
  <2>3. f \in Surjection(Hits(u, S), H)
    BY DEF Surjection
  <2> QED BY <2>2, <2>3 DEF Bijection
<1> HIDE DEF H, f
<1>6. IsFiniteSet(H) /\ Cardinality(H) = Count(u, S)
  BY <1>4, <1>5, FS_Bijection DEF Count, ExistsBijection
<1>7. Cardinality(Hits(s, S) \cup H) = Cardinality(Hits(s, S)) + Cardinality(H) - Cardinality({})
  BY SMTT(20), <1>3, <1>4, <1>6, FS_Union
<1>8. Cardinality({}) = 0
  BY FS_EmptySet
<1> QED BY SMTT(20), <1>2, <1>4, <1>6, <1>7, <1>8, CountType DEF Count

(* An empty list and a list of one element. *)
LEMMA CountOne ==
  ASSUME NEW x, NEW S
  PROVE  /\ Count(<< >>, S) = 0
         /\ Count(<<x>>, S) = IF x \in S THEN 1 ELSE 0
<1>1. Hits(<< >>, S) = {}
  BY SMTT(20) DEF Hits
<1>2. Hits(<<x>>, S) = IF x \in S THEN {1} ELSE {}
  BY SMTT(20) DEF Hits
<1> QED BY <1>1, <1>2, FS_EmptySet, FS_Singleton DEF Count

(* What a list holds at its head and after it. *)
LEMMA CountTail ==
  ASSUME NEW T, NEW s \in Seq(T), s # << >>, NEW S
  PROVE  Count(s, S) = Count(Tail(s), S) + (IF Head(s) \in S THEN 1 ELSE 0)
<1> DEFINE e == <<Head(s)>>
           u == Tail(s)
<1>1. u \in Seq(T) /\ e \in Seq(T) /\ Joined(s, e, u)
  BY SMTT(20) DEF Joined
<1>2. Count(e, S) = IF Head(s) \in S THEN 1 ELSE 0
  BY CountOne
<1> HIDE DEF e, u
<1>3. Count(s, S) = Count(e, S) + Count(u, S)
  BY SMTT(20), <1>1, CountConcat
<1>4. Count(u, S) \in Nat
  BY <1>1, CountType
<1> QED BY SMTT(20), <1>2, <1>3, <1>4 DEF u

(* One more element at the end. *)
LEMMA CountAppend ==
  ASSUME NEW T, NEW s \in Seq(T), NEW x \in T, NEW S
  PROVE  Count(Append(s, x), S) = Count(s, S) + (IF x \in S THEN 1 ELSE 0)
<1> DEFINE e == <<x>>
<1>1. e \in Seq(T) /\ Joined(Append(s, x), s, e)
  BY SMTT(20) DEF Joined
<1>2. Count(e, S) = IF x \in S THEN 1 ELSE 0
  BY CountOne
<1> HIDE DEF e
<1>3. Count(Append(s, x), S) = Count(s, S) + Count(e, S)
  BY SMTT(20), <1>1, CountConcat
<1> QED BY <1>1, <1>2, <1>3

(* A list holds t where it occurs. *)
LEMMA CountRange ==
  ASSUME NEW T, NEW s \in Seq(T), NEW t
  PROVE  Count(s, {t}) = 0 <=> t \notin Range(s)
<1>1. Hits(s, {t}) = {} <=> t \notin Range(s)
  BY DEF Hits, Range
<1> QED BY <1>1, CountType, FS_EmptySet DEF Count

(* The blocks of a decision, in some order. *)
LEMMA CountSet ==
  ASSUME NEW F, IsFiniteSet(F), NEW f \in Bijection(1 .. Cardinality(F), F), NEW S
  PROVE  f \in Seq(F) /\ Count(f, S) = Cardinality(F \cap S)
<1> DEFINE h == [i \in Hits(f, S) |-> f[i]]
           n == Cardinality(F)
<1>1. n \in Nat
  BY FS_CardinalityType
<1>2. f \in [1 .. n -> F] /\ IsInjective(f) /\ f \in Surjection(1 .. n, F)
  BY DEF Bijection, Injection
<1>3. f \in Seq(F)
  BY SMTT(20), <1>1, <1>2
<1>4. h \in Bijection(Hits(f, S), F \cap S)
  <2>1. h \in Injection(Hits(f, S), F \cap S)
    BY <1>2 DEF Injection, IsInjective, Hits
  <2>2. h \in Surjection(Hits(f, S), F \cap S)
    BY <1>2 DEF Surjection, Hits
  <2> QED BY <2>1, <2>2 DEF Bijection
<1> HIDE DEF h
<1>5. IsFiniteSet(Hits(f, S))
  BY <1>3, CountType
<1> QED BY <1>3, <1>4, <1>5, FS_Bijection DEF Count, ExistsBijection
-----------------------------------------------------------------------------
(* The inductive invariant of the pool *)

(* The blocks that hold t, and the blocks that were made of transactions   *)
(* of the pool: none holds a transaction twice.                            *)
With(t) == {b \in Seq(Txns) : t \in Range(b)}
Blocks  == {b \in Seq(old) : \A t \in Txns : Count(b, {t}) <= 1}

PoolTypes ==
  /\ unsent \subseteq Txns /\ old \subseteq Txns /\ done \subseteq old
  /\ unsent \cap (refused \cup old) = {} /\ refused \cap old = {}
  /\ txns \in Seq(Txns) /\ collecting \in Seq(old)
  /\ IsFiniteSet(proposed) /\ proposed \subseteq Blocks
  /\ toCommit \in Seq(Blocks) /\ toFork \in Seq(Blocks)
  /\ committedBlocks \in Seq(Blocks) /\ forkedBlocks \in Seq(Blocks)

(* In how many places t is. *)
Places(t) ==
  (IF t \in unsent \cup refused \cup done THEN 1 ELSE 0)
    + Count(txns, {t}) + Count(collecting, {t}) + Cardinality(proposed \cap With(t))
    + Count(toCommit, With(t)) + Count(toFork, With(t))
    + Count(committedBlocks, With(t)) + Count(forkedBlocks, With(t))

OnePlace == \A t \in Txns : Places(t) = 1

(* What PoolBound and OldFirst of Mempool say, with the library's Range. *)
NewBounded == Cardinality(Range(txns) \ old) <= limit + 1
OldBefore  == \A i, j \in DOMAIN txns : i < j /\ txns[j] \in old => txns[i] \in old

PoolInv == PoolTypes /\ OnePlace /\ NewBounded /\ OldBefore

(* A block holds a transaction once or not at all. *)
LEMMA BlockFacts ==
  ASSUME PoolTypes, NEW b \in Blocks
  PROVE  /\ b \in Seq(old) /\ b \in Seq(Txns) /\ Range(b) \subseteq old
         /\ \A t \in Txns : Count(b, {t}) = IF b \in With(t) THEN 1 ELSE 0
<1>1. b \in Seq(old) /\ b \in Seq(Txns)
  BY SeqMonotonic DEF PoolTypes, Blocks
<1>2. Range(b) \subseteq old
  BY <1>1, RangeOfSeq
<1>3. ASSUME NEW t \in Txns PROVE Count(b, {t}) = IF b \in With(t) THEN 1 ELSE 0
  <2>1. Count(b, {t}) \in Nat /\ Count(b, {t}) <= 1
    BY <1>1, CountType DEF Blocks
  <2>2. Count(b, {t}) = 0 <=> t \notin Range(b)
    BY <1>1, CountRange
  <2>3. b \in With(t) <=> t \in Range(b)
    BY <1>1 DEF With
  <2> QED BY SMTT(20), <2>1, <2>2, <2>3
<1> QED BY <1>1, <1>2, <1>3

(* The counts are numbers. *)
LEMMA PlaceTypes ==
  ASSUME PoolTypes, NEW t
  PROVE  /\ Count(txns, {t}) \in Nat /\ Count(collecting, {t}) \in Nat
         /\ IsFiniteSet(proposed \cap With(t)) /\ Cardinality(proposed \cap With(t)) \in Nat
         /\ Count(toCommit, With(t)) \in Nat /\ Count(toFork, With(t)) \in Nat
         /\ Count(committedBlocks, With(t)) \in Nat /\ Count(forkedBlocks, With(t)) \in Nat
<1>1. /\ Count(txns, {t}) \in Nat /\ Count(collecting, {t}) \in Nat
      /\ Count(toCommit, With(t)) \in Nat /\ Count(toFork, With(t)) \in Nat
      /\ Count(committedBlocks, With(t)) \in Nat /\ Count(forkedBlocks, With(t)) \in Nat
  BY CountType DEF PoolTypes
<1>2. IsFiniteSet(proposed \cap With(t)) /\ Cardinality(proposed \cap With(t)) \in Nat
  BY FS_Intersection, FS_CardinalityType DEF PoolTypes
<1> QED BY <1>1, <1>2

(* What was in a block stays known, so blocks remain blocks. *)
LEMMA BlocksGrow ==
  ASSUME old \subseteq old'
  PROVE  /\ Blocks \subseteq Blocks' /\ Seq(old) \subseteq Seq(old')
         /\ Seq(Blocks) \subseteq Seq(Blocks')
<1>1. Seq(old) \subseteq Seq(old')
  BY SeqMonotonic
<1>2. Blocks \subseteq Blocks'
  BY <1>1 DEF Blocks
<1>3. Seq(Blocks) \subseteq Seq(Blocks')
  BY <1>2, SeqMonotonic
<1> QED BY <1>1, <1>2, <1>3

(* A list has no more different elements than it is long. *)
LEMMA RangeBound ==
  ASSUME NEW S, NEW s \in Seq(S)
  PROVE  IsFiniteSet(Range(s)) /\ Cardinality(Range(s)) <= Len(s) /\ Cardinality(Range(s)) \in Nat
<1>1. Len(s) \in Nat /\ s \in [1 .. Len(s) -> S] /\ DOMAIN s = 1 .. Len(s)
  BY LenProperties
<1>2. s \in Surjection(1 .. Len(s), Range(s))
  BY <1>1 DEF Surjection, Range
<1>3. IsFiniteSet(1 .. Len(s)) /\ Cardinality(1 .. Len(s)) = Len(s)
  BY SMTT(20), <1>1, FS_Interval
<1> QED
  BY SMTT(20), <1>2, <1>3, FS_Surjection, FS_CardinalityType

(* A pool whose new transactions are among the new ones of a bounded pool. *)
LEMMA FewerNew ==
  ASSUME PoolTypes, NewBounded, Range(txns') \ old' \subseteq Range(txns) \ old
  PROVE  NewBounded'
<1>1. IsFiniteSet(Range(txns))
  BY RangeBound DEF PoolTypes
<1>2. IsFiniteSet(Range(txns) \ old) /\ Cardinality(Range(txns) \ old) \in Nat
  BY <1>1, FS_Subset, FS_CardinalityType
<1>3. /\ Cardinality(Range(txns') \ old') <= Cardinality(Range(txns) \ old)
      /\ Cardinality(Range(txns') \ old') \in Nat
  BY <1>2, FS_Subset, FS_CardinalityType
<1> QED
  BY SMTT(20), <1>2, <1>3, NodeAssumption DEF NewBounded, P!ConstantsOK

(* The batch and the rest of the list. *)
LEMMA BatchFacts ==
  ASSUME PoolTypes
  PROVE  /\ P!batchSize \in 0 .. Len(txns) /\ Len(txns) \in Nat
         /\ txns # << >> => P!batchSize > 0
         /\ P!batch \in Seq(Txns) /\ Len(P!batch) = P!batchSize
         /\ \A i \in 1 .. P!batchSize : P!batch[i] = txns[i]
         /\ SubSeq(txns, P!batchSize + 1, Len(txns)) \in Seq(Txns)
         /\ Len(SubSeq(txns, P!batchSize + 1, Len(txns))) = Len(txns) - P!batchSize
         /\ \A i \in 1 .. Len(txns) - P!batchSize :
              SubSeq(txns, P!batchSize + 1, Len(txns))[i] = txns[i + P!batchSize]
         /\ Joined(txns, P!batch, SubSeq(txns, P!batchSize + 1, Len(txns)))
<1> DEFINE n == P!batchSize
<1>1. txns \in Seq(Txns) /\ Len(txns) \in Nat
  BY SMTT(20) DEF PoolTypes
<1>2. n \in 0 .. Len(txns) /\ (txns # << >> => n > 0)
  BY SMTT(20), <1>1, NodeAssumption DEF P!batchSize, P!ConstantsOK
<1>3. P!batch = SubSeq(txns, 1, n)
  BY DEF P!batch
<1> HIDE DEF n
<1> DEFINE a == SubSeq(txns, 1, n)
           c == SubSeq(txns, n + 1, Len(txns))
<1>4. a \in Seq(Txns) /\ Len(a) = n /\ \A i \in 1 .. n : a[i] = txns[i]
  BY SMTT(20), <1>1, <1>2
<1>5. /\ c \in Seq(Txns) /\ Len(c) = Len(txns) - n
      /\ \A i \in 1 .. Len(txns) - n : c[i] = txns[i + n]
  BY SMTT(20), <1>1, <1>2
<1> HIDE DEF a, c
<1>6. txns = a \o c
  <2>1. 1 \in 1 .. Len(txns) + 1 /\ n \in 1 - 1 .. Len(txns) /\ Len(txns) \in n .. Len(txns)
    BY SMTT(20), <1>1, <1>2
  <2>2. SubSeq(txns, 1, Len(txns)) = txns
    BY SMTT(20), <1>1
  <2> QED BY <1>1, <2>1, <2>2, ConcatAdjacentSubSeq DEF a, c
<1> QED BY <1>1, <1>2, <1>3, <1>4, <1>5, <1>6 DEF n, a, c, Joined

(* Transactions of the pool are not unsent, not refused and not done. *)
LEMMA InPool ==
  ASSUME PoolTypes, OnePlace, NEW t \in Range(txns)
  PROVE  /\ t \in Txns /\ t \notin unsent \cup refused \cup done
         /\ Count(txns, {t}) = 1 /\ Count(collecting, {t}) = 0
         /\ proposed \cap With(t) = {}
<1>1. t \in Txns
  BY RangeOfSeq DEF PoolTypes
<1>2. Count(txns, {t}) # 0
  BY CountRange DEF PoolTypes
<1> DEFINE a == IF t \in unsent \cup refused \cup done THEN 1 ELSE 0
           n == Count(txns, {t})
           c == Count(collecting, {t})
           p == Cardinality(proposed \cap With(t))
           q == Count(toCommit, With(t))
           u == Count(toFork, With(t))
           v == Count(committedBlocks, With(t))
           w == Count(forkedBlocks, With(t))
<1>3. a \in Nat /\ n \in Nat /\ c \in Nat /\ p \in Nat /\ q \in Nat /\ u \in Nat /\ v \in Nat /\ w \in Nat
  BY PlaceTypes
<1>4. a + n + c + p + q + u + v + w = 1 /\ n # 0
  BY <1>1, <1>2 DEF OnePlace, Places
<1>5. a = 0 => t \notin unsent \cup refused \cup done
  BY SMTT(20)
<1> HIDE DEF a, n, c, p, q, u, v, w
<1>6. n = 1 /\ a = 0 /\ c = 0 /\ p = 0
  BY SMTT(20), <1>3, <1>4
<1>7. proposed \cap With(t) = {}
  BY <1>6, PlaceTypes, FS_EmptySet DEF p
<1> QED BY <1>1, <1>5, <1>6, <1>7 DEF n, c

(* insertBack: a transaction that a client sent. *)
LEMMA AddStep == ASSUME PoolInv, P!AddTxn PROVE PoolInv'
<1>0. PoolTypes /\ OnePlace /\ NewBounded /\ OldBefore
  BY DEF PoolInv
<1>1. PICK t \in unsent : P!insertBack(t) /\ unsent' = unsent \ {t} /\ old' = old /\
        UNCHANGED <<proposed, toCommit, toFork, committedBlocks, forkedBlocks, collecting, done>>
  BY DEF P!AddTxn, P!loop
<1>2. t \in Txns /\ t \notin refused /\ t \notin done /\ t \notin old
  BY <1>0 DEF PoolTypes
<1>3. Blocks' = Blocks
  BY <1>1 DEF Blocks
<1>4. CASE Len(txns) > limit
  <2>1. txns' = txns /\ refused' = refused \cup {t}
    BY <1>1, <1>4 DEF P!insertBack
  <2>2. PoolTypes'
    BY <1>0, <1>1, <1>3, <2>1 DEF PoolTypes
  <2>3. ASSUME NEW x \in Txns PROVE Places(x)' = Places(x)
    <3>1. x \in unsent' \cup refused' \cup done' <=> x \in unsent \cup refused \cup done
      BY <1>1, <2>1
    <3> QED BY <1>1, <2>1, <3>1 DEF Places, With
  <2>4. NewBounded' /\ OldBefore'
    BY <1>0, <1>1, <2>1 DEF NewBounded, OldBefore
  <2> QED BY <1>0, <2>2, <2>3, <2>4 DEF PoolInv, OnePlace
<1>5. CASE ~(Len(txns) > limit)
  <2>1. txns' = Append(txns, t) /\ refused' = refused
    BY <1>1, <1>5 DEF P!insertBack
  <2>2. txns \in Seq(Txns) /\ txns' \in Seq(Txns) /\ Len(txns') = Len(txns) + 1 /\ Len(txns) \in Nat
    BY SMTT(20), <1>0, <1>2, <2>1 DEF PoolTypes
  <2>3. PoolTypes'
    BY <1>0, <1>1, <1>3, <2>1, <2>2 DEF PoolTypes
  <2>4. ASSUME NEW x \in Txns PROVE Places(x)' = Places(x)
    <3>1. Count(txns', {x}) = Count(txns, {x}) + (IF t \in {x} THEN 1 ELSE 0)
      BY <1>2, <2>1, <2>2, CountAppend
    <3>2. x \in unsent' \cup refused' \cup done' <=> x \in unsent \cup refused \cup done /\ x # t
      BY <1>1, <1>2, <2>1
    <3>3. With(x)' = With(x)
      BY DEF With
    <3>4. t \in unsent /\ (t \in {x} <=> x = t)
      OBVIOUS
    <3>5. /\ Count(txns, {x}) \in Nat /\ Count(collecting, {x}) \in Nat
          /\ Cardinality(proposed \cap With(x)) \in Nat
          /\ Count(toCommit, With(x)) \in Nat /\ Count(toFork, With(x)) \in Nat
          /\ Count(committedBlocks, With(x)) \in Nat /\ Count(forkedBlocks, With(x)) \in Nat
      BY <1>0, PlaceTypes
    <3> QED BY SMTT(20), <1>1, <3>1, <3>2, <3>3, <3>4, <3>5 DEF Places
  <2>5. NewBounded'
    <3>1. /\ IsFiniteSet(Range(txns')) /\ Cardinality(Range(txns')) <= Len(txns')
          /\ Cardinality(Range(txns')) \in Nat
      BY <2>2, RangeBound
    <3>2. /\ Cardinality(Range(txns') \ old') <= Cardinality(Range(txns'))
          /\ Cardinality(Range(txns') \ old') \in Nat
      BY <3>1, FS_Subset, FS_CardinalityType
    <3> QED BY SMTT(20), <1>5, <2>2, <3>1, <3>2, NodeAssumption DEF NewBounded, P!ConstantsOK
  <2>6. OldBefore'
    BY SMTT(20), <1>0, <1>1, <1>2, <2>1, <2>2 DEF OldBefore
  <2> QED BY <1>0, <2>3, <2>4, <2>5, <2>6 DEF PoolInv, OnePlace
<1> QED BY <1>4, <1>5

(* some and the new block: the batch leaves the list for a block. *)
LEMMA ProposeStep == ASSUME PoolInv, P!proposeBlock PROVE PoolInv'
<1> DEFINE n == P!batchSize
           b == P!batch
           rest == SubSeq(txns, n + 1, Len(txns))
<1>0. PoolTypes /\ OnePlace /\ NewBounded /\ OldBefore
  BY DEF PoolInv
<1>1. /\ txns # << >> /\ txns' = rest /\ proposed' = proposed \cup {b} /\ old' = old \cup Range(b)
      /\ UNCHANGED <<unsent, refused, toCommit, toFork, committedBlocks, forkedBlocks, collecting, done>>
  BY PoolOperators DEF P!proposeBlock, P!some
<1>2. /\ n \in 1 .. Len(txns) /\ Len(txns) \in Nat /\ b \in Seq(Txns) /\ Len(b) = n
      /\ \A i \in 1 .. n : b[i] = txns[i]
      /\ rest \in Seq(Txns) /\ Len(rest) = Len(txns) - n
      /\ \A i \in 1 .. Len(txns) - n : rest[i] = txns[i + n]
      /\ Joined(txns, b, rest)
  BY SMTT(20), <1>0, <1>1, BatchFacts
<1> HIDE DEF n, b, rest
<1>3. /\ txns \in Seq(Txns) /\ DOMAIN txns = 1 .. Len(txns)
      /\ DOMAIN b = 1 .. n /\ DOMAIN rest = 1 .. (Len(txns) - n)
  BY SMTT(20), <1>0, <1>2 DEF PoolTypes
<1>4. Range(b) \subseteq Range(txns) /\ Range(rest) \subseteq Range(txns)
  <2>1. ASSUME NEW i \in 1 .. n PROVE b[i] \in Range(txns)
    BY SMTT(20), <1>2, <1>3 DEF Range
  <2>2. ASSUME NEW i \in 1 .. (Len(txns) - n) PROVE rest[i] \in Range(txns)
    <3>1. i + n \in 1 .. Len(txns)
      BY SMTT(20), <1>2
    <3> QED BY <1>2, <1>3, <3>1 DEF Range
  <2> QED BY <1>3, <2>1, <2>2 DEF Range
<1>5. ASSUME NEW x
      PROVE  /\ Count(txns, {x}) = Count(b, {x}) + Count(rest, {x})
             /\ Count(txns, {x}) \in Nat /\ Count(b, {x}) \in Nat /\ Count(rest, {x}) \in Nat
             /\ Count(b, {x}) = 0 <=> x \notin Range(b)
             /\ Count(rest, {x}) = 0 <=> x \notin Range(rest)
  BY SMTT(20), <1>2, <1>3, CountConcat, CountType, CountRange
<1>6. ASSUME NEW x \in Range(txns)
      PROVE  /\ x \in Txns /\ x \notin unsent \cup refused \cup done
             /\ Count(txns, {x}) = 1 /\ proposed \cap With(x) = {}
  BY <1>0, InPool
<1>7. Range(b) \cap Range(rest) = {}
  <2> SUFFICES ASSUME NEW x \in Range(b), x \in Range(rest) PROVE FALSE
    OBVIOUS
  <2>1. Count(txns, {x}) = 1
    BY <1>4, <1>6
  <2>2. Count(b, {x}) # 0 /\ Count(rest, {x}) # 0
    BY <1>5
  <2> QED BY SMTT(20), <1>5, <2>1, <2>2
<1>8. b \notin proposed
  <2>1. b[1] \in Range(b)
    BY SMTT(20), <1>2, <1>3 DEF Range
  <2>2. proposed \cap With(b[1]) = {}
    BY <1>4, <1>6, <2>1
  <2> QED BY <1>2, <2>1, <2>2 DEF With
<1>9. /\ old \subseteq old' /\ old' \subseteq Txns
      /\ unsent' \cap (refused' \cup old') = {} /\ refused' \cap old' = {}
  BY <1>0, <1>1, <1>4, <1>6 DEF PoolTypes
<1>10. \A x \in Txns : Count(b, {x}) <= 1
  <2> SUFFICES ASSUME NEW x \in Txns PROVE Count(b, {x}) <= 1
    OBVIOUS
  <2>1. CASE x \in Range(b)
    <3>1. Count(txns, {x}) = 1
      BY <1>4, <1>6, <2>1
    <3> DEFINE k == Count(b, {x})
               l == Count(rest, {x})
    <3>2. k \in Nat /\ l \in Nat /\ 1 = k + l
      BY <1>5, <3>1
    <3> HIDE DEF k, l
    <3>3. k <= 1
      BY SMTT(20), <3>2
    <3> QED BY <3>3 DEF k
  <2>2. CASE x \notin Range(b)
    BY SMTT(20), <1>5, <2>2
  <2> QED BY <2>1, <2>2
<1>11. b \in Blocks'
  <2>1. b \in Seq(Range(b))
    BY <1>2, SeqOfRange
  <2>2. b \in Seq(old')
    BY <1>1, <2>1, SeqMonotonic
  <2> QED BY <1>10, <2>2 DEF Blocks
<1>12. PoolTypes'
  <2>1. IsFiniteSet(proposed')
    BY <1>0, <1>1, FS_AddElement DEF PoolTypes
  <2>2. /\ Blocks \subseteq Blocks' /\ Seq(old) \subseteq Seq(old')
        /\ Seq(Blocks) \subseteq Seq(Blocks')
    BY <1>9, BlocksGrow
  <2> QED BY <1>0, <1>1, <1>2, <1>9, <1>11, <2>1, <2>2 DEF PoolTypes
<1>13. ASSUME NEW x \in Txns PROVE Places(x)' = Places(x)
  <2>1. With(x)' = With(x)
    BY DEF With
  <2>2. Count(b, {x}) = IF b \in With(x) THEN 1 ELSE 0
    <3> DEFINE k == Count(b, {x})
    <3>1. k \in Nat /\ k <= 1 /\ (k = 0 <=> b \notin With(x))
      BY <1>2, <1>5, <1>10 DEF With
    <3> HIDE DEF k
    <3>2. k = IF b \in With(x) THEN 1 ELSE 0
      BY SMTT(20), <3>1
    <3> QED BY <3>2 DEF k
  <2>3. IsFiniteSet(proposed \cap With(x)) /\ Cardinality(proposed \cap With(x)) \in Nat
    BY <1>0, PlaceTypes
  <2>4. Cardinality(proposed' \cap With(x)) = Cardinality(proposed \cap With(x)) + Count(b, {x})
    <3>1. CASE b \in With(x)
      <4>1. proposed' \cap With(x) = (proposed \cap With(x)) \cup {b}
        BY <1>1, <3>1
      <4> QED BY <1>8, <2>2, <2>3, <3>1, <4>1, FS_AddElement
    <3>2. CASE b \notin With(x)
      <4>1. proposed' \cap With(x) = proposed \cap With(x)
        BY <1>1, <3>2
      <4> DEFINE p == Cardinality(proposed \cap With(x))
      <4>2. p \in Nat /\ Count(b, {x}) = 0
        BY <2>2, <2>3, <3>2
      <4> HIDE DEF p
      <4>3. p = p + 0
        BY SMTT(20), <4>2
      <4> QED BY <4>1, <4>2, <4>3 DEF p
    <3> QED BY <3>1, <3>2
  <2> DEFINE p == Cardinality(proposed \cap With(x))
             k == Count(b, {x})
             l == Count(rest, {x})
             a == IF x \in unsent \cup refused \cup done THEN 1 ELSE 0
             c == Count(collecting, {x})
  <2>5. p \in Nat /\ k \in Nat /\ l \in Nat /\ a \in Nat /\ c \in Nat
    BY <1>0, <1>5, <2>3, PlaceTypes
  <2>6. Places(x) = a + (k + l) + c + p + Count(toCommit, With(x)) + Count(toFork, With(x))
                    + Count(committedBlocks, With(x)) + Count(forkedBlocks, With(x))
    BY <1>5 DEF Places
  <2>7. Places(x)' = a + l + c + (p + k) + Count(toCommit, With(x)) + Count(toFork, With(x))
                    + Count(committedBlocks, With(x)) + Count(forkedBlocks, With(x))
    BY <1>1, <2>1, <2>4 DEF Places
  <2> HIDE DEF p, k, l, a, c
  <2>8. a + (k + l) + c + p = a + l + c + (p + k)
    BY SMTT(20), <2>5
  <2> QED BY <2>6, <2>7, <2>8
<1>14. NewBounded'
  BY <1>0, <1>1, <1>4, FewerNew
<1>15. OldBefore'
  <2> SUFFICES ASSUME NEW i \in DOMAIN txns', NEW j \in DOMAIN txns', i < j, txns'[j] \in old'
               PROVE  txns'[i] \in old'
    BY DEF OldBefore
  <2>1. /\ i + n \in DOMAIN txns /\ j + n \in DOMAIN txns /\ i + n < j + n
        /\ rest[i] = txns[i + n] /\ rest[j] = txns[j + n]
    <3> DEFINE m == Len(txns)
    <3>1. /\ m \in Nat /\ n \in 1 .. m /\ DOMAIN txns = 1 .. m
          /\ i \in 1 .. (m - n) /\ j \in 1 .. (m - n)
      BY <1>1, <1>2, <1>3
    <3> HIDE DEF m
    <3>2. i + n \in 1 .. m /\ j + n \in 1 .. m /\ i + n < j + n
      BY SMTT(20), <3>1
    <3> QED BY <1>2, <3>1, <3>2 DEF m
  <2>2. rest[j] \notin Range(b)
    BY <1>1, <1>7 DEF Range
  <2> QED BY <1>0, <1>1, <2>1, <2>2 DEF OldBefore
<1> QED BY <1>0, <1>12, <1>13, <1>14, <1>15 DEF PoolInv, OnePlace

(* A step that moves decided blocks and leaves the list alone. *)
LEMMA MoveStep ==
  ASSUME PoolInv, UNCHANGED <<txns, unsent, refused, old>>,
         done' \subseteq old, collecting' \in Seq(old),
         IsFiniteSet(proposed'), proposed' \subseteq Blocks,
         toCommit' \in Seq(Blocks), toFork' \in Seq(Blocks),
         committedBlocks' \in Seq(Blocks), forkedBlocks' \in Seq(Blocks),
         \A x \in Txns : Places(x)' = Places(x)
  PROVE  PoolInv'
<1>1. PoolTypes /\ OnePlace /\ NewBounded /\ OldBefore
  BY DEF PoolInv
<1>2. Blocks' = Blocks
  BY DEF Blocks
<1>3. PoolTypes'
  BY <1>1, <1>2 DEF PoolTypes
<1>4. NewBounded' /\ OldBefore'
  BY <1>1 DEF NewBounded, OldBefore
<1> QED BY <1>1, <1>3, <1>4 DEF PoolInv, OnePlace

(* A commit puts blocks of the replica on the two lists of the loop. *)
LEMMA DecideStep == ASSUME PoolInv, P!Decide PROVE PoolInv'
<1>0. PoolTypes /\ OnePlace
  BY DEF PoolInv
<1>1. PICK com \in SUBSET proposed, fork \in SUBSET proposed :
        /\ com \cap fork = {}
        /\ toCommit' \in Bijection(1 .. Cardinality(com), com)
        /\ toFork' \in Bijection(1 .. Cardinality(fork), fork)
        /\ proposed' = proposed \ (com \cup fork)
  BY PoolOperators DEF P!Decide
<1>2. /\ toCommit = << >> /\ toFork = << >>
      /\ UNCHANGED <<txns, unsent, refused, old, committedBlocks, forkedBlocks, collecting, done>>
  BY DEF P!Decide, P!LoopFree, P!pool
<1>3. /\ IsFiniteSet(com) /\ IsFiniteSet(fork) /\ IsFiniteSet(proposed')
      /\ proposed' \subseteq Blocks /\ com \subseteq Blocks /\ fork \subseteq Blocks
  BY <1>0, <1>1, FS_Subset DEF PoolTypes
<1>4. toCommit' \in Seq(Blocks) /\ toFork' \in Seq(Blocks)
  BY <1>1, <1>3, CountSet, SeqMonotonic
<1>5. ASSUME NEW x \in Txns PROVE Places(x)' = Places(x)
  <2>1. With(x)' = With(x)
    BY DEF With
  <2> DEFINE W == With(x)
             P0 == proposed' \cap W
             C0 == com \cap W
             F0 == fork \cap W
  <2>2. proposed \cap W = P0 \cup (C0 \cup F0) /\ P0 \cap (C0 \cup F0) = {} /\ C0 \cap F0 = {}
    BY <1>1
  <2>3. IsFiniteSet(P0) /\ IsFiniteSet(C0) /\ IsFiniteSet(F0)
    BY <1>3, FS_Intersection
  <2>4. Count(toCommit', W) = Cardinality(C0) /\ Count(toFork', W) = Cardinality(F0)
    BY <1>1, <1>3, CountSet
  <2>5. Count(toCommit, W) = 0 /\ Count(toFork, W) = 0
    BY <1>2, CountOne
  <2> HIDE DEF W, P0, C0, F0
  <2> DEFINE p == Cardinality(P0)
             q == Cardinality(C0)
             u == Cardinality(F0)
             a == IF x \in unsent \cup refused \cup done THEN 1 ELSE 0
             n == Count(txns, {x})
             c == Count(collecting, {x})
             v == Count(committedBlocks, W)
             w == Count(forkedBlocks, W)
  <2>6. /\ p \in Nat /\ q \in Nat /\ u \in Nat /\ a \in Nat /\ n \in Nat /\ c \in Nat
        /\ v \in Nat /\ w \in Nat
    BY <1>0, <2>3, PlaceTypes, FS_CardinalityType DEF W
  <2>7. Cardinality(proposed \cap W) = p + (q + u)
    <3>1. Cardinality({}) = 0
      BY FS_EmptySet
    <3>2. IsFiniteSet(C0 \cup F0) /\ Cardinality(C0 \cup F0) = q + u - 0
      BY SMTT(20), <2>2, <2>3, <3>1, FS_Union
    <3>3. Cardinality(P0 \cup (C0 \cup F0)) = p + Cardinality(C0 \cup F0) - 0
      BY SMTT(20), <2>2, <2>3, <3>1, <3>2, FS_Union
    <3>4. Cardinality(proposed \cap W) = p + (q + u - 0) - 0
      BY <2>2, <3>2, <3>3
    <3> HIDE DEF p, q, u
    <3>5. p + (q + u - 0) - 0 = p + (q + u)
      BY SMTT(20), <2>6
    <3> QED BY <3>4, <3>5
  <2>8. Places(x) = a + n + c + (p + (q + u)) + 0 + 0 + v + w
    BY <2>5, <2>7 DEF Places, W
  <2>9. Places(x)' = a + n + c + p + q + u + v + w
    BY <1>2, <2>1, <2>4 DEF Places, W, P0
  <2> HIDE DEF p, q, u, a, n, c, v, w
  <2> QED BY SMTT(20), <2>6, <2>8, <2>9
<1> QED BY <1>0, <1>2, <1>3, <1>4, <1>5, MoveStep DEF PoolTypes

(* A block goes from a list of the loop into a channel. *)
LEMMA SendStep == ASSUME PoolInv, P!Sends PROVE PoolInv'
<1>0. PoolTypes
  BY DEF PoolInv
<1>1. ASSUME NEW from \in Seq(Blocks), from # << >>, NEW to \in Seq(Blocks), NEW x
      PROVE  /\ Count(Tail(from), With(x)) + Count(Append(to, Head(from)), With(x))
                  = Count(from, With(x)) + Count(to, With(x))
             /\ Count(Tail(from), With(x)) \in Nat
             /\ Count(Append(to, Head(from)), With(x)) \in Nat
  <2> DEFINE e == IF Head(from) \in With(x) THEN 1 ELSE 0
             f == Count(Tail(from), With(x))
             t == Count(to, With(x))
  <2>1. Head(from) \in Blocks /\ Tail(from) \in Seq(Blocks) /\ Append(to, Head(from)) \in Seq(Blocks)
    BY SMTT(20), <1>1
  <2>2. Count(from, With(x)) = f + e /\ Count(Append(to, Head(from)), With(x)) = t + e
    BY SMTT(20), <1>1, <2>1, CountTail, CountAppend
  <2>3. f \in Nat /\ t \in Nat /\ e \in Nat
    BY <2>1, CountType
  <2> HIDE DEF e, f, t
  <2>4. f + (t + e) = (f + e) + t /\ t + e \in Nat
    BY SMTT(20), <2>3
  <2> QED BY <2>2, <2>3, <2>4 DEF f, t
<1>2. CASE P!SendCommitted
  <2>1. /\ toCommit # << >> /\ committedBlocks' = Append(committedBlocks, Head(toCommit))
        /\ toCommit' = Tail(toCommit)
        /\ UNCHANGED <<txns, unsent, refused, proposed, toFork, forkedBlocks, collecting, done, old>>
    BY <1>2 DEF P!SendCommitted, P!pool
  <2>2. committedBlocks' \in Seq(Blocks) /\ toCommit' \in Seq(Blocks)
    BY SMTT(20), <1>0, <2>1 DEF PoolTypes
  <2>3. ASSUME NEW x \in Txns PROVE Places(x)' = Places(x)
    <3> DEFINE q == Count(toCommit, With(x))
               v == Count(committedBlocks, With(x))
               qq == Count(toCommit', With(x))
               vv == Count(committedBlocks', With(x))
               a == IF x \in unsent \cup refused \cup done THEN 1 ELSE 0
               n == Count(txns, {x})
               c == Count(collecting, {x})
               p == Cardinality(proposed \cap With(x))
               u == Count(toFork, With(x))
               w == Count(forkedBlocks, With(x))
    <3>1. With(x)' = With(x)
      BY DEF With
    <3>2. /\ p \in Nat /\ q \in Nat /\ u \in Nat /\ a \in Nat /\ n \in Nat /\ c \in Nat
          /\ v \in Nat /\ w \in Nat
      BY <1>0, PlaceTypes
    <3>3. qq + vv = q + v /\ qq \in Nat /\ vv \in Nat
      BY SMTT(20), <1>0, <1>1, <2>1 DEF PoolTypes
    <3>4. Places(x) = a + n + c + p + q + u + v + w /\ Places(x)' = a + n + c + p + qq + u + vv + w
      BY <2>1, <3>1 DEF Places
    <3> HIDE DEF p, q, u, a, n, c, v, w, qq, vv
    <3> QED BY SMTT(20), <3>2, <3>3, <3>4
  <2> QED BY <1>0, <2>1, <2>2, <2>3, MoveStep DEF PoolTypes
<1>3. CASE P!SendForked
  <2>1. /\ toFork # << >> /\ forkedBlocks' = Append(forkedBlocks, Head(toFork))
        /\ toFork' = Tail(toFork)
        /\ UNCHANGED <<txns, unsent, refused, proposed, toCommit, committedBlocks, collecting, done, old>>
    BY <1>3 DEF P!SendForked, P!pool
  <2>2. forkedBlocks' \in Seq(Blocks) /\ toFork' \in Seq(Blocks)
    BY SMTT(20), <1>0, <2>1 DEF PoolTypes
  <2>3. ASSUME NEW x \in Txns PROVE Places(x)' = Places(x)
    <3> DEFINE u == Count(toFork, With(x))
               w == Count(forkedBlocks, With(x))
               uu == Count(toFork', With(x))
               ww == Count(forkedBlocks', With(x))
               a == IF x \in unsent \cup refused \cup done THEN 1 ELSE 0
               n == Count(txns, {x})
               c == Count(collecting, {x})
               p == Cardinality(proposed \cap With(x))
               q == Count(toCommit, With(x))
               v == Count(committedBlocks, With(x))
    <3>1. With(x)' = With(x)
      BY DEF With
    <3>2. /\ p \in Nat /\ q \in Nat /\ u \in Nat /\ a \in Nat /\ n \in Nat /\ c \in Nat
          /\ v \in Nat /\ w \in Nat
      BY <1>0, PlaceTypes
    <3>3. uu + ww = u + w /\ uu \in Nat /\ ww \in Nat
      BY SMTT(20), <1>0, <1>1, <2>1 DEF PoolTypes
    <3>4. Places(x) = a + n + c + p + q + u + v + w /\ Places(x)' = a + n + c + p + q + uu + v + ww
      BY <2>1, <3>1 DEF Places
    <3> HIDE DEF p, q, u, a, n, c, v, w, uu, ww
    <3> QED BY SMTT(20), <3>2, <3>3, <3>4
  <2> QED BY <1>0, <2>1, <2>2, <2>3, MoveStep DEF PoolTypes
<1> QED BY <1>2, <1>3 DEF P!Sends

(* ListenCommittedBlocks: a committed block ends, and the transactions of  *)
(* a forked one go back to the front of the list, one by one.              *)
LEMMA ListenStep == ASSUME PoolInv, P!Listener PROVE PoolInv'
<1>0. PoolTypes /\ OnePlace /\ NewBounded /\ OldBefore
  BY DEF PoolInv
<1>1. CASE P!processCommittedBlock
  <2> DEFINE b == Head(committedBlocks)
  <2>1. /\ committedBlocks # << >> /\ done' = done \cup Range(b)
        /\ committedBlocks' = Tail(committedBlocks)
        /\ UNCHANGED <<txns, unsent, refused, proposed, toCommit, toFork, forkedBlocks, collecting, old>>
    BY <1>1, PoolOperators DEF P!processCommittedBlock, P!pool, P!loop
  <2>2. b \in Blocks /\ committedBlocks' \in Seq(Blocks)
    BY SMTT(20), <1>0, <2>1 DEF PoolTypes
  <2>3. Range(b) \subseteq old /\ b \in Seq(Txns)
    BY <1>0, <2>2, BlockFacts
  <2> HIDE DEF b
  <2>4. ASSUME NEW x \in Txns PROVE Places(x)' = Places(x)
    <3> DEFINE a == IF x \in unsent \cup refused \cup done THEN 1 ELSE 0
               aa == IF x \in unsent' \cup refused' \cup done' THEN 1 ELSE 0
               e == IF b \in With(x) THEN 1 ELSE 0
               n == Count(txns, {x})
               c == Count(collecting, {x})
               p == Cardinality(proposed \cap With(x))
               q == Count(toCommit, With(x))
               u == Count(toFork, With(x))
               vv == Count(committedBlocks', With(x))
               w == Count(forkedBlocks, With(x))
    <3>1. With(x)' = With(x)
      BY DEF With
    <3>2. /\ p \in Nat /\ q \in Nat /\ u \in Nat /\ a \in Nat /\ n \in Nat /\ c \in Nat
          /\ w \in Nat /\ vv \in Nat /\ e \in Nat /\ aa \in Nat
      BY <1>0, <2>2, PlaceTypes, CountType
    <3>3. Count(committedBlocks, With(x)) = vv + e
      BY <1>0, <2>1, CountTail DEF b, PoolTypes
    <3>4. /\ Places(x) = a + n + c + p + q + u + (vv + e) + w
          /\ Places(x)' = aa + n + c + p + q + u + vv + w
      BY <2>1, <3>1, <3>3 DEF Places
    <3>5. Places(x) = 1
      BY <1>0 DEF OnePlace
    <3>6. e = 0 => aa = a
      BY <2>1, <2>3 DEF With
    <3>7. e = 1 => aa = 1
      BY <2>1 DEF With
    <3>8. (e = 0 \/ e = 1) /\ (a = 0 \/ a = 1)
      OBVIOUS
    <3> HIDE DEF p, q, u, a, n, c, vv, w, e, aa
    <3> QED BY SMTT(20), <3>2, <3>4, <3>5, <3>6, <3>7, <3>8
  <2> QED BY <1>0, <2>1, <2>2, <2>3, <2>4, MoveStep DEF PoolTypes
<1>2. CASE P!processForkedBlock
  <2> DEFINE b == Head(forkedBlocks)
  <2>1. /\ collecting = << >> /\ forkedBlocks # << >> /\ collecting' = b
        /\ forkedBlocks' = Tail(forkedBlocks)
        /\ UNCHANGED <<txns, unsent, refused, proposed, toCommit, toFork, committedBlocks, done, old>>
    BY <1>2 DEF P!processForkedBlock, P!pool, P!loop
  <2>2. b \in Blocks /\ forkedBlocks' \in Seq(Blocks)
    BY SMTT(20), <1>0, <2>1 DEF PoolTypes
  <2>3. b \in Seq(old) /\ \A x \in Txns : Count(b, {x}) = IF b \in With(x) THEN 1 ELSE 0
    BY <1>0, <2>2, BlockFacts
  <2> HIDE DEF b
  <2>4. ASSUME NEW x \in Txns PROVE Places(x)' = Places(x)
    <3> DEFINE a == IF x \in unsent \cup refused \cup done THEN 1 ELSE 0
               e == IF b \in With(x) THEN 1 ELSE 0
               n == Count(txns, {x})
               p == Cardinality(proposed \cap With(x))
               q == Count(toCommit, With(x))
               u == Count(toFork, With(x))
               v == Count(committedBlocks, With(x))
               ww == Count(forkedBlocks', With(x))
    <3>1. With(x)' = With(x)
      BY DEF With
    <3>2. /\ p \in Nat /\ q \in Nat /\ u \in Nat /\ a \in Nat /\ n \in Nat
          /\ v \in Nat /\ ww \in Nat /\ e \in Nat
      BY <1>0, <2>2, PlaceTypes, CountType
    <3>3. Count(forkedBlocks, With(x)) = ww + e
      BY <1>0, <2>1, CountTail DEF b, PoolTypes
    <3>4. Count(collecting, {x}) = 0 /\ Count(collecting', {x}) = e
      BY <2>1, <2>3, CountOne
    <3>5. /\ Places(x) = a + n + 0 + p + q + u + v + (ww + e)
          /\ Places(x)' = a + n + e + p + q + u + v + ww
      BY <2>1, <3>1, <3>3, <3>4 DEF Places
    <3> HIDE DEF p, q, u, a, n, v, ww, e
    <3> QED BY SMTT(20), <3>2, <3>5
  <2> QED BY <1>0, <2>1, <2>2, <2>3, <2>4, MoveStep DEF PoolTypes
<1>3. CASE P!CollectTxn
  <2> DEFINE t == Head(collecting)
             f == <<t>>
  <2>1. /\ collecting # << >> /\ txns' = f \o txns /\ collecting' = Tail(collecting)
        /\ UNCHANGED <<unsent, refused, proposed, toCommit, toFork, committedBlocks, forkedBlocks, done, old>>
    BY <1>3 DEF P!CollectTxn, P!insertFront, P!loop
  <2>2. t \in old /\ t \in Txns /\ collecting' \in Seq(old) /\ txns \in Seq(Txns)
    BY SMTT(20), <1>0, <2>1 DEF PoolTypes
  <2>3. f \in Seq(Txns) /\ Range(f) = {t} /\ Len(f) = 1 /\ f[1] = t
    BY SMTT(20), <2>2 DEF Range
  <2>4. \A x : Count(f, {x}) = IF t \in {x} THEN 1 ELSE 0
    BY CountOne
  <2> HIDE DEF t, f
  <2>5. /\ txns' \in Seq(Txns) /\ Joined(txns', f, txns) /\ Len(txns') = Len(txns) + 1
        /\ Len(txns) \in Nat /\ txns'[1] = t /\ \A i \in 1 .. Len(txns) : txns'[i + 1] = txns[i]
    <3>1. Joined(txns', f, txns)
      BY <2>1 DEF Joined
    <3> DEFINE m == Len(txns)
    <3>2. m \in Nat
      BY SMTT(20), <2>2
    <3>3. /\ txns' \in Seq(Txns) /\ Len(txns') = 1 + m
          /\ \A i \in 1 .. 1 + m : txns'[i] = IF i <= 1 THEN f[i] ELSE txns[i - 1]
      <4>1. /\ txns' \in Seq(Txns) /\ Len(txns') = Len(f) + Len(txns)
            /\ \A i \in 1 .. Len(f) + Len(txns) :
                 txns'[i] = IF i <= Len(f) THEN f[i] ELSE txns[i - Len(f)]
        BY <2>1, <2>2, <2>3, ConcatProperties
      <4> QED BY <2>3, <4>1
    <3> HIDE DEF m
    <3>4. 1 + m = m + 1 /\ 1 \in 1 .. 1 + m /\ 1 <= 1
      BY SMTT(20), <3>2
    <3>5. ASSUME NEW i \in 1 .. m
          PROVE  i + 1 \in 1 .. 1 + m /\ ~(i + 1 <= 1) /\ (i + 1) - 1 = i
      BY SMTT(20), <3>2
    <3> QED BY SMTT(20), <2>3, <3>1, <3>2, <3>3, <3>4, <3>5 DEF m
  <2>6. Range(txns') = {t} \cup Range(txns)
    BY SMTT(20), <2>1, <2>2, <2>3, RangeConcatenation
  <2>7. Blocks' = Blocks
    BY <2>1 DEF Blocks
  <2>8. PoolTypes'
    BY <1>0, <2>1, <2>2, <2>5, <2>7 DEF PoolTypes
  <2>9. ASSUME NEW x \in Txns PROVE Places(x)' = Places(x)
    <3> DEFINE a == IF x \in unsent \cup refused \cup done THEN 1 ELSE 0
               e == IF t \in {x} THEN 1 ELSE 0
               n == Count(txns, {x})
               cc == Count(collecting', {x})
               p == Cardinality(proposed \cap With(x))
               q == Count(toCommit, With(x))
               u == Count(toFork, With(x))
               v == Count(committedBlocks, With(x))
               w == Count(forkedBlocks, With(x))
    <3>1. With(x)' = With(x)
      BY DEF With
    <3>2. /\ p \in Nat /\ q \in Nat /\ u \in Nat /\ a \in Nat /\ n \in Nat
          /\ v \in Nat /\ w \in Nat /\ e \in Nat /\ cc \in Nat
      BY <1>0, <2>2, PlaceTypes, CountType
    <3>3. Count(collecting, {x}) = cc + e
      BY <1>0, <2>1, CountTail DEF t, PoolTypes
    <3>4. Count(txns', {x}) = e + n
      <4>1. Count(txns', {x}) = Count(f, {x}) + Count(txns, {x})
        BY SMTT(20), <2>2, <2>3, <2>5, CountConcat
      <4>2. Count(f, {x}) = e
        BY <2>4
      <4> QED BY <4>1, <4>2
    <3>5. /\ Places(x) = a + n + (cc + e) + p + q + u + v + w
          /\ Places(x)' = a + (e + n) + cc + p + q + u + v + w
      BY <2>1, <3>1, <3>3, <3>4 DEF Places
    <3> HIDE DEF p, q, u, a, n, v, w, e, cc
    <3> QED BY SMTT(20), <3>2, <3>5
  <2>10. NewBounded'
    BY <1>0, <2>1, <2>2, <2>6, FewerNew
  <2>11. OldBefore'
    <3> SUFFICES ASSUME NEW i \in DOMAIN txns', NEW j \in DOMAIN txns', i < j, txns'[j] \in old'
                 PROVE  txns'[i] \in old'
      BY DEF OldBefore
    <3> DEFINE m == Len(txns)
    <3>1. m \in Nat /\ DOMAIN txns = 1 .. m /\ i \in 1 .. m + 1 /\ j \in 1 .. m + 1
      BY SMTT(20), <2>2, <2>5
    <3>2. CASE i = 1
      BY <2>1, <2>2, <2>5, <3>2
    <3>3. CASE i # 1
      <4> HIDE DEF m
      <4>1. /\ i - 1 \in 1 .. m /\ j - 1 \in 1 .. m /\ i - 1 < j - 1
            /\ (i - 1) + 1 = i /\ (j - 1) + 1 = j
        BY SMTT(20), <3>1, <3>3
      <4>2. txns'[i] = txns[i - 1] /\ txns'[j] = txns[j - 1]
        BY <2>5, <4>1 DEF m
      <4> QED BY <1>0, <2>1, <3>1, <4>1, <4>2 DEF OldBefore
    <3> QED BY <3>2, <3>3
  <2> QED BY <1>0, <2>8, <2>9, <2>10, <2>11 DEF PoolInv, OnePlace
<1> QED BY <1>1, <1>2, <1>3 DEF P!Listener

(* Nothing of the pool changes. *)
LEMMA IdleStep == ASSUME PoolInv, UNCHANGED mempool PROVE PoolInv'
<1>1. ASSUME NEW x \in Txns PROVE Places(x)' = Places(x)
  BY DEF mempool, Places, With
<1> QED BY <1>1, MoveStep DEF mempool, PoolInv, PoolTypes

(* The pool starts empty, with all transactions unsent. *)
LEMMA PoolInit == ASSUME P!Init PROVE PoolInv
<1>1. /\ txns = << >> /\ unsent = Txns /\ refused = {} /\ proposed = {} /\ toCommit = << >>
      /\ toFork = << >> /\ committedBlocks = << >> /\ forkedBlocks = << >>
      /\ collecting = << >> /\ done = {} /\ old = {}
  BY DEF P!Init
<1>2. PoolTypes
  BY SMTT(20), <1>1, FS_EmptySet DEF PoolTypes
<1>3. ASSUME NEW x \in Txns PROVE Places(x) = 1
  <2>1. proposed \cap With(x) = {}
    BY <1>1
  <2>2. Cardinality(proposed \cap With(x)) = 0
    BY <2>1, FS_EmptySet
  <2>3. Count(<< >>, {x}) = 0 /\ Count(<< >>, With(x)) = 0
    BY CountOne
  <2> QED BY SMTT(20), <1>1, <2>2, <2>3 DEF Places
<1>4. NewBounded
  <2>1. Range(txns) \ old = {}
    BY SMTT(20), <1>1 DEF Range
  <2> QED BY SMTT(20), <2>1, FS_EmptySet, NodeAssumption DEF NewBounded, P!ConstantsOK
<1>5. OldBefore
  BY <1>1 DEF OldBefore
<1> QED BY <1>2, <1>3, <1>4, <1>5 DEF PoolInv, OnePlace

(* Every step of the replica is a step of the pool or leaves it alone. *)
LEMMA PoolStep == ASSUME PoolInv, [NodeNext]_allVars PROVE PoolInv'
<1>1. CASE Starting \/ EndOfEvent \/ UNCHANGED allVars
  BY <1>1, IdleStep DEF Starting, EndOfEvent, allVars
<1>2. CASE handleTxn
  BY <1>2, AddStep DEF handleTxn
<1>3. CASE Propose
  BY <1>3, ProposeStep DEF Propose
<1>4. CASE Decide
  BY <1>4, DecideStep DEF Decide
<1>5. CASE Deliver
  BY <1>5, SendStep DEF Deliver
<1>6. CASE ListenCommittedBlocks
  BY <1>6, ListenStep DEF ListenCommittedBlocks
<1> QED
  BY <1>1, <1>2, <1>3, <1>4, <1>5, <1>6 DEF NodeNext

(* The pool of a replica, while it starts, proposes and decides. *)
THEOREM PoolInvHolds == NodeSpec => []PoolInv
<1>1. NodeInit => PoolInv
  BY PoolInit DEF NodeInit
<1>2. PoolInv /\ [NodeNext]_allVars => PoolInv'
  BY PoolStep
<1> QED BY <1>1, <1>2, PTL DEF NodeSpec

(* insertBack keeps new transactions out of a full pool of the replica,    *)
(* while insertFront puts those of forked blocks back without a look at    *)
(* the limit and the replica starts, proposes and decides.                 *)
THEOREM ReplicaPoolBounded == NodeSpec => []PoolBound
<1>1. PoolInv => PoolBound
  BY PoolOperators DEF PoolInv, NewBounded, PoolBound, P!PoolBound
<1> QED BY <1>1, PoolInvHolds, PTL

(* What insertFront put back stands before what no block ever held, so     *)
(* some takes it first, however the listener, the clients and the loop     *)
(* take turns.                                                             *)
THEOREM ForkedGoFirst == NodeSpec => []OldFirst
<1>1. PoolInv => OldFirst
  BY DEF PoolInv, OldBefore, OldFirst, P!OldFirst
<1> QED BY <1>1, PoolInvHolds, PTL

(* The goroutines of a replica lose no transaction and copy none: it is    *)
(* with a client, refused, in the list, in one block on its way, being     *)
(* collected, or committed.                                                *)
THEOREM TxnsConserved == NodeSpec => []Conserved
<1>1. ASSUME PoolTypes, NEW t, NEW l \in Seq(Blocks)
      PROVE  {i \in DOMAIN l : t \in Range(l[i])} = Hits(l, With(t))
  <2>1. ASSUME NEW i \in DOMAIN l PROVE l[i] \in Seq(Txns)
    <3>1. l[i] \in Blocks
      BY SMTT(20)
    <3> QED BY <1>1, <3>1, BlockFacts
  <2> QED BY <2>1 DEF Hits, With
<1>2. ASSUME PoolTypes, NEW t
      PROVE  {b \in proposed : t \in Range(b)} = proposed \cap With(t)
  BY <1>2, BlockFacts DEF PoolTypes, With
<1>3. ASSUME NEW t, NEW l
      PROVE  P!Occurs(t, l) = Count(l, {t})
  <2>1. {i \in DOMAIN l : l[i] = t} = Hits(l, {t})
    BY DEF Hits
  <2> QED BY <2>1, PoolOperators DEF P!Occurs, Count
<1>4. ASSUME PoolTypes, NEW t, NEW l \in Seq(Blocks)
      PROVE  P!Holding(t, l) = Count(l, With(t))
  <2>1. P!Holding(t, l) = Cardinality({i \in DOMAIN l : t \in Range(l[i])})
    BY PoolOperators DEF P!Holding
  <2> QED BY <1>1, <1>4, <2>1 DEF Count
<1>5. PoolInv => Conserved
  <2> SUFFICES ASSUME PoolInv PROVE Conserved
    OBVIOUS
  <2>1. PoolTypes /\ OnePlace
    BY DEF PoolInv
  <2>2. ASSUME NEW t \in Txns
        PROVE  (IF t \in unsent \cup refused \cup done THEN 1 ELSE 0)
                 + P!Occurs(t, txns) + P!Occurs(t, collecting)
                 + P!Cardinality({b \in proposed : t \in P!Range(b)})
                 + P!Holding(t, toCommit) + P!Holding(t, toFork)
                 + P!Holding(t, committedBlocks) + P!Holding(t, forkedBlocks) = Places(t)
    <3>1. P!Occurs(t, txns) = Count(txns, {t}) /\ P!Occurs(t, collecting) = Count(collecting, {t})
      BY <1>3
    <3>2. /\ P!Holding(t, toCommit) = Count(toCommit, With(t))
          /\ P!Holding(t, toFork) = Count(toFork, With(t))
          /\ P!Holding(t, committedBlocks) = Count(committedBlocks, With(t))
          /\ P!Holding(t, forkedBlocks) = Count(forkedBlocks, With(t))
      BY <1>4, <2>1 DEF PoolTypes
    <3>3. P!Cardinality({b \in proposed : t \in P!Range(b)}) = Cardinality(proposed \cap With(t))
      BY <1>2, <2>1, PoolOperators
    <3> QED BY <3>1, <3>2, <3>3 DEF Places
  <2>3. unsent \cap refused = {} /\ done \cap (unsent \cup refused) = {}
    BY <2>1 DEF PoolTypes
  <2> QED BY <2>1, <2>2, <2>3 DEF OnePlace, Conserved, P!Conserved
<1> QED BY <1>5, PoolInvHolds, PTL
=============================================================================
