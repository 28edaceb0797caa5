------------------------ MODULE Certificates_proofs ------------------------
(***************************************************************************)
(* NoGap and ExactWithoutOverlap for every length of the chain and every   *)
(* number of timeouts.                                                     *)
(*                                                                         *)
(* The argument for NoGap is in GapInv: once a goroutine has passed the    *)
(* check of PruneUpToLevel it sends all it has found, so "sent or bound to *)
(* be sent" is stable, and the forest loses a block only after that holds  *)
(* for the block and everything below it.                                  *)
(*                                                                         *)
(* The one for ExactWithoutOverlap is in ExactInv: while one goroutine at  *)
(* a time is in processCertificate, every block from the lowest level on   *)
(* is stored, all that was sent is at or below it, and a goroutine deletes *)
(* only levels it has found on its way.                                    *)
(***************************************************************************)
EXTENDS Certificates, TLAPS

(* Zenon proves a step that names no prover; SMTT(20) sends one to the SMT solver. *)
USE ZenonT(20)

(* Every step keeps the types of what the argument uses. *)
LEMMA TypeInit == Init => TypeOK
  BY SMTT(20), CertificatesAssumption DEF Init, TypeOK, ControlOK, DataOK, Blocks, Threads, Labels

(* A goroutine moves on: the labels stay in range, and the loop works on a block. *)
LEMMA ControlStep ==
  ASSUME ControlOK, NEW t \in Threads, NEW l \in Labels, pc' = [pc EXCEPT ![t] = l],
         received \in Nat, received' \in Nat, received' >= received,
         t = "loop" => l = "idle" \/ received' > 0
  PROVE  ControlOK'
<1>1. pc' \in [Threads -> Labels]
  BY DEF ControlOK
<1>2. CASE t = "loop"
  BY <1>1, <1>2 DEF ControlOK, Threads
<1>3. CASE t # "loop"
  <2>1. pc'["loop"] = pc["loop"]
    BY <1>3 DEF ControlOK, Threads
  <2> QED
    BY SMTT(20), <1>1, <2>1 DEF ControlOK
<1> QED
  BY <1>2, <1>3

(* A step of processCertificate goes to another label or is a panic. *)
LEMMA StepLabels ==
  ASSUME NEW t \in Threads, Step(t)
  PROVE  /\ pc[t] \notin {"idle", "panic"} /\ received' = received
         /\ \/ \E l \in Labels : pc' = [pc EXCEPT ![t] = l]
            \/ pc' = [u \in Threads |-> "panic"]
<1> USE DEF Labels, Return, Goto, inputs
<1>1. CASE ReadPreferred(t)
  BY <1>1 DEF ReadPreferred
<1>2. CASE WritePreferred(t)
  BY <1>2 DEF WritePreferred
<1>3. CASE UpdateHighQC(t)
  BY <1>3 DEF UpdateHighQC
<1>4. CASE CommitRule(t)
  BY <1>4 DEF CommitRule
<1>5. CASE Walk(t)
  BY <1>5 DEF Walk
<1>6. CASE Collect(t)
  BY <1>6 DEF Collect
<1>7. CASE PruneCheck(t)
  BY <1>7 DEF PruneCheck
<1>8. CASE FindLevels(t)
  BY <1>8 DEF FindLevels, PruneLoop
<1>9. CASE FindParent(t)
  BY <1>9 DEF FindParent, PruneLoop
<1>10. CASE DeleteVertex(t)
  BY <1>10 DEF DeleteVertex
<1>11. CASE DeleteLevel(t)
  BY <1>11 DEF DeleteLevel
<1>12. CASE SetLowest(t)
  BY <1>12 DEF SetLowest
<1>13. CASE Send(t)
  BY <1>13 DEF Send
<1> QED
  BY <1>1, <1>2, <1>3, <1>4, <1>5, <1>6, <1>7, <1>8, <1>9, <1>10,
     <1>11, <1>12, <1>13 DEF Step

(* ... and keeps the types of the data. *)
LEMMA StepData ==
  ASSUME DataOK, NEW t \in Threads, Step(t)
  PROVE  DataOK'
<1> USE CertificatesAssumption DEF DataOK, Blocks
<1>1. CASE ReadPreferred(t)
  BY <1>1 DEF ReadPreferred, commit, inputs, sent, forest, locks
<1>2. CASE WritePreferred(t)
  BY <1>2 DEF WritePreferred, commit, inputs, sent, forest
<1>3. CASE UpdateHighQC(t)
  BY <1>3 DEF UpdateHighQC, updateHighQC, commit, inputs, sent, forest
<1>4. CASE CommitRule(t)
  <2>1. qc[t] - 2 \in vertices => qc[t] - 2 \in Nat
    BY SMTT(20)
  <2>2. block' \in [Threads -> Nat] /\ cur' \in [Threads -> Nat]
    BY <1>4, <2>1 DEF CommitRule, GetVertex
  <2>3. blocks' \in [Threads -> SUBSET Nat]
    BY <1>4 DEF CommitRule
  <2> QED
    BY <1>4, <2>2, <2>3 DEF CommitRule, inputs, sent, forest, locks
<1>5. CASE Walk(t)
  BY <1>5 DEF Walk, commit, inputs, sent, forest, locks
<1>6. CASE Collect(t)
  <2>1. cur[t] - 1 \in vertices => cur[t] - 1 \in Nat
    BY SMTT(20)
  <2>2. cur' \in [Threads -> Nat]
    BY <1>6, <2>1 DEF Collect, GetVertex
  <2> QED
    BY <1>6, <2>2 DEF Collect, inputs, sent, forest, locks
<1>7. CASE PruneCheck(t)
  BY <1>7 DEF PruneCheck, inputs, sent, forest, locks
<1>8. CASE FindLevels(t)
  BY <1>8 DEF FindLevels, PruneLoop, inputs, sent, forest, locks
<1>9. CASE FindParent(t)
  <2>1. cur[t] - 1 \in vertices => cur[t] - 1 \in Nat
    BY SMTT(20)
  <2>2. cur' \in [Threads -> Nat]
    BY <1>9, <2>1 DEF FindParent, PruneLoop, GetVertex
  <2> QED
    BY <1>9, <2>2 DEF FindParent, inputs, sent, forest, locks
<1>10. CASE DeleteVertex(t)
  BY <1>10 DEF DeleteVertex, inputs, sent, locks
<1>11. CASE DeleteLevel(t)
  BY SMTT(20), <1>11 DEF DeleteLevel, inputs, sent, locks
<1>12. CASE SetLowest(t)
  BY <1>12 DEF SetLowest, inputs, sent, commit, locks
<1>13. CASE Send(t)
  BY SMTT(20), <1>13 DEF Send, inputs, commit, forest, locks
<1> QED
  BY <1>1, <1>2, <1>3, <1>4, <1>5, <1>6, <1>7, <1>8, <1>9, <1>10,
     <1>11, <1>12, <1>13 DEF Step

(* Every step of the two goroutines keeps the types. *)
LEMMA TypeStep == TypeOK /\ [Next]_vars => TypeOK'
<1> SUFFICES ASSUME TypeOK, [Next]_vars PROVE TypeOK'
  OBVIOUS
<1>0. /\ ControlOK /\ DataOK /\ received \in Nat /\ received >= received
      /\ "loop" \in Threads /\ "listener" \in Threads
      /\ "idle" \in Labels /\ "add" \in Labels /\ "prefer" \in Labels
  BY SMTT(20) DEF TypeOK, DataOK, Threads, Labels
<1>1. CASE ProcessBlock
  <2>1. /\ received' = received + 1 /\ received' \in 0 .. MaxView /\ received' > 0
        /\ received' >= received /\ vertices' \subseteq 1 .. received'
    BY SMTT(20), <1>0, <1>1, CertificatesAssumption DEF ProcessBlock, forest, DataOK
  <2>2. highQC' \in Nat
    BY <1>0, <1>1 DEF ProcessBlock, updateHighQC, DataOK
  <2>3. qc' \in [Threads -> Nat]
    BY <1>0, <1>1 DEF ProcessBlock, Enter, DataOK
  <2>4. DataOK'
    BY <1>0, <1>1, <2>1, <2>2, <2>3 DEF ProcessBlock, commit, forest, sent, DataOK
  <2>5. \/ pc' = [pc EXCEPT !["loop"] = "prefer"]
        \/ pc' = [pc EXCEPT !["loop"] = "add"]
    BY <1>1 DEF ProcessBlock, Enter, Goto
  <2>6. received' \in Nat
    BY SMTT(20), <1>0, <2>1
  <2>7. ControlOK'
    BY <1>0, <2>1, <2>5, <2>6, ControlStep
  <2> QED
    BY <2>4, <2>7 DEF TypeOK
<1>2. CASE AddBlock
  <2>1. received' = received /\ pc' = [pc EXCEPT !["loop"] = "idle"] /\ received > 0
    BY <1>0, <1>2 DEF AddBlock, Goto, inputs, ControlOK
  <2>2. vertices' \subseteq 1 .. received'
    BY SMTT(20), <1>0, <1>2, <2>1 DEF AddBlock, DataOK
  <2>3. DataOK'
    BY <1>0, <1>2, <2>1, <2>2 DEF AddBlock, commit, sent, locks, DataOK
  <2>4. ControlOK'
    BY <1>0, <2>1, ControlStep
  <2> QED
    BY <2>3, <2>4 DEF TypeOK
<1>3. ASSUME NEW q \in Blocks, ProcessQC(q) PROVE TypeOK'
  <2>1. /\ received' = received /\ pc' = [pc EXCEPT !["loop"] = "prefer"]
        /\ q \in vertices /\ qc' = [qc EXCEPT !["loop"] = q]
    BY <1>3 DEF ProcessQC, Enter, Goto, inputs
  <2>2. q \in Nat /\ received > 0
    BY SMTT(20), <1>0, <2>1 DEF DataOK
  <2>3. DataOK'
    BY <1>0, <1>3, <2>1, <2>2 DEF ProcessQC, commit, sent, locks, forest, DataOK
  <2>4. ControlOK'
    BY <1>0, <2>1, <2>2, ControlStep
  <2> QED
    BY <2>3, <2>4 DEF TypeOK
<1>4. CASE ProcessLocalTmo
  <2>1. /\ received' = received /\ pc' = [pc EXCEPT !["listener"] = "prefer"]
        /\ qc' = [qc EXCEPT !["listener"] = highQC]
    BY <1>4 DEF ProcessLocalTmo, Enter, Goto
  <2>2. DataOK'
    BY <1>0, <1>4, <2>1 DEF ProcessLocalTmo, commit, sent, locks, forest, DataOK
  <2>3. ControlOK'
    BY <1>0, <2>1, ControlStep
  <2> QED
    BY <2>2, <2>3 DEF TypeOK
<1>5. ASSUME NEW t \in Threads, Step(t) PROVE TypeOK'
  <2>1. DataOK'
    BY <1>0, <1>5, StepData
  <2>2. CASE pc' = [u \in Threads |-> "panic"]
    <3>1. ControlOK'
      BY <1>0, <2>2 DEF ControlOK, Labels
    <3> QED
      BY <2>1, <3>1 DEF TypeOK
  <2>3. CASE pc' # [u \in Threads |-> "panic"]
    <3>1. PICK l \in Labels : pc' = [pc EXCEPT ![t] = l]
      BY <1>5, <2>3, StepLabels
    <3>2. received' = received /\ (t = "loop" => received > 0)
      BY <1>0, <1>5, StepLabels DEF ControlOK
    <3>3. ControlOK'
      BY <1>0, <3>1, <3>2, ControlStep
    <3> QED
      BY <2>1, <3>3 DEF TypeOK
  <2> QED
    BY <2>2, <2>3
<1>6. CASE UNCHANGED vars
  BY <1>0, <1>6 DEF vars, commit, inputs, sent, forest, locks, TypeOK, ControlOK, DataOK
<1> QED
  BY <1>1, <1>2, <1>3, <1>4, <1>5, <1>6 DEF Next

(* A block that was sent, or that a goroutine is bound to send, stays so   *)
(* whatever either goroutine does, a panic excepted.                       *)
LEMMA CoveredStays ==
  ASSUME TypeOK, [Next]_vars, NEW b \in Blocks, Covered(b)
  PROVE  Covered(b)' \/ Panicked'
<1> USE DEF TypeOK, ControlOK, DataOK
<1> DEFINE Keeps ==
      /\ \A u \in Threads : Pruning(u) => Pruning(u)' /\ blocks'[u] = blocks[u]
      /\ committed' = committed
<1>0. ASSUME Keeps PROVE Covered(b)'
  BY <1>0 DEF Covered
<1> HIDE DEF Keeps
<1>1. CASE ProcessBlock
  <2>1. Keeps
    BY <1>1 DEF ProcessBlock, Enter, Goto, Threads, commit, sent, Pruning, Keeps
  <2> QED
    BY <1>0, <2>1
<1>2. CASE AddBlock
  <2>1. Keeps
    BY <1>2 DEF AddBlock, Goto, Threads, commit, sent, Pruning, Keeps
  <2> QED
    BY <1>0, <2>1
<1>3. ASSUME NEW q \in Blocks, ProcessQC(q) PROVE Covered(b)'
  <2>1. Keeps
    BY <1>3 DEF ProcessQC, Enter, Goto, Threads, commit, sent, Pruning, Keeps
  <2> QED
    BY <1>0, <2>1
<1>4. CASE ProcessLocalTmo
  <2>1. Keeps
    BY <1>4 DEF ProcessLocalTmo, Enter, Goto, Threads, commit, sent, Pruning, Keeps
  <2> QED
    BY <1>0, <2>1
<1>5. ASSUME NEW t \in Threads, Step(t) PROVE Covered(b)' \/ Panicked'
  <2>1. CASE ReadPreferred(t)
    BY <1>0, <2>1 DEF ReadPreferred, Return, Goto, commit, sent, Pruning, Keeps
  <2>2. CASE WritePreferred(t)
    BY <1>0, <2>2 DEF WritePreferred, Goto, commit, sent, Pruning, Keeps
  <2>3. CASE UpdateHighQC(t)
    BY <1>0, <2>3 DEF UpdateHighQC, Return, Goto, commit, sent, Pruning, Keeps
  <2>4. CASE CommitRule(t)
    BY <1>0, <2>4 DEF CommitRule, Return, Goto, sent, Pruning, Keeps
  <2>5. CASE Walk(t)
    BY <1>0, <2>5 DEF Walk, Goto, commit, sent, Pruning, Keeps
  <2>6. CASE Collect(t)
    BY <1>0, <2>6 DEF Collect, Goto, sent, Pruning, Keeps
  <2>7. CASE PruneCheck(t)
    BY <1>0, <2>7 DEF PruneCheck, Return, Goto, sent, Pruning, Keeps
  <2>8. CASE FindLevels(t)
    BY <1>0, <2>8 DEF FindLevels, PruneLoop, Goto, sent, Pruning, Keeps
  <2>9. CASE FindParent(t)
    <3>1. CASE cur[t] \notin verticesAtLevel
      BY <2>9, <3>1 DEF FindParent, Panicked
    <3>2. CASE cur[t] \in verticesAtLevel
      BY <1>0, <2>9, <3>2 DEF FindParent, PruneLoop, Goto, sent, Pruning, Keeps
    <3> QED
      BY <3>1, <3>2
  <2>10. CASE DeleteVertex(t)
    BY <1>0, <2>10 DEF DeleteVertex, Goto, sent, Pruning, Keeps
  <2>11. CASE DeleteLevel(t)
    BY <1>0, <2>11 DEF DeleteLevel, Goto, sent, Pruning, Keeps
  <2>12. CASE SetLowest(t)
    BY <1>0, <2>12 DEF SetLowest, Goto, sent, commit, Pruning, Keeps
  <2>13. CASE Send(t)
    <3>1. /\ committed'[b] = committed[b] + IF b \in blocks[t] THEN 1 ELSE 0
          /\ committed[b] \in Nat
      BY <2>13 DEF Send
    <3>2. CASE committed[b] > 0
      BY SMTT(20), <3>1, <3>2 DEF Covered
    <3>3. CASE b \in blocks[t]
      BY SMTT(20), <3>1, <3>3 DEF Covered
    <3>4. ASSUME NEW u \in Threads, u # t, Pruning(u), b \in blocks[u] PROVE Covered(b)'
      BY <2>13, <3>4 DEF Send, Return, Goto, commit, Pruning, Covered
    <3> QED
      BY <3>2, <3>3, <3>4 DEF Covered
  <2> QED
    BY <1>5, <2>1, <2>2, <2>3, <2>4, <2>5, <2>6, <2>7, <2>8, <2>9, <2>10, <2>11,
       <2>12, <2>13 DEF Step
<1>6. CASE UNCHANGED vars
  BY <1>6 DEF vars, commit, sent, Covered, Pruning
<1> QED
  BY <1>1, <1>2, <1>3, <1>4, <1>5, <1>6 DEF Next

(* After a panic nothing happens. *)
LEMMA PanicIsFinal == TypeOK /\ Panicked /\ [Next]_vars => Panicked'
<1> SUFFICES ASSUME TypeOK, Panicked, [Next]_vars PROVE Panicked'
  OBVIOUS
<1>1. pc["loop"] = "panic" /\ pc["listener"] = "panic"
  BY DEF Panicked, Threads
<1>2. ~ProcessBlock /\ ~AddBlock /\ ~ProcessLocalTmo /\ \A q \in Blocks : ~ProcessQC(q)
  BY <1>1 DEF ProcessBlock, AddBlock, ProcessLocalTmo, ProcessQC, Enter
<1>3. \A t \in Threads : ~Step(t)
  BY <1>1 DEF Threads, Step, ReadPreferred, WritePreferred, UpdateHighQC, CommitRule, Walk,
     Collect, PruneCheck, FindLevels, FindParent, DeleteVertex, DeleteLevel, SetLowest, Send
<1> QED
  BY <1>2, <1>3 DEF Next, vars, Panicked

(* What a step leaves of one goroutine when it is a step of the other one, *)
(* and what never falls.                                                   *)
LEMMA OtherStays ==
  ASSUME TypeOK, NEW t \in Threads, CommitCovered(t),
         received' \in Nat, received' >= received,
         pc'[t] = pc[t], block'[t] = block[t], cur'[t] = cur[t], blocks'[t] = blocks[t],
         \A b \in Blocks : Covered(b) => Covered(b)'
  PROVE  CommitCovered(t)'
<1>1. Committing(t)' = Committing(t) /\ Pruning(t)' = Pruning(t)
  BY DEF Committing, Pruning
<1>2. /\ received \in Nat /\ received <= MaxView /\ block[t] \in Nat /\ MaxView \in Nat
  BY SMTT(20), CertificatesAssumption DEF TypeOK, ControlOK, DataOK
<1>3. Committing(t) \/ Pruning(t) => \A b \in 1 .. block[t] : b \in Blocks
  <2> SUFFICES ASSUME Committing(t) \/ Pruning(t) PROVE \A b \in 1 .. block[t] : b \in Blocks
    OBVIOUS
  <2>1. block[t] \in 1 .. received
    BY DEF CommitCovered
  <2> QED BY SMTT(20), <1>2, <2>1 DEF Blocks
<1>4. Committing(t) \/ Pruning(t) => block[t] \in 1 .. received'
  BY SMTT(20), <1>2 DEF CommitCovered
<1> QED
  BY <1>1, <1>2, <1>3, <1>4 DEF CommitCovered, Committing

(* What is below the lowest level stays covered while that level does not move. *)
LEMMA LowestStays ==
  ASSUME TypeOK, LowestCovered, LowestLevel' = LowestLevel,
         received' \in Nat, received' >= received,
         \A b \in Blocks : Covered(b) => Covered(b)'
  PROVE  LowestCovered'
<1>1. received \in Nat /\ received <= MaxView /\ LowestLevel \in Nat /\ MaxView \in Nat
  BY SMTT(20), CertificatesAssumption DEF TypeOK, ControlOK, DataOK
<1>2. \A b \in 1 .. LowestLevel : b \in Blocks
  BY SMTT(20), <1>1 DEF LowestCovered, Blocks
<1> QED
  BY SMTT(20), <1>1, <1>2 DEF LowestCovered

(* What was pruned stays covered while nothing more is deleted. *)
LEMMA PrunedStays ==
  ASSUME TypeOK, PrunedCovered, received' = received, vertices \subseteq vertices',
         pc'["loop"] = "idle" => pc["loop"] = "idle" \/ received \in vertices',
         \A b \in Blocks : Covered(b) => Covered(b)'
  PROVE  PrunedCovered'
<1>1. received \in Nat /\ received <= MaxView /\ MaxView \in Nat
  BY SMTT(20), CertificatesAssumption DEF TypeOK, ControlOK, DataOK
<1>2. \A b \in 1 .. received : b \in Blocks /\ \A c \in 1 .. b : c \in Blocks
  BY SMTT(20), <1>1 DEF Blocks
<1>3. ASSUME NEW b \in 1 .. received
      PROVE  \/ b \in vertices'
             \/ b = received /\ pc'["loop"] # "idle"
             \/ \A c \in 1 .. b : Covered(c)'
  BY <1>2 DEF PrunedCovered
<1> QED
  BY <1>3 DEF PrunedCovered

(* One step of processCertificate. *)
LEMMA StepKeeps ==
  ASSUME GapInv, NEW t \in Threads, Step(t), UNCHANGED overlapped, ~Panicked'
  PROVE  LowestCovered' /\ PrunedCovered' /\ \A u \in Threads : CommitCovered(u)'
<1>0. /\ TypeOK /\ TypeOK'
      /\ \A b \in Blocks : Covered(b) => Covered(b)'
      /\ LowestCovered /\ PrunedCovered /\ \A u \in Threads : CommitCovered(u)
  <2>1. Next
    BY DEF Next
  <2>2. ~Panicked
    BY <2>1, PanicIsFinal DEF GapInv
  <2> QED
    BY <2>1, <2>2, TypeStep, CoveredStays DEF GapInv
<1>1. received' = received /\ received \in Nat /\ received >= received
  <2>1. received' = received
    BY DEF Step, ReadPreferred, WritePreferred, UpdateHighQC, CommitRule, Walk,
       Collect, PruneCheck, FindLevels, FindParent, DeleteVertex, DeleteLevel, SetLowest, Send,
       inputs
  <2> QED
    BY SMTT(20), <1>0, <2>1 DEF TypeOK, ControlOK, DataOK
<1>2. ASSUME NEW u \in Threads, u # t PROVE CommitCovered(u)'
  <2>1. /\ pc'[u] = pc[u] /\ block'[u] = block[u]
        /\ cur'[u] = cur[u] /\ blocks'[u] = blocks[u]
    <3> USE <1>0, <1>2 DEF TypeOK, ControlOK, DataOK
    <3>1. CASE ReadPreferred(t) \/ WritePreferred(t) \/ UpdateHighQC(t)
      BY <3>1 DEF ReadPreferred, WritePreferred, UpdateHighQC, Return, Goto, commit
    <3>2. CASE CommitRule(t)
      BY <3>2 DEF CommitRule, Return, Goto
    <3>3. CASE Walk(t) \/ Collect(t)
      BY <3>3 DEF Walk, Collect, Goto, commit
    <3>4. CASE PruneCheck(t)
      BY <3>4 DEF PruneCheck, Return, Goto
    <3>5. CASE FindLevels(t)
      BY <3>5 DEF FindLevels, PruneLoop, Goto
    <3>6. CASE FindParent(t)
      BY <3>6 DEF FindParent, PruneLoop, Goto, Panicked
    <3>7. CASE DeleteVertex(t) \/ DeleteLevel(t)
      BY <3>7 DEF DeleteVertex, DeleteLevel, Goto
    <3>8. CASE SetLowest(t) \/ Send(t)
      BY <3>8 DEF SetLowest, Send, Return, Goto, commit
    <3> QED
      BY <3>1, <3>2, <3>3, <3>4, <3>5, <3>6, <3>7, <3>8 DEF Step
  <2> QED
    BY <1>0, <1>1, <2>1, OtherStays
<1> SUFFICES LowestCovered' /\ PrunedCovered' /\ CommitCovered(t)'
  BY <1>2
<1>3. ASSUME LowestLevel' = LowestLevel PROVE LowestCovered'
  BY <1>0, <1>1, <1>3, LowestStays
<1>4. ASSUME vertices' = vertices,
             pc'["loop"] = "idle" => pc["loop"] = "idle" \/ received \in vertices
      PROVE  PrunedCovered'
  BY <1>0, <1>1, <1>4, PrunedStays
<1>5. ASSUME Return(t) PROVE pc'["loop"] = "idle" => pc["loop"] = "idle" \/ received \in vertices
  BY <1>0, <1>5 DEF Return, Goto, Threads, TypeOK, ControlOK, DataOK
<1>6. ASSUME NEW step, pc' = [pc EXCEPT ![t] = step], step # "idle"
      PROVE  pc'["loop"] = "idle" => pc["loop"] = "idle"
  BY <1>0, <1>6 DEF TypeOK, ControlOK, DataOK, Threads
<1>7. ASSUME Return(t) PROVE CommitCovered(t)'
  BY <1>0, <1>7 DEF Return, Goto, TypeOK, ControlOK, DataOK, CommitCovered, Committing, Pruning
<1>8. /\ received <= MaxView /\ MaxView \in Nat /\ LowestLevel \in Nat
      /\ block[t] \in Nat /\ cur[t] \in Nat /\ t \in DOMAIN pc
      /\ vertices \subseteq 1 .. received
  BY SMTT(20), <1>0, CertificatesAssumption DEF TypeOK, ControlOK, DataOK
<1>9. \A b \in 1 .. received : b \in Blocks
  BY SMTT(20), <1>1, <1>8 DEF Blocks
<1>10. CASE ReadPreferred(t)
  <2>1. pc'[t] \notin {"walk", "collect", "prune", "levels", "parent", "delete", "level", "send"}
    BY <1>0, <1>10 DEF ReadPreferred, Return, Goto, TypeOK, ControlOK, DataOK
  <2>2. CommitCovered(t)'
    BY <2>1 DEF CommitCovered, Committing, Pruning
  <2>3. PrunedCovered'
    BY <1>4, <1>5, <1>6, <1>10 DEF ReadPreferred, forest, Goto
  <2> QED
    BY <1>3, <1>10, <2>2, <2>3 DEF ReadPreferred, forest
<1>11. CASE WritePreferred(t)
  <2>1. CommitCovered(t)'
    BY <1>0, <1>11 DEF WritePreferred, Goto, TypeOK, ControlOK, DataOK, CommitCovered, Committing, Pruning
  <2> QED
    BY <1>3, <1>4, <1>6, <1>11, <2>1 DEF WritePreferred, Goto, forest
<1>12. CASE UpdateHighQC(t)
  <2>1. pc'[t] \notin {"walk", "collect", "prune", "levels", "parent", "delete", "level", "send"}
    BY <1>0, <1>12 DEF UpdateHighQC, Return, Goto, TypeOK, ControlOK, DataOK
  <2>2. CommitCovered(t)'
    BY <2>1 DEF CommitCovered, Committing, Pruning
  <2>3. PrunedCovered'
    BY <1>4, <1>5, <1>6, <1>12 DEF UpdateHighQC, forest, Goto
  <2> QED
    BY <1>3, <1>12, <2>2, <2>3 DEF UpdateHighQC, forest
<1>13. CASE CommitRule(t)
  <2>1. CASE Return(t)
    BY <1>3, <1>4, <1>5, <1>7, <1>13, <2>1 DEF CommitRule, forest
  <2>2. CASE ~Return(t)
    <3>1. /\ qc[t] - 2 \in 1 .. received
          /\ block'[t] = qc[t] - 2 /\ cur'[t] = qc[t] - 2
          /\ pc' = [pc EXCEPT ![t] = "walk"] /\ pc'[t] = "walk"
      BY <1>0, <1>8, <1>13, <2>2 DEF CommitRule, GetVertex, Goto, TypeOK, ControlOK, DataOK
    <3>2. CommitCovered(t)'
      BY SMTT(20), <1>1, <3>1 DEF CommitCovered, Committing, Pruning
    <3> QED
      BY <1>3, <1>4, <1>6, <1>13, <3>1, <3>2 DEF CommitRule, forest
  <2> QED
    BY <2>1, <2>2
<1>14. CASE Walk(t)
  <2>1. /\ pc' = [pc EXCEPT ![t] = IF cur[t] > LowestLevel THEN "collect" ELSE "prune"]
        /\ block'[t] = block[t] /\ cur'[t] = cur[t] /\ blocks'[t] = blocks[t]
        /\ pc[t] = "walk"
        /\ vertices' = vertices /\ LowestLevel' = LowestLevel
    BY <1>14 DEF Walk, Goto, commit, forest
  <2>2. /\ block[t] \in 1 .. received /\ cur[t] \in 1 .. block[t]
        /\ \A b \in cur[t] + 1 .. block[t] : b \in blocks[t]
    BY <1>0, <2>1 DEF CommitCovered, Committing
  <2>3. CASE cur[t] > LowestLevel
    <3>1. pc' = [pc EXCEPT ![t] = "collect"] /\ pc'[t] = "collect"
      BY <1>8, <2>1, <2>3
    <3>2. CommitCovered(t)'
      BY <1>1, <2>1, <2>2, <3>1 DEF CommitCovered, Committing, Pruning
    <3> QED
      BY <1>3, <1>4, <1>6, <2>1, <3>1, <3>2
  <2>4. CASE ~(cur[t] > LowestLevel)
    <3>1. pc' = [pc EXCEPT ![t] = "prune"] /\ pc'[t] = "prune"
      BY <1>8, <2>1, <2>4
    <3>2. ASSUME NEW b \in 1 .. block[t] PROVE b \in blocks[t] \/ Covered(b)'
      <4>1. b \in Blocks /\ (b \in cur[t] + 1 .. block[t] \/ b \in 1 .. LowestLevel)
        BY SMTT(20), <1>1, <1>8, <1>9, <2>2, <2>4
      <4> QED
        BY <1>0, <2>2, <4>1 DEF LowestCovered
    <3>3. CommitCovered(t)'
      BY <1>1, <2>1, <2>2, <3>1, <3>2 DEF CommitCovered, Committing, Pruning
    <3> QED
      BY <1>3, <1>4, <1>6, <2>1, <3>1, <3>3
  <2> QED
    BY <2>3, <2>4
<1>15. CASE Collect(t)
  <2>1. /\ pc[t] = "collect" /\ block'[t] = block[t]
        /\ blocks'[t] = blocks[t] \cup {cur[t]}
        /\ vertices' = vertices /\ LowestLevel' = LowestLevel
    BY <1>0, <1>15 DEF Collect, forest, TypeOK, ControlOK, DataOK
  <2>2. /\ block[t] \in 1 .. received /\ cur[t] \in 1 .. block[t]
        /\ \A b \in cur[t] + 1 .. block[t] : b \in blocks[t]
    BY <1>0, <2>1 DEF CommitCovered, Committing
  <2>3. \A b \in cur[t] .. block[t] : b \in blocks'[t]
    BY SMTT(20), <1>8, <2>1, <2>2
  <2>4. CASE GetVertex(cur[t] - 1)
    <3>1. /\ pc' = [pc EXCEPT ![t] = "walk"] /\ pc'[t] = "walk"
          /\ cur'[t] = cur[t] - 1 /\ cur[t] - 1 \in 1 .. received
      BY <1>0, <1>8, <1>15, <2>4 DEF Collect, Goto, GetVertex, TypeOK, ControlOK, DataOK
    <3>2. cur'[t] \in 1 .. block'[t] /\ cur'[t] + 1 = cur[t]
      BY SMTT(20), <1>1, <1>8, <2>1, <2>2, <3>1
    <3>3. CommitCovered(t)'
      BY <1>1, <2>1, <2>2, <2>3, <3>1, <3>2 DEF CommitCovered, Committing, Pruning
    <3> QED
      BY <1>3, <1>4, <1>6, <2>1, <3>1, <3>3
  <2>5. CASE ~GetVertex(cur[t] - 1)
    <3>1. pc' = [pc EXCEPT ![t] = "prune"] /\ pc'[t] = "prune"
      BY <1>8, <1>15, <2>5 DEF Collect, Goto
    <3>2. ASSUME NEW b \in 1 .. block[t] PROVE b \in blocks'[t] \/ Covered(b)'
      <4>1. CASE b \in cur[t] .. block[t]
        BY <2>3, <4>1
      <4>2. CASE b \notin cur[t] .. block[t]
        <5>1. /\ cur[t] - 1 \in 1 .. received /\ cur[t] - 1 # received
              /\ b \in 1 .. cur[t] - 1 /\ b \in Blocks
          BY SMTT(20), <1>1, <1>8, <1>9, <2>2, <4>2
        <5> QED
          BY <1>0, <2>5, <5>1 DEF PrunedCovered, GetVertex
      <4> QED
        BY <4>1, <4>2
    <3>3. CommitCovered(t)'
      BY <1>1, <2>1, <2>2, <3>1, <3>2 DEF CommitCovered, Committing, Pruning
    <3> QED
      BY <1>3, <1>4, <1>6, <2>1, <3>1, <3>3
  <2> QED
    BY <2>4, <2>5
<1>16. CASE PruneCheck(t)
  <2>1. CASE Return(t)
    BY <1>3, <1>4, <1>5, <1>7, <1>16, <2>1 DEF PruneCheck, forest
  <2>2. CASE ~Return(t)
    <3>1. /\ pc' = [pc EXCEPT ![t] = "levels"] /\ pc'[t] = "levels" /\ pc[t] = "prune"
          /\ block'[t] = block[t] /\ blocks'[t] = blocks[t]
          /\ vertices' = vertices /\ LowestLevel' = LowestLevel
      BY <1>8, <1>16, <2>2 DEF PruneCheck, Goto, forest
    <3>2. block[t] \in 1 .. received
      BY <1>0, <3>1 DEF CommitCovered, Committing
    <3>3. ASSUME NEW b \in 1 .. block[t] PROVE Covered(b)'
      <4>1. b \in Blocks /\ (b \in blocks[t] \/ Covered(b))
        BY SMTT(20), <1>0, <1>1, <1>8, <1>9, <3>1, <3>2 DEF CommitCovered
      <4>2. CASE Covered(b)
        BY <1>0, <4>1, <4>2
      <4>3. CASE b \in blocks[t]
        BY <3>1, <4>3 DEF Covered, Pruning
      <4> QED
        BY <4>1, <4>2, <4>3
    <3>4. CommitCovered(t)'
      BY <1>1, <3>1, <3>2, <3>3 DEF CommitCovered, Committing, Pruning
    <3> QED
      BY <1>3, <1>4, <1>6, <3>1, <3>4
  <2> QED
    BY <2>1, <2>2
<1>17. ASSUME Pruning(t), Pruning(t)', block' = block
       PROVE  /\ CommitCovered(t)'
              /\ block[t] \in 1 .. received
              /\ \A b \in 1 .. block[t] : Covered(b)'
  <2>1. /\ block[t] \in 1 .. received
        /\ \A b \in 1 .. block[t] : b \in Blocks /\ Covered(b)
    BY SMTT(20), <1>0, <1>1, <1>8, <1>9, <1>17 DEF CommitCovered
  <2> QED
    BY <1>0, <1>1, <1>17, <2>1 DEF CommitCovered, Committing, Pruning
<1>18. CASE FindLevels(t)
  <2>1. /\ pc' = [pc EXCEPT ![t] = "delete"] \/ pc' = [pc EXCEPT ![t] = "parent"]
        /\ pc[t] = "levels" /\ block' = block
        /\ vertices' = vertices /\ LowestLevel' = LowestLevel
    BY <1>18 DEF FindLevels, PruneLoop, Goto, forest
  <2>2. Pruning(t) /\ Pruning(t)'
    BY <1>8, <2>1 DEF Pruning
  <2> QED
    BY <1>3, <1>4, <1>6, <1>17, <2>1, <2>2
<1>19. CASE FindParent(t)
  <2>1. /\ pc' = [pc EXCEPT ![t] = "delete"] \/ pc' = [pc EXCEPT ![t] = "levels"]
        /\ pc[t] = "parent" /\ block' = block
        /\ vertices' = vertices /\ LowestLevel' = LowestLevel
    BY <1>19 DEF FindParent, PruneLoop, Goto, forest, Panicked
  <2>2. Pruning(t) /\ Pruning(t)'
    BY <1>8, <2>1 DEF Pruning
  <2> QED
    BY <1>3, <1>4, <1>6, <1>17, <2>1, <2>2
<1>20. CASE DeleteVertex(t)
  <2>1. /\ pc' = [pc EXCEPT ![t] = "level"]
        /\ pc[t] = "delete" /\ block' = block
        /\ LowestLevel' = LowestLevel /\ cur[t] < block[t]
        /\ vertices \ {cur[t]} \subseteq vertices'
    BY <1>20 DEF DeleteVertex, Goto
  <2>2. Pruning(t) /\ Pruning(t)'
    BY <1>8, <2>1 DEF Pruning
  <2>3. \A b \in 1 .. block[t] : Covered(b)'
    BY <1>17, <2>1, <2>2
  <2>4. ASSUME NEW b \in 1 .. received
        PROVE  \/ b \in vertices'
               \/ b = received /\ pc'["loop"] # "idle"
               \/ \A c \in 1 .. b : Covered(c)'
    <3>1. CASE b = cur[t]
      <4>1. \A c \in 1 .. b : c \in 1 .. block[t]
        BY SMTT(20), <1>8, <2>1, <3>1
      <4> QED
        BY <2>3, <4>1
    <3>2. CASE b # cur[t]
      <4>1. \A c \in 1 .. b : c \in Blocks
        BY SMTT(20), <1>1, <1>8, <1>9
      <4>2. pc'["loop"] = "idle" => pc["loop"] = "idle"
        BY <1>6, <2>1
      <4> QED
        BY <1>0, <2>1, <3>2, <4>1, <4>2 DEF PrunedCovered
    <3> QED
      BY <3>1, <3>2
  <2>5. PrunedCovered'
    BY <1>1, <2>4 DEF PrunedCovered
  <2> QED
    BY <1>3, <1>17, <2>1, <2>2, <2>5
<1>21. CASE DeleteLevel(t)
  <2>1. /\ pc' = [pc EXCEPT ![t] = "delete"]
        /\ pc[t] = "level" /\ block' = block
        /\ vertices' = vertices /\ LowestLevel' = LowestLevel
    BY <1>21 DEF DeleteLevel, Goto
  <2>2. Pruning(t) /\ Pruning(t)'
    BY <1>8, <2>1 DEF Pruning
  <2> QED
    BY <1>3, <1>4, <1>6, <1>17, <2>1, <2>2
<1>22. CASE SetLowest(t)
  <2>1. /\ pc' = [pc EXCEPT ![t] = "send"]
        /\ pc[t] = "delete" /\ block' = block
        /\ vertices' = vertices /\ LowestLevel' = block[t]
    BY <1>22 DEF SetLowest, Goto, commit
  <2>2. Pruning(t) /\ Pruning(t)'
    BY <1>8, <2>1 DEF Pruning
  <2>3. LowestCovered'
    BY SMTT(20), <1>1, <1>17, <2>1, <2>2 DEF LowestCovered
  <2> QED
    BY <1>4, <1>6, <1>17, <2>1, <2>2, <2>3
<1>23. CASE Send(t)
  BY <1>3, <1>4, <1>5, <1>7, <1>23 DEF Send, forest
<1> QED
  BY <1>10, <1>11, <1>12, <1>13, <1>14, <1>15, <1>16, <1>18, <1>19, <1>20, <1>21, <1>22,
     <1>23 DEF Step

(* The two callers keep the invariant, and so does the loop when it adds   *)
(* the block: they touch no block that is stored.                          *)
LEMMA GapStep == GapInv /\ [Next]_vars => GapInv'
<1> SUFFICES ASSUME GapInv, [Next]_vars, ~Panicked' PROVE GapInv'
  BY TypeStep DEF GapInv
<1>0. /\ TypeOK /\ TypeOK'
      /\ \A b \in Blocks : Covered(b) => Covered(b)'
      /\ LowestCovered /\ PrunedCovered /\ \A u \in Threads : CommitCovered(u)
  <2>1. ~Panicked
    BY PanicIsFinal DEF GapInv
  <2> QED
    BY <2>1, TypeStep, CoveredStays DEF GapInv
<1> SUFFICES LowestCovered' /\ PrunedCovered' /\ \A u \in Threads : CommitCovered(u)'
  BY <1>0 DEF GapInv
<1>1. /\ received \in Nat /\ received' \in Nat /\ received <= MaxView /\ MaxView \in Nat
      /\ "loop" \in Threads /\ "listener" \in Threads
  BY SMTT(20), <1>0, CertificatesAssumption DEF TypeOK, ControlOK, DataOK, Threads
<1>2. ASSUME NEW t \in Threads, NEW step \in {"idle", "add", "prefer"},
             pc' = [pc EXCEPT ![t] = step], pc[t] \in {"idle", "add"}, commit' = commit,
             received' >= received
      PROVE  \A u \in Threads : CommitCovered(u)'
  <2>1. CommitCovered(t)'
    BY <1>0, <1>2 DEF TypeOK, ControlOK, DataOK, CommitCovered, Committing, Pruning
  <2>2. ASSUME NEW u \in Threads, u # t PROVE CommitCovered(u)'
    BY <1>0, <1>1, <1>2, <2>2, OtherStays DEF TypeOK, ControlOK, DataOK, commit
  <2> QED
    BY <2>1, <2>2
<1>3. CASE ProcessBlock
  <2>1. /\ \/ pc' = [pc EXCEPT !["loop"] = "prefer"]
           \/ pc' = [pc EXCEPT !["loop"] = "add"]
        /\ pc["loop"] = "idle" /\ commit' = commit /\ received' = received + 1
        /\ vertices' = vertices /\ LowestLevel' = LowestLevel
    BY <1>3 DEF ProcessBlock, Enter, Goto, forest
  <2>2. received' >= received /\ pc'["loop"] # "idle"
    BY SMTT(20), <1>0, <1>1, <2>1 DEF TypeOK, ControlOK, DataOK
  <2>3. ASSUME NEW b \in 1 .. received'
        PROVE  \/ b \in vertices'
               \/ b = received' /\ pc'["loop"] # "idle"
               \/ \A c \in 1 .. b : Covered(c)'
    <3>1. CASE b = received'
      BY <2>2, <3>1
    <3>2. CASE b # received'
      <4>1. b \in 1 .. received
        BY SMTT(20), <1>1, <2>1, <3>2
      <4>2. \A c \in 1 .. b : c \in Blocks
        BY SMTT(20), <1>1, <4>1 DEF Blocks
      <4> QED
        BY <1>0, <2>1, <4>1, <4>2 DEF PrunedCovered
    <3> QED
      BY <3>1, <3>2
  <2>4. PrunedCovered'
    BY <2>3 DEF PrunedCovered
  <2>5. LowestCovered'
    BY <1>0, <1>1, <2>1, <2>2, LowestStays
  <2> QED
    BY <1>1, <1>2, <2>1, <2>2, <2>4, <2>5
<1>4. CASE AddBlock
  <2>1. /\ pc' = [pc EXCEPT !["loop"] = "idle"] /\ pc["loop"] = "add"
        /\ commit' = commit /\ received' = received /\ received' >= received
        /\ vertices' = vertices \cup {received} /\ LowestLevel' = LowestLevel
    BY SMTT(20), <1>1, <1>4 DEF AddBlock, Goto, inputs
  <2>2. PrunedCovered'
    BY <1>0, <2>1, PrunedStays
  <2>3. LowestCovered'
    BY <1>0, <1>1, <2>1, LowestStays
  <2> QED
    BY <1>1, <1>2, <2>1, <2>2, <2>3
<1>5. ASSUME NEW t \in Threads, pc' = [pc EXCEPT ![t] = "prefer"], pc[t] = "idle",
             commit' = commit, received' = received, forest' = forest
      PROVE  LowestCovered' /\ PrunedCovered' /\ \A u \in Threads : CommitCovered(u)'
  <2>1. received' >= received /\ vertices' = vertices /\ LowestLevel' = LowestLevel
    BY SMTT(20), <1>1, <1>5 DEF forest
  <2>2. pc'["loop"] = "idle" => pc["loop"] = "idle"
    BY <1>0, <1>1, <1>5 DEF TypeOK, ControlOK, DataOK
  <2>3. PrunedCovered'
    BY <1>0, <1>5, <2>1, <2>2, PrunedStays
  <2>4. LowestCovered'
    BY <1>0, <1>1, <2>1, LowestStays
  <2> QED
    BY <1>2, <1>5, <2>1, <2>3, <2>4
<1>6. ASSUME NEW q \in Blocks, ProcessQC(q)
      PROVE  LowestCovered' /\ PrunedCovered' /\ \A u \in Threads : CommitCovered(u)'
  BY <1>1, <1>5, <1>6 DEF ProcessQC, Enter, Goto, inputs
<1>7. CASE ProcessLocalTmo
  BY <1>1, <1>5, <1>7 DEF ProcessLocalTmo, Enter, Goto
<1>8. ASSUME NEW t \in Threads, Step(t), UNCHANGED overlapped
      PROVE  LowestCovered' /\ PrunedCovered' /\ \A u \in Threads : CommitCovered(u)'
  BY <1>8, StepKeeps
<1>9. CASE UNCHANGED vars
  BY SMTT(20), <1>0, <1>9 DEF vars, forest, commit, sent, inputs, LowestCovered, PrunedCovered,
     CommitCovered, Committing, Pruning, Covered
<1> QED
  BY <1>3, <1>4, <1>6, <1>7, <1>8, <1>9 DEF Next

(* Whatever the timer interrupts, every block up to the last committed     *)
(* level has been sent when processCertificate has returned, for chains of *)
(* every length and any number of timeouts.                                *)
THEOREM NothingSkipped == Spec => []NoGap
<1>1. Init => GapInv
  <2> SUFFICES ASSUME Init PROVE GapInv
    OBVIOUS
  <2>1. TypeOK
    BY TypeInit
  <2>2. LowestCovered /\ PrunedCovered
    BY SMTT(20) DEF Init, LowestCovered, PrunedCovered
  <2>3. \A t \in Threads : CommitCovered(t)
    BY DEF Init, CommitCovered, Committing, Pruning
  <2> QED
    BY <2>1, <2>2, <2>3 DEF GapInv
<1>2. GapInv => NoGap
  <2> SUFFICES ASSUME GapInv, Quiet PROVE \A b \in 1 .. LowestLevel : committed[b] > 0
    BY DEF NoGap
  <2>1. LowestCovered
    BY DEF GapInv, Quiet, Panicked, Threads
  <2> QED
    BY <2>1 DEF LowestCovered, Covered, Quiet, Pruning
<1> QED
  BY <1>1, <1>2, GapStep, PTL DEF Spec

-----------------------------------------------------------------------------
(* Without overlap *)

(* Nothing is claimed of a goroutine outside processCertificate, ... *)
LEMMA OutsideExact ==
  ASSUME NEW t, ~InCertificate(t)'
  PROVE  LockExact(t)' /\ WalkExact(t)' /\ PruneExact(t)'
  BY DEF InCertificate, LockExact, WalkExact, PruneExact, Committing, Pruning, Deleting

(* ... and little of one that does not commit yet. *)
LEMMA EarlyExact ==
  ASSUME NEW t, pc'[t] \in {"idle", "add", "prefer", "lock", "high", "commit"}
  PROVE  WalkExact(t)' /\ PruneExact(t)'
  BY DEF WalkExact, PruneExact, Committing, Pruning, Deleting

(* While the other goroutine is outside, the forest is exact from the      *)
(* lowest level on or from the one that becomes the lowest.                *)
LEMMA ForestOfOne ==
  ASSUME NEW t \in Threads, OthersOut(t)
  PROVE  ForestExact <=> /\ vertices \subseteq verticesAtLevel
                         /\ ~Deleting(t) => StoredFrom(LowestLevel)
                         /\ Deleting(t) => StoredFrom(block[t])
  BY DEF OthersOut, InCertificate, Deleting, ForestExact, Threads

LEMMA ForestOfOneNext ==
  ASSUME NEW t \in Threads, OthersOut(t)'
  PROVE  ForestExact' <=> /\ vertices' \subseteq verticesAtLevel'
                          /\ ~Deleting(t)' => StoredFrom(LowestLevel)'
                          /\ Deleting(t)' => StoredFrom(block[t])'
  BY DEF OthersOut, InCertificate, Deleting, ForestExact, Threads

(* The blocks from a level on stay stored if no deletion reaches them. *)
LEMMA StoredKept ==
  ASSUME NEW m \in Nat, NEW n \in Nat, n >= m, StoredFrom(m),
         received \in Nat, received' = received,
         \A b \in vertices : b >= n => b \in vertices',
         pc'["loop"] = "idle" => pc["loop"] = "idle" \/ received \in vertices'
  PROVE  \A b \in 1 .. received' :
           b >= n => b \in vertices' \/ (b = received' /\ pc'["loop"] # "idle")
<1> SUFFICES ASSUME NEW b \in 1 .. received, b >= n
             PROVE  b \in vertices' \/ (b = received' /\ pc'["loop"] # "idle")
  OBVIOUS
<1>1. b \in vertices \/ (b = received /\ pc["loop"] # "idle")
  BY SMTT(20) DEF StoredFrom
<1> QED
  BY <1>1

(* Where processCertificate returns to. *)
LEMMA ReturnFacts ==
  ASSUME NEW t \in Threads, Return(t)
  PROVE  \E l \in {"idle", "add"} :
           pc' = [pc EXCEPT ![t] = l] /\ (t = "loop" /\ l = "idle" => received \in vertices)
<1>1. CASE t = "loop" /\ received \notin vertices
  <2>1. pc' = [pc EXCEPT ![t] = "add"]
    BY <1>1 DEF Return, Goto
  <2> QED BY <2>1
<1>2. CASE ~(t = "loop" /\ received \notin vertices)
  <2>1. pc' = [pc EXCEPT ![t] = "idle"]
    BY <1>2 DEF Return, Goto
  <2> QED BY <1>2, <2>1
<1> QED BY <1>1, <1>2

(* A step that moves a goroutine and does not touch the forest. *)
LEMMA ForestUntouched ==
  ASSUME TypeOK, NEW t \in Threads, OthersOut(t), ForestExact, InCertificate(t),
         NEW l \in Labels, pc' = [pc EXCEPT ![t] = l], UNCHANGED <<forest, received>>,
         l = "idle" /\ t = "loop" => received \in vertices,
         Deleting(t) <=> l \in {"delete", "level"}, Deleting(t) => block'[t] = block[t]
  PROVE  OthersOut(t)' /\ ForestExact' /\ pc'[t] = l
<1>1. pc \in [Threads -> Labels] /\ LowestLevel \in Nat /\ block[t] \in Nat /\ received \in Nat
  BY SMTT(20) DEF TypeOK, ControlOK, DataOK
<1>2. pc'[t] = l /\ \A u \in Threads \ {t} : pc'[u] = pc[u]
  BY <1>1
<1>3. OthersOut(t)'
  BY <1>2 DEF OthersOut, InCertificate
<1>4. pc'["loop"] = "idle" => pc["loop"] = "idle" \/ received \in vertices'
  BY <1>2 DEF forest, Threads
<1>5. /\ vertices \subseteq verticesAtLevel
      /\ ~Deleting(t) => StoredFrom(LowestLevel)
      /\ Deleting(t) => StoredFrom(block[t])
  BY ForestOfOne
<1>6. Deleting(t)' <=> Deleting(t)
  BY <1>2 DEF Deleting
<1>7. ~Deleting(t)' => StoredFrom(LowestLevel)'
  BY <1>1, <1>4, <1>5, <1>6, StoredKept DEF forest, StoredFrom
<1>8. Deleting(t)' => StoredFrom(block[t])'
  BY <1>1, <1>4, <1>5, <1>6, StoredKept DEF forest, StoredFrom
<1> QED
  BY <1>2, <1>3, <1>5, <1>7, <1>8, ForestOfOneNext DEF forest

(* Goroutine t is in processCertificate alone. *)
Exact(t) ==
  OthersOut(t) /\ ForestExact /\ SentExact /\ LockExact(t) /\ WalkExact(t) /\ PruneExact(t)

(* What the types say of the variables of one goroutine. *)
LEMMA ThreadTypes ==
  ASSUME TypeOK, NEW t \in Threads
  PROVE  /\ MaxView \in Nat /\ received \in Nat /\ received <= MaxView /\ LowestLevel \in Nat
         /\ vertices \subseteq 1 .. received
         /\ qc[t] \in Nat /\ block[t] \in Nat /\ cur[t] \in Nat /\ blocks[t] \subseteq Nat
         /\ pc \in [Threads -> Labels] /\ qc \in [Threads -> Nat]
         /\ block \in [Threads -> Nat] /\ cur \in [Threads -> Nat]
         /\ blocks \in [Threads -> SUBSET Nat] /\ committed \in [Blocks -> Nat]
  BY SMTT(20), CertificatesAssumption DEF TypeOK, ControlOK, DataOK

(* updatePreferredView compares and then assigns. *)
LEMMA PreferExact ==
  ASSUME TypeOK, NEW t \in Threads, Exact(t), ReadPreferred(t) \/ WritePreferred(t)
  PROVE  Exact(t)'
<1>1. /\ OthersOut(t) /\ ForestExact /\ SentExact /\ LockExact(t)
      /\ qc[t] \in Nat /\ preferredView \in Nat /\ LowestLevel \in Nat
  BY ThreadTypes DEF Exact, SentExact
<1>2. PICK l \in {"idle", "add", "lock", "high"} :
        /\ pc' = [pc EXCEPT ![t] = l] /\ (l = "idle" /\ t = "loop" => received \in vertices)
        /\ l = "lock" => qc[t] >= 3 /\ qc[t] - 1 > preferredView /\ preferredView' = preferredView
        /\ l = "high" /\ qc[t] >= 3 => preferredView' >= qc[t] - 1
  <2>1. CASE ReadPreferred(t)
    <3>1. CASE qc[t] <= 2
      BY SMTT(20), <1>1, <2>1, <3>1 DEF ReadPreferred, Goto
    <3>2. CASE qc[t] > 2 /\ (~GetVertex(qc[t]) \/ ~GetVertex(qc[t] - 1))
      <4>1. Return(t)
        BY SMTT(20), <1>1, <2>1, <3>2 DEF ReadPreferred
      <4>2. PICK l \in {"idle", "add"} :
              pc' = [pc EXCEPT ![t] = l] /\ (t = "loop" /\ l = "idle" => received \in vertices)
        BY <4>1, ReturnFacts
      <4> QED
        BY <4>2
    <3>3. CASE qc[t] > 2 /\ GetVertex(qc[t]) /\ GetVertex(qc[t] - 1)
      <4>1. preferredView' = preferredView
        BY <2>1 DEF ReadPreferred, locks
      <4>2. CASE qc[t] - 1 > preferredView
        BY SMTT(20), <1>1, <2>1, <3>3, <4>1, <4>2 DEF ReadPreferred, Goto
      <4>3. CASE ~(qc[t] - 1 > preferredView)
        BY SMTT(20), <1>1, <2>1, <3>3, <4>1, <4>3 DEF ReadPreferred, Goto
      <4> QED
        BY <4>2, <4>3
    <3> QED
      BY SMTT(20), <1>1, <3>1, <3>2, <3>3
  <2>2. CASE WritePreferred(t)
    BY SMTT(20), <1>1, <2>2 DEF WritePreferred, Goto
  <2> QED
    BY <2>1, <2>2
<1>3. /\ UNCHANGED <<forest, received, block, levels, forks, committed, forked, qc>>
      /\ InCertificate(t) /\ ~Deleting(t) /\ l \in Labels
  BY DEF ReadPreferred, WritePreferred, inputs, commit, sent, InCertificate, Deleting, Labels
<1>4. OthersOut(t)' /\ ForestExact' /\ pc'[t] = l
  BY <1>1, <1>2, <1>3, ForestUntouched
<1>5. SentExact'
  <2>1. preferredView' \in Nat /\ preferredView' >= preferredView
    BY SMTT(20), <1>1 DEF ReadPreferred, WritePreferred, locks, LockExact
  <2> QED
    BY SMTT(20), <1>1, <1>3, <2>1 DEF SentExact, forest
<1>6. LockExact(t)'
  BY <1>2, <1>3, <1>4 DEF LockExact, Committing, Pruning
<1>7. WalkExact(t)' /\ PruneExact(t)'
  BY SMTT(20), <1>4, EarlyExact
<1> QED
  BY <1>4, <1>5, <1>6, <1>7 DEF Exact

(* The high QC, and the rule that decides on a commit. *)
LEMMA CommitRuleExact ==
  ASSUME TypeOK, NEW t \in Threads, Exact(t), UpdateHighQC(t) \/ CommitRule(t)
  PROVE  Exact(t)'
<1>1. /\ OthersOut(t) /\ ForestExact /\ SentExact /\ LockExact(t)
      /\ qc[t] \in Nat /\ preferredView \in Nat /\ LowestLevel \in Nat /\ received \in Nat
      /\ vertices \subseteq 1 .. received
      /\ block \in [Threads -> Nat] /\ cur \in [Threads -> Nat] /\ blocks \in [Threads -> SUBSET Nat]
  BY ThreadTypes DEF Exact, SentExact
<1>2. PICK l \in {"idle", "add", "commit", "walk"} :
        /\ pc' = [pc EXCEPT ![t] = l] /\ (l = "idle" /\ t = "loop" => received \in vertices)
        /\ l = "commit" => qc[t] >= 3 /\ preferredView >= qc[t] - 1
        /\ l = "walk" => /\ qc[t] \in vertices /\ qc[t] - 2 \in vertices
                         /\ preferredView >= qc[t] - 1 /\ block'[t] = qc[t] - 2
                         /\ cur'[t] = qc[t] - 2 /\ blocks'[t] = {}
  <2>1. ASSUME Return(t) PROVE \E l \in {"idle", "add"} :
          pc' = [pc EXCEPT ![t] = l] /\ (t = "loop" /\ l = "idle" => received \in vertices)
    BY <2>1, ReturnFacts
  <2>2. CASE UpdateHighQC(t) /\ qc[t] < 3
    BY <2>1, <2>2 DEF UpdateHighQC
  <2>3. CASE UpdateHighQC(t) /\ ~(qc[t] < 3)
    BY SMTT(20), <1>1, <2>3 DEF UpdateHighQC, Goto, LockExact
  <2>4. CASE CommitRule(t) /\ \A b \in {qc[t], qc[t] - 1, qc[t] - 2} : GetVertex(b)
    BY <1>1, <2>4 DEF CommitRule, Goto, LockExact, GetVertex
  <2>5. CASE CommitRule(t) /\ ~(\A b \in {qc[t], qc[t] - 1, qc[t] - 2} : GetVertex(b))
    BY <2>1, <2>5 DEF CommitRule
  <2> QED
    BY <2>2, <2>3, <2>4, <2>5
<1>3. /\ UNCHANGED <<forest, received, preferredView, levels, forks, committed, forked, qc>>
      /\ InCertificate(t) /\ ~Deleting(t) /\ l \in Labels
  BY DEF UpdateHighQC, CommitRule, inputs, commit, sent, locks, InCertificate, Deleting, Labels
<1>4. OthersOut(t)' /\ ForestExact' /\ pc'[t] = l
  BY <1>1, <1>2, <1>3, ForestUntouched
<1>5. SentExact'
  BY <1>1, <1>3 DEF SentExact, forest
<1>6. CASE l = "walk"
  <2>1. /\ block'[t] >= 1 /\ block'[t] + 2 <= received /\ preferredView >= block'[t]
        /\ cur'[t] <= block'[t]
    BY SMTT(20), <1>1, <1>2, <1>6
  <2>2. LockExact(t)'
    BY <1>3, <1>4, <1>6, <2>1 DEF LockExact
  <2>3. WalkExact(t)'
    BY <1>2, <1>4, <1>6, <2>1 DEF WalkExact, Committing, Pruning
  <2>4. PruneExact(t)'
    BY <1>4, <1>6 DEF PruneExact, Pruning, Deleting
  <2> QED
    BY <1>4, <1>5, <2>2, <2>3, <2>4 DEF Exact
<1>7. CASE l # "walk"
  <2>1. LockExact(t)'
    BY <1>2, <1>3, <1>4, <1>7 DEF LockExact, Committing, Pruning
  <2>2. WalkExact(t)' /\ PruneExact(t)'
    BY SMTT(20), <1>4, <1>7, EarlyExact
  <2> QED
    BY <1>4, <1>5, <2>1, <2>2 DEF Exact
<1> QED
  BY <1>6, <1>7

(* CommitBlock collects blocks above the lowest level. *)
LEMMA WalkingExact ==
  ASSUME TypeOK, NEW t \in Threads, Exact(t), Walk(t) \/ Collect(t)
  PROVE  Exact(t)'
<1>1. /\ OthersOut(t) /\ ForestExact /\ SentExact /\ LockExact(t) /\ WalkExact(t)
      /\ LowestLevel \in Nat /\ received \in Nat /\ vertices \subseteq 1 .. received
      /\ block[t] \in Nat /\ cur[t] \in Nat
      /\ cur \in [Threads -> Nat] /\ blocks \in [Threads -> SUBSET Nat]
  BY ThreadTypes DEF Exact
<1>2. PICK l \in {"walk", "collect", "prune"} :
        /\ pc' = [pc EXCEPT ![t] = l]
        /\ l = "collect" => cur'[t] = cur[t] /\ cur[t] > LowestLevel
        /\ l = "walk" => cur'[t] = cur[t] - 1
  <2>1. CASE Walk(t)
    BY <1>1, <2>1 DEF Walk, Goto, commit
  <2>2. CASE Collect(t)
    BY <1>1, <2>2 DEF Collect, Goto
  <2> QED
    BY <2>1, <2>2
<1>3. /\ UNCHANGED <<forest, received, preferredView, levels, forks, committed, forked, qc, block>>
      /\ InCertificate(t) /\ ~Deleting(t) /\ l \in Labels /\ pc[t] \in {"walk", "collect"}
  BY DEF Walk, Collect, inputs, commit, sent, locks, InCertificate, Deleting, Labels
<1>4. OthersOut(t)' /\ ForestExact' /\ pc'[t] = l
  BY <1>1, <1>2, <1>3, ForestUntouched
<1>5. SentExact'
  BY <1>1, <1>3 DEF SentExact, forest
<1>6. \A b \in blocks'[t] : b <= block[t] /\ b > LowestLevel
  <2>1. cur[t] <= block[t] /\ \A b \in blocks[t] : b <= block[t] /\ b > LowestLevel
    BY <1>1, <1>3 DEF WalkExact, Committing
  <2>2. CASE Walk(t)
    BY <2>1, <2>2 DEF Walk, commit
  <2>3. CASE Collect(t)
    <3>1. blocks'[t] = blocks[t] \cup {cur[t]} /\ cur[t] > LowestLevel
      BY <1>1, <2>3 DEF Collect, WalkExact
    <3> QED
      BY <2>1, <3>1
  <2> QED
    BY <2>2, <2>3
<1>7. LockExact(t)'
  BY <1>1, <1>3, <1>4 DEF LockExact, Committing
<1>8. WalkExact(t)'
  <2>1. l \in {"walk", "collect"} => cur'[t] <= block[t]
    BY SMTT(20), <1>1, <1>2, <1>3 DEF WalkExact
  <2> QED
    BY <1>2, <1>3, <1>4, <1>6, <2>1 DEF WalkExact, forest
<1>9. PruneExact(t)'
  BY <1>4 DEF PruneExact, Pruning, Deleting
<1> QED
  BY <1>4, <1>5, <1>7, <1>8, <1>9 DEF Exact

(* PruneUpToLevel starts at the block, or finds its level pruned. *)
LEMMA PruneCheckExact ==
  ASSUME TypeOK, NEW t \in Threads, Exact(t), PruneCheck(t)
  PROVE  Exact(t)'
<1>1. /\ OthersOut(t) /\ ForestExact /\ SentExact /\ LockExact(t) /\ WalkExact(t)
      /\ LowestLevel \in Nat /\ received \in Nat /\ block[t] \in Nat
      /\ cur \in [Threads -> Nat] /\ pc[t] = "prune"
      /\ levels \in [Threads -> SUBSET Nat] /\ forks \in [Threads -> SUBSET Nat]
  BY ThreadTypes DEF Exact, SentExact, PruneCheck
<1>2. PICK l \in {"idle", "add", "levels"} :
        /\ pc' = [pc EXCEPT ![t] = l] /\ (l = "idle" /\ t = "loop" => received \in vertices)
        /\ l = "levels" => /\ LowestLevel <= block[t] /\ cur'[t] = block[t]
                           /\ levels' = [levels EXCEPT ![t] = {}]
                           /\ forks' = [forks EXCEPT ![t] = {}]
        /\ l # "levels" => levels' = levels /\ forks' = forks
  <2>1. CASE block[t] < LowestLevel
    <3>1. Return(t) /\ levels' = levels /\ forks' = forks
      BY <2>1 DEF PruneCheck
    <3>2. PICK l \in {"idle", "add"} :
            pc' = [pc EXCEPT ![t] = l] /\ (t = "loop" /\ l = "idle" => received \in vertices)
      BY <3>1, ReturnFacts
    <3> QED
      BY <3>1, <3>2
  <2>2. CASE ~(block[t] < LowestLevel)
    BY SMTT(20), <1>1, <2>2 DEF PruneCheck, Goto
  <2> QED
    BY <2>1, <2>2
<1>3. /\ UNCHANGED <<forest, received, preferredView, committed, forked, qc, block, blocks>>
      /\ InCertificate(t) /\ ~Deleting(t) /\ l \in Labels
  BY <1>1 DEF PruneCheck, inputs, sent, locks, InCertificate, Deleting, Labels
<1>4. OthersOut(t)' /\ ForestExact' /\ pc'[t] = l
  BY <1>1, <1>2, <1>3, ForestUntouched
<1>5. SentExact'
  <2>1. levels' \in [Threads -> SUBSET Nat] /\ forks' \in [Threads -> SUBSET Nat]
    BY <1>1, <1>2
  <2> QED
    BY <1>1, <1>3, <2>1 DEF SentExact, forest
<1>6. CASE l = "levels"
  <2>1. LockExact(t)'
    BY <1>1, <1>3, <1>4, <1>6 DEF LockExact, Committing
  <2>2. WalkExact(t)'
    BY <1>1, <1>3, <1>4, <1>6 DEF WalkExact, Committing, forest
  <2>3. forks'[t] = {} /\ 1 <= block[t]
    BY <1>1, <1>2, <1>6 DEF LockExact, Committing
  <2>4. PruneExact(t)'
    BY SMTT(20), <1>1, <1>2, <1>3, <1>4, <1>6, <2>3 DEF PruneExact, Deleting, forest, Blocks
  <2> QED
    BY <1>4, <1>5, <2>1, <2>2, <2>4 DEF Exact
<1>7. CASE l # "levels"
  <2>1. ~InCertificate(t)'
    BY <1>4, <1>7 DEF InCertificate
  <2> QED
    BY <1>4, <1>5, <2>1, OutsideExact DEF Exact
<1> QED
  BY <1>6, <1>7

(* The second loop of PruneUpToLevel starts when the first one has found   *)
(* all levels from the lowest one on.                                      *)
LEMMA LoopExact ==
  ASSUME TypeOK, NEW t \in Threads, Exact(t), pc[t] \in {"levels", "parent"},
         PruneLoop(t), levels' = levels, forks' = forks,
         UNCHANGED <<forest, locks, qc, block, blocks, inputs, sent>>,
         \A b \in Blocks : LowestLevel <= b /\ 1 < b /\ b < block[t] => b \in levels[t]
  PROVE  Exact(t)'
<1>1. /\ OthersOut(t) /\ ForestExact /\ SentExact /\ LockExact(t) /\ WalkExact(t) /\ PruneExact(t)
      /\ LowestLevel \in Nat /\ received \in Nat /\ block[t] \in Nat /\ cur \in [Threads -> Nat]
      /\ pc \in [Threads -> Labels]
  BY ThreadTypes DEF Exact
<1>2. /\ pc' = [pc EXCEPT ![t] = "delete"] /\ pc'[t] = "delete" /\ cur'[t] = LowestLevel
      /\ \A u \in Threads \ {t} : pc'[u] = pc[u]
  BY <1>1 DEF PruneLoop, Goto
<1>3. OthersOut(t)'
  BY <1>1, <1>2 DEF OthersOut, InCertificate
<1>4. ForestExact'
  <2>1. vertices \subseteq verticesAtLevel /\ StoredFrom(LowestLevel)
    BY <1>1, ForestOfOne DEF Deleting
  <2>2. LowestLevel <= block[t]
    BY <1>1 DEF PruneExact, Pruning
  <2>3. pc'["loop"] # "idle" \/ pc["loop"] = "idle"
    BY <1>2 DEF Threads
  <2>4. StoredFrom(block[t])'
    BY <1>1, <2>1, <2>2, <2>3, StoredKept DEF StoredFrom, forest, inputs
  <2>5. Deleting(t)'
    BY <1>2 DEF Deleting
  <2> QED
    BY <1>3, <2>1, <2>4, <2>5, ForestOfOneNext DEF forest
<1>5. SentExact'
  BY <1>1 DEF SentExact, forest, locks, sent
<1>6. LockExact(t)'
  BY <1>1, <1>2 DEF LockExact, Pruning, locks, inputs
<1>7. WalkExact(t)'
  BY <1>1, <1>2 DEF WalkExact, Pruning, forest
<1>8. PruneExact(t)'
  BY SMTT(20), <1>1, <1>2 DEF PruneExact, Pruning, forest
<1> QED
  BY <1>3, <1>4, <1>5, <1>6, <1>7, <1>8 DEF Exact

(* The first loop of PruneUpToLevel finds every level down to the lowest   *)
(* one, and the vertices of all of them.                                   *)
LEMMA LevelsExact ==
  ASSUME TypeOK, NEW t \in Threads, Exact(t), FindLevels(t) \/ FindParent(t)
  PROVE  Exact(t)'
<1>1. /\ OthersOut(t) /\ ForestExact /\ SentExact /\ LockExact(t) /\ WalkExact(t) /\ PruneExact(t)
      /\ LowestLevel \in Nat /\ received \in Nat /\ block[t] \in Nat /\ cur[t] \in Nat
      /\ cur \in [Threads -> Nat] /\ levels \in [Threads -> SUBSET Nat]
      /\ pc[t] \in {"levels", "parent"}
      /\ UNCHANGED <<forest, locks, qc, block, blocks, forks, inputs, sent>>
  BY ThreadTypes DEF Exact, SentExact, FindLevels, FindParent
<1>2. /\ LowestLevel <= cur[t] /\ 1 <= cur[t] /\ cur[t] <= block[t]
      /\ \A b \in Blocks : cur[t] <= b /\ b < block[t] => b \in levels[t]
      /\ LowestLevel <= block[t] /\ forks[t] = {} /\ block[t] + 2 <= received
      /\ pc[t] = "parent" => cur[t] > 1
  BY <1>1 DEF PruneExact, LockExact, Pruning
<1>3. /\ vertices \subseteq verticesAtLevel
      /\ \A b \in 1 .. received : b >= LowestLevel /\ b # received => b \in vertices
  BY <1>1, ForestOfOne DEF Deleting, StoredFrom
<1>4. InCertificate(t) /\ ~Deleting(t)
  BY <1>1 DEF InCertificate, Deleting
<1>5. ASSUME NEW l \in {"levels", "parent"}, pc' = [pc EXCEPT ![t] = l],
             levels' \in [Threads -> SUBSET Nat], cur'[t] \in Nat,
             LowestLevel <= cur'[t], 1 <= cur'[t], cur'[t] <= block[t],
             \A b \in Blocks : cur'[t] <= b /\ b < block[t] => b \in levels'[t],
             l = "parent" => cur'[t] > 1
      PROVE  Exact(t)'
  <2>1. OthersOut(t)' /\ ForestExact' /\ pc'[t] = l
    BY <1>1, <1>4, <1>5, ForestUntouched DEF Labels, inputs
  <2>2. SentExact'
    BY <1>1, <1>5 DEF SentExact, forest, locks, sent
  <2>3. LockExact(t)'
    BY <1>1, <2>1 DEF LockExact, Pruning, locks, inputs
  <2>4. WalkExact(t)'
    BY <1>1, <2>1 DEF WalkExact, Pruning, forest
  <2>5. LowestLevel' = LowestLevel /\ block'[t] = block[t] /\ forks'[t] = {}
    BY <1>1, <1>2 DEF forest
  <2>6. PruneExact(t)'
    BY <1>2, <1>5, <2>1, <2>5 DEF PruneExact, Deleting
  <2> QED
    BY <2>1, <2>2, <2>3, <2>4, <2>6 DEF Exact
<1>6. CASE FindLevels(t)
  <2>1. CASE cur[t] < LowestLevel \/ cur[t] <= 1
    <3>1. PruneLoop(t) /\ levels' = levels /\ forks' = forks
      BY <1>6, <2>1 DEF FindLevels
    <3>2. \A b \in Blocks : LowestLevel <= b /\ 1 < b /\ b < block[t] => b \in levels[t]
      BY SMTT(20), <1>1, <1>2, <2>1 DEF Blocks
    <3> QED
      BY <1>1, <3>1, <3>2, LoopExact
  <2>2. CASE ~(cur[t] < LowestLevel \/ cur[t] <= 1)
    <3>1. pc' = [pc EXCEPT ![t] = "parent"] /\ cur' = cur /\ levels' = levels
      BY <1>6, <2>2 DEF FindLevels, Goto
    <3>2. /\ levels' \in [Threads -> SUBSET Nat] /\ cur'[t] \in Nat
          /\ LowestLevel <= cur'[t] /\ 1 <= cur'[t] /\ cur'[t] <= block[t] /\ cur'[t] > 1
      BY SMTT(20), <1>1, <1>2, <2>2, <3>1
    <3>3. \A b \in Blocks : cur'[t] <= b /\ b < block[t] => b \in levels'[t]
      BY <1>2, <3>1
    <3> QED
      BY <1>5, <3>1, <3>2, <3>3
  <2> QED
    BY <2>1, <2>2
<1>7. CASE FindParent(t)
  <2>0. pc[t] = "parent" /\ cur[t] > 1
    BY <1>2, <1>7 DEF FindParent
  <2>1. cur[t] \in verticesAtLevel
    BY SMTT(20), <1>1, <1>2, <1>3
  <2>2. CASE cur[t] - 1 < LowestLevel
    <3>1. PruneLoop(t) /\ levels' = levels /\ forks' = forks
      BY SMTT(20), <1>1, <1>7, <2>1, <2>2 DEF FindParent
    <3>2. \A b \in Blocks : LowestLevel <= b /\ 1 < b /\ b < block[t] => b \in levels[t]
      BY SMTT(20), <1>1, <1>2, <2>2 DEF Blocks
    <3> QED
      BY <1>1, <3>1, <3>2, LoopExact
  <2>3. CASE ~(cur[t] - 1 < LowestLevel)
    <3>1. GetVertex(cur[t] - 1)
      BY SMTT(20), <1>1, <1>2, <1>3, <2>0, <2>3 DEF GetVertex
    <3>2. /\ pc' = [pc EXCEPT ![t] = "levels"] /\ cur' = [cur EXCEPT ![t] = cur[t] - 1]
          /\ levels' = [levels EXCEPT ![t] = levels[t] \cup {cur[t] - 1}]
      BY <1>7, <2>1, <2>3, <3>1 DEF FindParent, Goto
    <3>3. cur'[t] = cur[t] - 1 /\ levels'[t] = levels[t] \cup {cur[t] - 1}
      BY <1>1, <3>2
    <3>4. levels' \in [Threads -> SUBSET Nat]
      BY SMTT(20), <1>1, <1>2, <2>0, <3>2
    <3>5. \A b \in Blocks : cur'[t] <= b /\ b < block[t] => b \in levels'[t]
      BY SMTT(20), <1>1, <1>2, <3>3 DEF Blocks
    <3>6. /\ cur'[t] \in Nat /\ LowestLevel <= cur'[t] /\ 1 <= cur'[t] /\ cur'[t] <= block[t]
      BY SMTT(20), <1>1, <1>2, <2>0, <2>3, <3>3
    <3> QED
      BY <1>5, <3>2, <3>4, <3>5, <3>6
  <2> QED
    BY <2>2, <2>3
<1> QED
  BY <1>6, <1>7

(* The second loop of PruneUpToLevel deletes levels that the first one has *)
(* found, so nothing is reported as forked.                                *)
LEMMA DeleteExact ==
  ASSUME TypeOK, NEW t \in Threads, Exact(t), DeleteVertex(t) \/ DeleteLevel(t)
  PROVE  Exact(t)'
<1>1. /\ OthersOut(t) /\ ForestExact /\ SentExact /\ LockExact(t) /\ WalkExact(t) /\ PruneExact(t)
      /\ LowestLevel \in Nat /\ received \in Nat /\ block[t] \in Nat /\ cur[t] \in Nat
      /\ cur \in [Threads -> Nat] /\ forks \in [Threads -> SUBSET Nat]
      /\ pc \in [Threads -> Labels] /\ vertices \subseteq 1 .. received
      /\ pc[t] \in {"delete", "level"} /\ MaxView \in Nat /\ received <= MaxView
  BY ThreadTypes DEF Exact, SentExact, DeleteVertex, DeleteLevel
<1>2. UNCHANGED <<LowestLevel, preferredView, qc, block, blocks, levels, received, committed, forked>>
  BY DEF DeleteVertex, DeleteLevel, locks, inputs, sent
<1>3. /\ LowestLevel <= block[t] /\ forks[t] = {} /\ block[t] + 2 <= received
      /\ LowestLevel <= cur[t] /\ cur[t] < block[t]
      /\ \A b \in Blocks : LowestLevel <= b /\ 1 < b /\ b < block[t] => b \in levels[t]
  BY <1>1 DEF PruneExact, LockExact, Pruning, Deleting, DeleteVertex, DeleteLevel
<1>4. PICK l \in {"delete", "level"} : pc' = [pc EXCEPT ![t] = l]
  BY DEF DeleteVertex, DeleteLevel, Goto
<1>5. pc'[t] = l /\ \A u \in Threads \ {t} : pc'[u] = pc[u]
  BY <1>1, <1>4
<1>6. OthersOut(t)'
  BY <1>1, <1>5 DEF OthersOut, InCertificate
<1>7. vertices \subseteq verticesAtLevel /\ StoredFrom(block[t])
  BY <1>1, ForestOfOne DEF Deleting
<1>8. /\ vertices' \subseteq verticesAtLevel' /\ \A b \in vertices : b >= block[t] => b \in vertices'
      /\ pc'[t] = "level" => cur'[t] < block[t] /\ cur'[t] \notin vertices'
      /\ cur'[t] >= LowestLevel
  <2>1. CASE DeleteVertex(t)
    <3>1. cur' = cur /\ vertices' = vertices \ {cur[t]} /\ verticesAtLevel' = verticesAtLevel
      BY <1>7, <2>1 DEF DeleteVertex
    <3>2. \A b \in vertices : b >= block[t] => b # cur[t]
      BY SMTT(20), <1>1, <1>3
    <3>3. vertices' \subseteq verticesAtLevel /\ cur[t] \notin vertices'
      BY <1>7, <3>1
    <3> QED
      BY <1>3, <3>1, <3>2, <3>3
  <2>2. CASE DeleteLevel(t)
    <3>1. /\ vertices' = vertices /\ verticesAtLevel' = verticesAtLevel \ {cur[t]}
          /\ cur'[t] = cur[t] + 1 /\ pc'[t] = "delete" /\ cur[t] \notin vertices
      BY <1>1, <2>2 DEF DeleteLevel, PruneExact, Goto
    <3>2. cur[t] + 1 >= LowestLevel
      BY SMTT(20), <1>1, <1>3
    <3>3. vertices \subseteq verticesAtLevel \ {cur[t]}
      BY <1>7, <3>1
    <3> QED
      BY <3>1, <3>2, <3>3
  <2> QED
    BY <2>1, <2>2
<1>9. ForestExact'
  <2>1. pc'["loop"] = "idle" => pc["loop"] = "idle"
    BY <1>5 DEF Threads
  <2>2. StoredFrom(block[t])'
    BY <1>1, <1>2, <1>7, <1>8, <2>1, StoredKept DEF StoredFrom
  <2>3. Deleting(t)'
    BY <1>5 DEF Deleting
  <2> QED
    BY <1>6, <1>8, <2>2, <2>3, ForestOfOneNext
<1>10. forks' \in [Threads -> SUBSET Nat] /\ forks'[t] = {}
  <2>1. CASE DeleteVertex(t)
    <3>1. cur[t] > 1 => cur[t] \in levels[t]
      BY SMTT(20), <1>1, <1>3 DEF Blocks
    <3>2. forks' = [forks EXCEPT ![t] = forks[t]]
      BY <2>1, <3>1 DEF DeleteVertex
    <3> QED
      BY <1>1, <1>3, <3>2
  <2>2. CASE DeleteLevel(t)
    BY <1>1, <1>3, <2>2 DEF DeleteLevel
  <2> QED
    BY <2>1, <2>2
<1>11. SentExact'
  BY <1>1, <1>2, <1>10 DEF SentExact
<1>12. LockExact(t)'
  BY <1>1, <1>2, <1>5 DEF LockExact, Pruning
<1>13. WalkExact(t)'
  BY <1>1, <1>2, <1>5 DEF WalkExact, Pruning
<1>14. PruneExact(t)'
  BY <1>2, <1>3, <1>5, <1>8, <1>10 DEF PruneExact, Pruning, Deleting
<1> QED
  BY <1>6, <1>9, <1>11, <1>12, <1>13, <1>14 DEF Exact

(* The lowest level rises to the block, whose ancestors are sent next. *)
LEMMA LowestExact ==
  ASSUME TypeOK, NEW t \in Threads, Exact(t), SetLowest(t)
  PROVE  Exact(t)'
<1>1. /\ OthersOut(t) /\ ForestExact /\ SentExact /\ LockExact(t) /\ WalkExact(t) /\ PruneExact(t)
      /\ LowestLevel \in Nat /\ received \in Nat /\ block[t] \in Nat /\ committed \in [Blocks -> Nat]
      /\ pc \in [Threads -> Labels] /\ blocks[t] \subseteq Nat /\ pc[t] = "delete"
  BY ThreadTypes DEF Exact, SetLowest
<1>2. /\ UNCHANGED <<vertices, verticesAtLevel, preferredView, qc, block, cur, blocks, levels, forks,
                     received, committed, forked>>
      /\ LowestLevel' = block[t] /\ pc' = [pc EXCEPT ![t] = "send"]
  BY DEF SetLowest, locks, inputs, sent, commit, Goto
<1>3. pc'[t] = "send" /\ \A u \in Threads \ {t} : pc'[u] = pc[u]
  BY <1>1, <1>2
<1>4. OthersOut(t)'
  BY <1>1, <1>3 DEF OthersOut, InCertificate
<1>5. LowestLevel <= block[t] /\ preferredView >= block[t] /\ forks[t] = {}
  BY <1>1 DEF PruneExact, LockExact, Pruning
<1>6. ForestExact'
  <2>1. vertices \subseteq verticesAtLevel /\ StoredFrom(block[t])
    BY <1>1, ForestOfOne DEF Deleting
  <2>2. pc'["loop"] = "idle" => pc["loop"] = "idle"
    BY <1>3 DEF Threads
  <2>3. StoredFrom(LowestLevel)'
    BY <1>1, <1>2, <2>1, <2>2, StoredKept DEF StoredFrom
  <2>4. ~Deleting(t)'
    BY <1>3 DEF Deleting
  <2> QED
    BY <1>2, <1>4, <2>1, <2>3, <2>4, ForestOfOneNext
<1>7. SentExact'
  <2>1. \A b \in Blocks : committed[b] <= 1 /\ (committed[b] > 0 => b <= block[t])
    BY SMTT(20), <1>1, <1>5 DEF SentExact, Blocks
  <2> QED
    BY <1>1, <1>2, <1>5, <2>1 DEF SentExact
<1>8. LockExact(t)'
  BY <1>1, <1>2, <1>3 DEF LockExact, Pruning
<1>9. WalkExact(t)'
  <2>1. \A b \in blocks[t] : b <= block[t] /\ b > LowestLevel
    BY <1>1 DEF WalkExact, Pruning
  <2>2. \A b \in blocks[t] \cap Blocks : committed[b] = 0
    BY SMTT(20), <1>1, <2>1 DEF SentExact
  <2> QED
    BY <1>2, <1>3, <2>1, <2>2 DEF WalkExact
<1>10. PruneExact(t)'
  BY SMTT(20), <1>1, <1>2, <1>3, <1>5 DEF PruneExact, Deleting
<1> QED
  BY <1>4, <1>6, <1>7, <1>8, <1>9, <1>10 DEF Exact

(* What is sent had not been sent before. *)
LEMMA SendExact ==
  ASSUME TypeOK, NEW t \in Threads, Exact(t), Send(t)
  PROVE  Exact(t)'
<1>1. /\ OthersOut(t) /\ ForestExact /\ SentExact /\ WalkExact(t) /\ PruneExact(t)
      /\ LowestLevel \in Nat /\ block[t] \in Nat /\ committed \in [Blocks -> Nat]
      /\ pc[t] = "send" /\ InCertificate(t) /\ ~Deleting(t)
  <2>1. OthersOut(t) /\ ForestExact /\ SentExact /\ WalkExact(t) /\ PruneExact(t)
    BY DEF Exact
  <2>2. LowestLevel \in Nat /\ block[t] \in Nat /\ committed \in [Blocks -> Nat]
    BY ThreadTypes
  <2>3. pc[t] = "send"
    BY DEF Send
  <2> QED
    BY <2>1, <2>2, <2>3 DEF InCertificate, Deleting
<1>2. UNCHANGED <<forest, preferredView, levels, forks, block, received>>
  BY DEF Send, locks, inputs, commit
<1>3. PICK l \in {"idle", "add"} :
        pc' = [pc EXCEPT ![t] = l] /\ (t = "loop" /\ l = "idle" => received \in vertices)
  BY ReturnFacts DEF Send
<1>4. OthersOut(t)' /\ ForestExact' /\ pc'[t] = l
  BY <1>1, <1>2, <1>3, ForestUntouched DEF Labels
<1>5. SentExact'
  <2>1. forks[t] = {} /\ LowestLevel = block[t]
    BY <1>1 DEF PruneExact, Pruning
  <2>2. forked' = [b \in Blocks |-> 0]
    BY SMTT(20), <1>1, <2>1 DEF Send, SentExact
  <2>3. ASSUME NEW b \in Blocks
        PROVE  committed'[b] <= 1 /\ (committed'[b] > 0 => b <= LowestLevel)
    <3>1. committed'[b] = committed[b] + IF b \in blocks[t] THEN 1 ELSE 0
      BY DEF Send
    <3>2. committed[b] \in Nat /\ committed[b] <= 1 /\ (committed[b] > 0 => b <= LowestLevel)
      BY <1>1 DEF SentExact
    <3>3. b \in blocks[t] => b <= LowestLevel /\ committed[b] = 0
      BY <1>1, <2>1 DEF WalkExact, Pruning
    <3> QED
      BY SMTT(20), <3>1, <3>2, <3>3
  <2> QED
    BY <1>1, <1>2, <2>2, <2>3 DEF SentExact, forest
<1>6. ~InCertificate(t)'
  BY <1>4 DEF InCertificate
<1> QED
  BY <1>4, <1>5, <1>6, OutsideExact DEF Exact

(* A block arrives, or is added: also while the listener is at work. *)
LEMMA BlockExact ==
  ASSUME TypeOK, NEW t \in Threads, Exact(t), ~InCertificate("loop"),
         ProcessBlock \/ AddBlock, pc'["loop"] # "prefer"
  PROVE  Exact(t)'
<1>1. /\ OthersOut(t) /\ ForestExact /\ SentExact /\ LockExact(t) /\ WalkExact(t) /\ PruneExact(t)
  BY DEF Exact
<1>2. /\ LowestLevel \in Nat /\ received \in Nat /\ block[t] \in Nat /\ vertices \subseteq 1 .. received
      /\ pc \in [Threads -> Labels] /\ cur[t] \in Nat
  BY ThreadTypes
<1>3. /\ UNCHANGED <<LowestLevel, preferredView, block, cur, blocks, levels, forks, committed, forked>>
      /\ \A u \in Threads \ {"loop"} : pc'[u] = pc[u] /\ qc'[u] = qc[u]
      /\ ~InCertificate("loop")'
  <2>1. CASE ProcessBlock
    <3>1. pc' = [pc EXCEPT !["loop"] = "add"] /\ qc' = qc
      BY <1>2, <2>1 DEF ProcessBlock, Enter, Goto, Threads
    <3> QED
      BY <1>2, <2>1, <3>1 DEF ProcessBlock, forest, commit, sent, InCertificate, Threads
  <2>2. CASE AddBlock
    BY <1>2, <2>2 DEF AddBlock, locks, commit, sent, InCertificate, Threads, Goto
  <2> QED
    BY <2>1, <2>2
<1>4. OthersOut(t)'
  BY <1>1, <1>3 DEF OthersOut, InCertificate
<1>5. SentExact'
  BY <1>1, <1>3 DEF SentExact
<1>6. /\ vertices \subseteq verticesAtLevel
      /\ ~Deleting(t) => StoredFrom(LowestLevel)
      /\ Deleting(t) => StoredFrom(block[t])
  BY <1>1, ForestOfOne
<1>7. Deleting(t)' <=> Deleting(t)
  <2>1. CASE t = "loop"
    BY <1>3, <2>1 DEF InCertificate, Deleting
  <2>2. CASE t # "loop"
    BY <1>3, <2>2 DEF Deleting
  <2> QED
    BY <2>1, <2>2
<1>8. ASSUME NEW m \in Nat, StoredFrom(m)
      PROVE  \A b \in 1 .. received' :
               b >= m => b \in vertices' \/ (b = received' /\ pc'["loop"] # "idle")
  <2>1. CASE ProcessBlock
    <3>1. /\ pc["loop"] = "idle" /\ pc'["loop"] # "idle" /\ vertices' = vertices
          /\ received' = received + 1
      BY <1>2, <2>1 DEF ProcessBlock, Enter, Goto, forest, Threads
    <3>2. \A b \in 1 .. received : b >= m => b \in vertices
      BY <1>8, <3>1 DEF StoredFrom
    <3> QED
      BY SMTT(20), <1>2, <3>1, <3>2
  <2>2. CASE AddBlock
    <3>1. vertices' = vertices \cup {received} /\ received' = received
      BY <2>2 DEF AddBlock, inputs
    <3> QED
      BY <1>8, <3>1 DEF StoredFrom
  <2> QED
    BY <2>1, <2>2
<1>9. ForestExact'
  <2>1. vertices' \subseteq verticesAtLevel'
    BY <1>6 DEF ProcessBlock, AddBlock, forest
  <2>2. ~Deleting(t)' => StoredFrom(LowestLevel)'
    BY <1>2, <1>3, <1>6, <1>7, <1>8 DEF StoredFrom
  <2>3. Deleting(t)' => StoredFrom(block[t])'
    BY <1>2, <1>3, <1>6, <1>7, <1>8 DEF StoredFrom
  <2> QED
    BY <1>4, <2>1, <2>2, <2>3, ForestOfOneNext
<1>10. LockExact(t)' /\ WalkExact(t)' /\ PruneExact(t)'
  <2>1. CASE t = "loop"
    BY <1>3, <2>1, OutsideExact
  <2>2. CASE t # "loop"
    <3>1. pc'[t] = pc[t] /\ qc'[t] = qc[t]
      BY <1>3, <2>2
    <3>2. received' \in Nat /\ received' >= received
      BY SMTT(20), <1>2 DEF ProcessBlock, AddBlock, inputs
    <3>3. LockExact(t)'
      BY SMTT(20), <1>1, <1>2, <1>3, <3>1, <3>2 DEF LockExact, Committing, Pruning
    <3>4. WalkExact(t)'
      BY <1>1, <1>3, <3>1 DEF WalkExact, Committing, Pruning
    <3>5. pc[t] = "level" => cur[t] \notin vertices'
      <4>1. pc[t] = "level" => cur[t] \notin vertices /\ cur[t] < block[t] /\ block[t] + 2 <= received
        BY <1>1 DEF PruneExact, LockExact, Pruning
      <4>2. vertices' \subseteq vertices \cup {received}
        BY DEF ProcessBlock, AddBlock, forest
      <4> QED
        BY SMTT(20), <1>2, <4>1, <4>2
    <3>6. PruneExact(t)'
      BY <1>1, <1>3, <3>1, <3>5 DEF PruneExact, Pruning, Deleting
    <3> QED
      BY <3>3, <3>4, <3>6
  <2> QED
    BY <2>1, <2>2
<1> QED
  BY <1>4, <1>5, <1>9, <1>10 DEF Exact

(* A goroutine enters processCertificate while the other one is idle. *)
LEMMA EnterExact ==
  ASSUME TypeOK, NEW t \in Threads, ForestExact, SentExact, NEW q, Enter(t, q), ~overlapped',
         \A u \in Threads \ {t} : pc[u] = "idle",
         UNCHANGED <<forest, preferredView, levels, forks, committed, forked, block>>,
         \/ received' = received
         \/ received' = received + 1 /\ t = "loop"
  PROVE  Exact(t)'
<1>1. /\ LowestLevel \in Nat /\ received \in Nat /\ pc \in [Threads -> Labels]
      /\ vertices \subseteq 1 .. received
  BY ThreadTypes
<1>2. /\ pc'[t] = "prefer" /\ pc[t] = "idle" /\ \A u \in Threads \ {t} : pc'[u] = "idle"
  BY <1>1 DEF Enter, Goto
<1>3. OthersOut(t)'
  BY <1>2 DEF OthersOut, InCertificate
<1>4. StoredFrom(LowestLevel) /\ vertices \subseteq verticesAtLevel
  BY <1>2 DEF ForestExact, Deleting
<1>5. \A b \in 1 .. received : b >= LowestLevel => b \in vertices
  BY <1>2, <1>4 DEF StoredFrom, Threads
<1>6. ForestExact'
  <2>1. StoredFrom(LowestLevel)'
    <3>1. CASE received' = received
      BY <1>5, <3>1 DEF StoredFrom, forest
    <3>2. CASE received' = received + 1 /\ t = "loop"
      BY SMTT(20), <1>1, <1>2, <1>5, <3>2 DEF StoredFrom, forest
    <3> QED
      BY <3>1, <3>2
  <2>2. ~Deleting(t)'
    BY <1>2 DEF Deleting
  <2> QED
    BY <1>3, <1>4, <2>1, <2>2, ForestOfOneNext DEF forest
<1>7. SentExact'
  BY DEF SentExact, forest
<1>8. LockExact(t)' /\ WalkExact(t)' /\ PruneExact(t)'
  BY SMTT(20), <1>2, EarlyExact DEF LockExact, Committing, Pruning
<1> QED
  BY <1>3, <1>6, <1>7, <1>8 DEF Exact

(* Every step keeps what holds without overlap. *)
LEMMA ExactStep == TypeOK /\ ExactInv /\ [Next]_vars => ExactInv'
<1> SUFFICES ASSUME TypeOK, ExactInv, [Next]_vars, ~overlapped'
             PROVE  \E t \in Threads : Exact(t)'
  <2>1. ASSUME NEW t \in Threads, Exact(t)' PROVE ExactInv'
    <3>1. OthersOut(t)' /\ ForestExact' /\ SentExact' /\ LockExact(t)' /\ WalkExact(t)' /\ PruneExact(t)'
      BY <2>1 DEF Exact
    <3>2. \A u \in Threads \ {t} : ~InCertificate(u)'
      BY <3>1 DEF OthersOut
    <3>3. \A u \in Threads : LockExact(u)' /\ WalkExact(u)' /\ PruneExact(u)'
      BY <3>1, <3>2, OutsideExact
    <3>4. Alone'
      BY <2>1, <3>1 DEF Alone
    <3> QED
      BY <3>1, <3>3, <3>4 DEF ExactInv
  <2>2. overlapped' => ExactInv'
    BY DEF ExactInv
  <2> QED
    BY <2>1, <2>2
<1>1. ~overlapped
  BY DEF Next, ProcessBlock, ProcessQC, ProcessLocalTmo, Enter, vars
<1>2. /\ ForestExact /\ SentExact
      /\ \A t \in Threads : LockExact(t) /\ WalkExact(t) /\ PruneExact(t)
  BY <1>1 DEF ExactInv
<1>3. PICK t \in Threads : OthersOut(t)
  BY <1>1 DEF ExactInv, Alone
<1>4. Exact(t)
  BY <1>2, <1>3 DEF Exact
<1>5. ASSUME NEW u \in Threads, Step(u) PROVE Exact(u)'
  <2>1. InCertificate(u)
    BY <1>5 DEF InCertificate, Step, ReadPreferred, WritePreferred, UpdateHighQC, CommitRule, Walk,
       Collect, PruneCheck, FindLevels, FindParent, DeleteVertex, DeleteLevel, SetLowest, Send
  <2>2. u = t
    BY <1>3, <2>1 DEF OthersOut
  <2>3. Exact(u)
    BY <1>4, <2>2
  <2> QED
    BY <1>5, <2>3, PreferExact, CommitRuleExact, WalkingExact, PruneCheckExact, LevelsExact,
       DeleteExact, LowestExact, SendExact DEF Step
<1>6. ASSUME NEW u \in Threads, NEW q, Enter(u, q)
      PROVE  \A v \in Threads \ {u} : pc[v] = "idle"
  BY <1>6 DEF Enter
<1>7. CASE ProcessBlock
  <2>1. CASE pc'["loop"] = "prefer"
    <3>1. Enter("loop", received)
      BY <1>7, <2>1 DEF ProcessBlock, Goto, TypeOK, ControlOK, Threads
    <3>2. /\ UNCHANGED <<forest, preferredView, levels, forks, committed, forked, block>>
          /\ received' = received + 1 /\ "loop" \in Threads
      BY <1>7 DEF ProcessBlock, commit, sent, Threads
    <3> QED
      BY <1>2, <1>6, <3>1, <3>2, EnterExact
  <2>2. CASE pc'["loop"] # "prefer"
    <3>1. ~InCertificate("loop")
      BY <1>7 DEF ProcessBlock, InCertificate
    <3> QED
      BY <1>4, <1>7, <2>2, <3>1, BlockExact
  <2> QED
    BY <2>1, <2>2
<1>8. CASE AddBlock
  <2>1. ~InCertificate("loop") /\ pc'["loop"] # "prefer"
    BY <1>8 DEF AddBlock, InCertificate, Goto, TypeOK, ControlOK, Threads
  <2> QED
    BY <1>4, <1>8, <2>1, BlockExact
<1>9. ASSUME NEW q \in Blocks, ProcessQC(q) PROVE Exact("loop")'
  <2>1. /\ UNCHANGED <<forest, preferredView, levels, forks, committed, forked, block>>
        /\ received' = received /\ "loop" \in Threads /\ Enter("loop", q)
    BY <1>9 DEF ProcessQC, commit, sent, locks, inputs, Threads
  <2> QED
    BY <1>2, <1>6, <2>1, EnterExact
<1>10. CASE ProcessLocalTmo
  <2>1. /\ UNCHANGED <<forest, preferredView, levels, forks, committed, forked, block>>
        /\ received' = received /\ "listener" \in Threads /\ Enter("listener", highQC)
    BY <1>10 DEF ProcessLocalTmo, commit, sent, locks, Threads
  <2> QED
    BY <1>2, <1>6, <2>1, EnterExact
<1>11. CASE UNCHANGED vars
  BY SMTT(20), <1>4, <1>11 DEF vars, forest, locks, commit, inputs, sent, Exact, OthersOut, InCertificate,
     ForestExact, StoredFrom, SentExact, LockExact, WalkExact, PruneExact, Committing, Pruning, Deleting
<1> QED
  BY <1>5, <1>7, <1>8, <1>9, <1>10, <1>11 DEF Next, Threads

(* As long as the timer has not expired during processCertificate, every   *)
(* block is sent to committedBlocks at most once and none to forkedBlocks, *)
(* the lock covers the last commit and PruneUpToLevel does not panic, for  *)
(* chains of every length and any number of timeouts.                      *)
THEOREM ExactlyOnceWithoutOverlap == Spec => []ExactWithoutOverlap
<1>1. Init => ExactInv
  <2> SUFFICES ASSUME Init PROVE ExactInv
    OBVIOUS
  <2>1. Alone
    BY DEF Init, Alone, OthersOut, InCertificate, Threads
  <2>2. ForestExact
    BY SMTT(20) DEF Init, ForestExact, StoredFrom, Deleting
  <2>3. SentExact
    BY SMTT(20) DEF Init, SentExact
  <2>4. \A t \in Threads : LockExact(t) /\ WalkExact(t) /\ PruneExact(t)
    BY DEF Init, LockExact, WalkExact, PruneExact, Committing, Pruning, Deleting
  <2> QED
    BY <2>1, <2>2, <2>3, <2>4 DEF ExactInv
<1>2. ExactInv => ExactWithoutOverlap
  BY DEF ExactInv, SentExact, PruneExact, ExactWithoutOverlap
<1> QED
  BY <1>1, <1>2, TypeInit, TypeStep, ExactStep, PTL DEF Spec
=============================================================================
