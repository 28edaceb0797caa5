---------------------------- MODULE Certificates ----------------------------
(***************************************************************************)
(* Two goroutines of one HotStuff replica in processCertificate at the     *)
(* same time: the event loop, with the QC of a block or of a remote TMO,   *)
(* and ListenLocalEvent, whose ProcessLocalTmo handles the replica's own   *)
(* high QC when the timer expires (replica.go:320).  Only the high QC has  *)
(* a lock.  A step ends where the other goroutine can change what the next *)
(* one reads: between a comparison and the assignment it guards, between   *)
(* the condition of a loop and its body, between two deletions.  The Go    *)
(* run time may also end a process that it catches with two goroutines in  *)
(* one map; that cuts behaviours short and adds none.                      *)
(*                                                                         *)
(* The views of the chain have no gaps, so a block, its level and its QC   *)
(* are its view, and its parent is the view before.                        *)
(***************************************************************************)
EXTENDS Naturals, Sequences

CONSTANTS MaxView,      \* bound: the blocks of the chain
          MaxTimeouts   \* bound: how often the timer expires

ASSUME CertificatesAssumption == MaxView \in Nat /\ MaxTimeouts \in Nat

Threads == {"loop", "listener"}
Blocks  == 1 .. MaxView

VARIABLES vertices,        \* LevelledForest.vertices
          verticesAtLevel, \* the keys of LevelledForest.verticesAtLevel
          LowestLevel,
          preferredView, highQC,
          pc, qc,          \* of a goroutine: its next step and its QC
          block,           \* ... the block it commits
          cur,             \* ... the block or level its loop has reached
          blocks,          \* ... the committedBlocks of its CommitBlock
          levels, forks,   \* ... committedLevels and forkedBlocks of its pruning
          received,        \* the last block the loop has received
          timeouts,
          committed, forked, \* history: how often a block was sent to each channel
          overlapped         \* history: both were in processCertificate at once

forest == <<vertices, verticesAtLevel, LowestLevel>>
locks  == <<preferredView, highQC>>
commit == <<block, cur, blocks, levels, forks>>
inputs == <<received, timeouts>>
sent   == <<committed, forked>>
vars   == <<forest, locks, pc, qc, commit, inputs, sent, overlapped>>

Init ==
  /\ vertices = {} /\ verticesAtLevel = {} /\ LowestLevel = 0
  /\ preferredView = 0 /\ highQC = 0
  /\ pc = [t \in Threads |-> "idle"] /\ qc = [t \in Threads |-> 0]
  /\ block = [t \in Threads |-> 0] /\ cur = [t \in Threads |-> 0]
  /\ blocks = [t \in Threads |-> {}]
  /\ levels = [t \in Threads |-> {}] /\ forks = [t \in Threads |-> {}]
  /\ received = 0 /\ timeouts = 0
  /\ committed = [b \in Blocks |-> 0] /\ forked = [b \in Blocks |-> 0]
  /\ overlapped = FALSE

Goto(t, step) == pc' = [pc EXCEPT ![t] = step]

(* processCertificate returns: the loop goes on to add the block it is     *)
(* processing, the listener waits for its timer.                           *)
Return(t) ==
  Goto(t, IF t = "loop" /\ received \notin vertices THEN "add" ELSE "idle")

Enter(t, q) ==
  /\ pc[t] = "idle"
  /\ qc' = [qc EXCEPT ![t] = q]
  /\ Goto(t, "prefer")
  /\ overlapped' = (overlapped \/ \E u \in Threads \ {t} : pc[u] # "idle")

GetVertex(b) == b \in vertices

(* updateHighQC, under mu. *)
updateHighQC(q) == highQC' = IF q > highQC THEN q ELSE highQC

-----------------------------------------------------------------------------
(* The callers *)

(* ProcessBlock up to AddBlock: the QC of a block of the replica itself is *)
(* not processed.                                                          *)
ProcessBlock ==
  /\ pc["loop"] = "idle" /\ received < MaxView
  /\ received' = received + 1
  /\ updateHighQC(received)
  /\ \/ Enter("loop", received)
     \/ Goto("loop", "add") /\ UNCHANGED <<qc, overlapped>>
  /\ UNCHANGED <<forest, preferredView, commit, timeouts, sent>>

(* ProcessBlock from AddBlock. *)
AddBlock ==
  /\ pc["loop"] = "add"
  /\ vertices' = vertices \cup {received}
  /\ verticesAtLevel' = verticesAtLevel \cup {received}
  /\ Goto("loop", "idle")
  /\ UNCHANGED <<LowestLevel, locks, qc, commit, inputs, sent>>

(* A TMO, votes or bufferedQCs bring the QC of a block the replica has. *)
ProcessQC(q) ==
  /\ q \in vertices
  /\ Enter("loop", q)
  /\ UNCHANGED <<forest, locks, commit, inputs, sent>>

ProcessLocalTmo ==
  /\ timeouts < MaxTimeouts
  /\ timeouts' = timeouts + 1
  /\ Enter("listener", highQC)
  /\ UNCHANGED <<forest, locks, commit, received, sent>>

-----------------------------------------------------------------------------
(* processCertificate *)

(* updatePreferredView up to the comparison.  A QC whose block or parent   *)
(* is not stored is buffered.                                              *)
ReadPreferred(t) ==
  /\ pc[t] = "prefer"
  /\ IF qc[t] <= 2 THEN Goto(t, "high")
     ELSE IF ~GetVertex(qc[t]) \/ ~GetVertex(qc[t] - 1) THEN Return(t)
     ELSE Goto(t, IF qc[t] - 1 > preferredView THEN "lock" ELSE "high")
  /\ UNCHANGED <<forest, locks, qc, commit, inputs, sent>>

WritePreferred(t) ==
  /\ pc[t] = "lock"
  /\ preferredView' = qc[t] - 1
  /\ Goto(t, "high")
  /\ UNCHANGED <<forest, highQC, qc, commit, inputs, sent>>

UpdateHighQC(t) ==
  /\ pc[t] = "high"
  /\ updateHighQC(qc[t])
  /\ IF qc[t] < 3 THEN Return(t) ELSE Goto(t, "commit")
  /\ UNCHANGED <<forest, preferredView, qc, commit, inputs, sent>>

(* commitRule: block, parent and grandparent are stored. *)
CommitRule(t) ==
  /\ pc[t] = "commit"
  /\ IF \A b \in {qc[t], qc[t] - 1, qc[t] - 2} : GetVertex(b)
     THEN /\ block' = [block EXCEPT ![t] = qc[t] - 2]
          /\ cur' = [cur EXCEPT ![t] = qc[t] - 2]
          /\ blocks' = [blocks EXCEPT ![t] = {}]
          /\ Goto(t, "walk")
     ELSE Return(t) /\ UNCHANGED <<block, cur, blocks>>
  /\ UNCHANGED <<forest, locks, qc, levels, forks, inputs, sent>>

-----------------------------------------------------------------------------
(* CommitBlock, the loop over the ancestors: its condition and its body. *)

(* Mutant: the first block above the lowest level is taken for committed. *)
Walk_above(t) ==
  /\ pc[t] = "walk"
  /\ Goto(t, IF cur[t] > LowestLevel + 1 THEN "collect" ELSE "prune")
  /\ UNCHANGED <<forest, locks, qc, commit, inputs, sent>>

(* Mutant: the block on the lowest level is committed again. *)
Walk_again(t) ==
  /\ pc[t] = "walk"
  /\ Goto(t, IF cur[t] >= LowestLevel THEN "collect" ELSE "prune")
  /\ UNCHANGED <<forest, locks, qc, commit, inputs, sent>>

Walk(t) ==
  /\ pc[t] = "walk"
  /\ Goto(t, IF cur[t] > LowestLevel THEN "collect" ELSE "prune")
  /\ UNCHANGED <<forest, locks, qc, commit, inputs, sent>>

Collect(t) ==
  /\ pc[t] = "collect"
  /\ blocks' = [blocks EXCEPT ![t] = @ \cup {cur[t]}]
  /\ IF GetVertex(cur[t] - 1)
     THEN Goto(t, "walk") /\ cur' = [cur EXCEPT ![t] = @ - 1]
     ELSE Goto(t, "prune") /\ UNCHANGED cur
  /\ UNCHANGED <<forest, locks, qc, block, levels, forks, inputs, sent>>

(* PruneUpToLevel: a level that is pruned already is an error, and what    *)
(* the walk has found is not returned.                                     *)
PruneCheck(t) ==
  /\ pc[t] = "prune"
  /\ IF block[t] < LowestLevel THEN Return(t) /\ UNCHANGED <<cur, levels, forks>>
     ELSE /\ cur' = [cur EXCEPT ![t] = block[t]]
          /\ levels' = [levels EXCEPT ![t] = {}]
          /\ forks' = [forks EXCEPT ![t] = {}]
          /\ Goto(t, "levels")
  /\ UNCHANGED <<forest, locks, qc, block, blocks, inputs, sent>>

PruneLoop(t) == cur' = [cur EXCEPT ![t] = LowestLevel] /\ Goto(t, "delete")

(* Its first loop, the condition and the body.  verticesAtLevel[l][0] of a *)
(* level that the other goroutine has deleted is a panic, which ends the   *)
(* replica.                                                                *)
FindLevels(t) ==
  /\ pc[t] = "levels"
  /\ IF cur[t] < LowestLevel \/ cur[t] <= 1 THEN PruneLoop(t)
     ELSE Goto(t, "parent") /\ UNCHANGED cur
  /\ UNCHANGED <<forest, locks, qc, block, blocks, levels, forks, inputs, sent>>

FindParent(t) ==
  /\ pc[t] = "parent"
  /\ \/ /\ cur[t] \notin verticesAtLevel
        /\ pc' = [u \in Threads |-> "panic"]
        /\ UNCHANGED <<cur, levels>>
     \/ /\ cur[t] \in verticesAtLevel
        /\ ~GetVertex(cur[t] - 1) \/ cur[t] - 1 < LowestLevel
        /\ PruneLoop(t) /\ UNCHANGED levels
     \/ /\ cur[t] \in verticesAtLevel
        /\ GetVertex(cur[t] - 1) /\ cur[t] - 1 >= LowestLevel
        /\ levels' = [levels EXCEPT ![t] = @ \cup {cur[t] - 1}]
        /\ cur' = [cur EXCEPT ![t] = @ - 1]
        /\ Goto(t, "levels")
  /\ UNCHANGED <<forest, locks, qc, block, blocks, forks, inputs, sent>>

(* Its second loop, the vertex of a level and then the level. *)
DeleteVertex(t) ==
  /\ pc[t] = "delete" /\ cur[t] < block[t]
  /\ forks' = [forks EXCEPT ![t] =
                 IF cur[t] \in verticesAtLevel /\ cur[t] \notin levels[t] /\ cur[t] > 1
                 THEN @ \cup {cur[t]} ELSE @]
  /\ vertices' = IF cur[t] \in verticesAtLevel THEN vertices \ {cur[t]} ELSE vertices
  /\ Goto(t, "level")
  /\ UNCHANGED <<verticesAtLevel, LowestLevel, locks, qc, block, cur, blocks, levels,
                 inputs, sent>>

DeleteLevel(t) ==
  /\ pc[t] = "level"
  /\ verticesAtLevel' = verticesAtLevel \ {cur[t]}
  /\ cur' = [cur EXCEPT ![t] = @ + 1]
  /\ Goto(t, "delete")
  /\ UNCHANGED <<vertices, LowestLevel, locks, qc, block, blocks, levels, forks,
                 inputs, sent>>

SetLowest(t) ==
  /\ pc[t] = "delete" /\ cur[t] >= block[t]
  /\ LowestLevel' = block[t]
  /\ Goto(t, "send")
  /\ UNCHANGED <<vertices, verticesAtLevel, locks, qc, commit, inputs, sent>>

(* processCertificate, the end: committedBlocks <- cBlock, forkedBlocks <- *)
(* fBlock.                                                                 *)
Send(t) ==
  /\ pc[t] = "send"
  /\ committed' = [b \in Blocks |-> committed[b] + IF b \in blocks[t] THEN 1 ELSE 0]
  /\ forked' = [b \in Blocks |-> forked[b] + IF b \in forks[t] THEN 1 ELSE 0]
  /\ Return(t)
  /\ UNCHANGED <<forest, locks, qc, commit, inputs>>

Step(t) ==
  \/ ReadPreferred(t) \/ WritePreferred(t) \/ UpdateHighQC(t) \/ CommitRule(t)
  \/ Walk(t) \/ Collect(t) \/ PruneCheck(t) \/ FindLevels(t) \/ FindParent(t)
  \/ DeleteVertex(t) \/ DeleteLevel(t) \/ SetLowest(t) \/ Send(t)

Next ==
  \/ ProcessBlock \/ (\E q \in Blocks : ProcessQC(q)) \/ ProcessLocalTmo
  \/ (AddBlock \/ \E t \in Threads : Step(t)) /\ UNCHANGED overlapped

Spec == Init /\ [][Next]_vars

-----------------------------------------------------------------------------
(* Properties *)

Quiet == \A t \in Threads : pc[t] = "idle"

(* "Once a block is finalized, the entire prefix of the chain is also      *)
(* finalized": when no goroutine is in processCertificate, every block up  *)
(* to the last committed level was sent to committedBlocks, although a     *)
(* walk stops early where the other goroutine has pruned the ancestors,    *)
(* and drops what it found when it is overtaken.                           *)
NoGap == Quiet => \A b \in 1 .. LowestLevel : committed[b] > 0

(* As long as no timer has expired during an event, no block is committed  *)
(* twice, none of the single chain is reported as forked, the lock is not  *)
(* below the last commit, and pruning finds the levels it looks at.  None  *)
(* of the four survives an overlap.                                        *)
ExactWithoutOverlap ==
  ~overlapped =>
     /\ \A b \in Blocks : committed[b] <= 1 /\ forked[b] = 0
     /\ Quiet => preferredView >= LowestLevel
     /\ \A t \in Threads : pc[t] # "panic"

-----------------------------------------------------------------------------
(* The inductive invariant of NoGap. *)

Labels == {"idle", "add", "prefer", "lock", "high", "commit", "walk", "collect", "prune",
           "levels", "parent", "delete", "level", "send", "panic"}

ControlOK ==
  /\ pc \in [Threads -> Labels]
  /\ pc["loop"] \in {"idle", "panic"} \/ received > 0

DataOK ==
  /\ received \in 0 .. MaxView /\ vertices \subseteq 1 .. received
  /\ LowestLevel \in Nat /\ highQC \in Nat
  /\ qc \in [Threads -> Nat] /\ block \in [Threads -> Nat] /\ cur \in [Threads -> Nat]
  /\ blocks \in [Threads -> SUBSET Nat]
  /\ committed \in [Blocks -> Nat]

TypeOK == ControlOK /\ DataOK

Committing(t) == pc[t] \in {"walk", "collect", "prune"}

(* A goroutine that has passed the check of PruneUpToLevel does send.      *)
Pruning(t) == pc[t] \in {"levels", "parent", "delete", "level", "send"}

Panicked == \A t \in Threads : pc[t] = "panic"

(* Block b was sent to committedBlocks, or a goroutine is bound to send it. *)
Covered(b) == committed[b] > 0 \/ \E t \in Threads : Pruning(t) /\ b \in blocks[t]

(* Covered are the blocks up to the lowest level, ...  *)
LowestCovered == LowestLevel <= received /\ \A b \in 1 .. LowestLevel : Covered(b)

(* ... those up to a block that is no longer stored, ... *)
PrunedCovered ==
  \A b \in 1 .. received :
    \/ b \in vertices
    \/ b = received /\ pc["loop"] # "idle"
    \/ \A c \in 1 .. b : Covered(c)

(* ... and those up to the block of a goroutine that prunes, because its   *)
(* walk has collected them or has stopped where the rest was covered.      *)
CommitCovered(t) ==
  /\ Committing(t) \/ Pruning(t) => block[t] \in 1 .. received
  /\ pc[t] \in {"walk", "collect"} =>
       /\ cur[t] \in 1 .. block[t]
       /\ \A b \in cur[t] + 1 .. block[t] : b \in blocks[t]
  /\ pc[t] = "prune" => \A b \in 1 .. block[t] : b \in blocks[t] \/ Covered(b)
  /\ Pruning(t) => \A b \in 1 .. block[t] : Covered(b)

GapInv ==
  /\ TypeOK
  /\ Panicked \/ (LowestCovered /\ PrunedCovered /\ \A t \in Threads : CommitCovered(t))

-----------------------------------------------------------------------------
(* The inductive invariant of ExactWithoutOverlap.                         *)

InCertificate(t) == pc[t] \notin {"idle", "add"}
Deleting(t)      == pc[t] \in {"delete", "level"}

(* At most one goroutine is in processCertificate. *)
OthersOut(t) == \A u \in Threads \ {t} : ~InCertificate(u)
Alone        == \E t \in Threads : OthersOut(t)

(* The blocks from a level on are stored, the one being processed apart. *)
StoredFrom(level) ==
  \A b \in 1 .. received :
    b >= level => b \in vertices \/ (b = received /\ pc["loop"] # "idle")

(* What is stored is found at its level, also from the lowest one on, or,  *)
(* while levels are deleted, from the one that becomes the lowest.         *)
ForestExact ==
  /\ vertices \subseteq verticesAtLevel
  /\ (\A t \in Threads : ~Deleting(t)) => StoredFrom(LowestLevel)
  /\ \A t \in Threads : Deleting(t) => StoredFrom(block[t])

(* What was sent is not above the lowest level, and the lock is not below. *)
SentExact ==
  /\ preferredView \in Nat /\ preferredView >= LowestLevel
  /\ levels \in [Threads -> SUBSET Nat] /\ forks \in [Threads -> SUBSET Nat]
  /\ forked = [b \in Blocks |-> 0]
  /\ \A b \in Blocks : committed[b] <= 1 /\ (committed[b] > 0 => b <= LowestLevel)

(* A goroutine has locked before it commits, ... *)
LockExact(t) ==
  /\ pc[t] = "lock" => qc[t] >= 3 /\ qc[t] - 1 > preferredView
  /\ pc[t] = "high" /\ qc[t] >= 3 => preferredView >= qc[t] - 1
  /\ pc[t] = "commit" => qc[t] >= 3 /\ preferredView >= qc[t] - 1
  /\ Committing(t) \/ Pruning(t) =>
       block[t] >= 1 /\ block[t] + 2 <= received /\ preferredView >= block[t]

(* ... it collects blocks that are not committed, ... *)
WalkExact(t) ==
  /\ Committing(t) \/ Pruning(t) => \A b \in blocks[t] : b <= block[t]
  /\ (Committing(t) \/ Pruning(t)) /\ pc[t] # "send" =>
       \A b \in blocks[t] : b > LowestLevel
  /\ pc[t] \in {"walk", "collect"} => cur[t] <= block[t]
  /\ pc[t] = "collect" => cur[t] > LowestLevel
  /\ pc[t] = "send" => \A b \in blocks[t] \cap Blocks : committed[b] = 0

(* ... and deletes only levels that it has found to be committed. *)
PruneExact(t) ==
  /\ pc[t] # "panic"
  /\ Pruning(t) => LowestLevel <= block[t] /\ forks[t] = {}
  /\ pc[t] \in {"levels", "parent"} =>
       /\ LowestLevel <= cur[t] /\ 1 <= cur[t] /\ cur[t] <= block[t]
       /\ \A b \in Blocks : cur[t] <= b /\ b < block[t] => b \in levels[t]
  /\ pc[t] = "parent" => cur[t] > 1
  /\ Deleting(t) =>
       /\ LowestLevel <= cur[t]
       /\ \A b \in Blocks : LowestLevel <= b /\ 1 < b /\ b < block[t] => b \in levels[t]
  /\ pc[t] = "level" => cur[t] < block[t] /\ cur[t] \notin vertices
  /\ pc[t] = "send" => LowestLevel = block[t]

ExactInv ==
  ~overlapped =>
     /\ Alone /\ ForestExact /\ SentExact
     /\ \A t \in Threads : LockExact(t) /\ WalkExact(t) /\ PruneExact(t)
=============================================================================
