-------------------------------- MODULE Lbft --------------------------------
(***************************************************************************)
(* LBFT (lbft/lbft.go): as Streamlet, but blocks and votes are echoed to   *)
(* the other replicas only, and a QC of an earlier view is dropped.        *)
(***************************************************************************)
EXTENDS Notarized

BroadcastBlock(r, s, b)   == SendAll(s, {CopyOfBlock(r, q, b) : q \in Replicas \ {r}})
BroadcastVote(r, s, b, v) == SendAll(s, {CopyOfVote(r, q, b, v) : q \in Replicas \ {r}})

(* The handlers of the Safety interface.  They call each other.            *)
RECURSIVE ProcessBlock(_, _, _), processCertificate(_, _, _)

(* The first block or vote that a replica sees of a block is echoed. *)
EchoedBlock(r, s, b) ==
  IF b \in s.echoedBlock THEN s
  ELSE BroadcastBlock(r, [s EXCEPT !.echoedBlock = @ \cup {b}], b)

EchoedVote(r, s, b, voter) ==
  IF b \in s.echoedBlock THEN s
  ELSE BroadcastVote(r, [s EXCEPT !.echoedBlock = @ \cup {b}], b, voter)

ProcessVote(r, s, b, voter) ==
  LET echoed == EchoedVote(r, s, b, voter)
      added  == AddVote(echoed.bc, b, voter)
      after  == [echoed EXCEPT !.bc = added.bc]
  IN  IF added.isBuilt THEN processCertificate(r, after, b) ELSE after

(* After a commit: the block waiting for the certified one (it stays in    *)
(* the buffer while it is processed), then the QC waiting for it.          *)
ReleaseBlock(r, s, qc) ==
  IF ChildOf(s.bufferedBlocks, qc) = {} THEN s
  ELSE LET b == CHOOSE c \in ChildOf(s.bufferedBlocks, qc) : TRUE
           t == ProcessBlock(r, s, b)
       IN  [t EXCEPT !.bufferedBlocks = @ \ ChildOf(@, qc)]

ReleaseQC(r, s, qc) ==
  IF s.panicked \/ ChildOf(s.bufferedNotarizedBlock, qc) = {} THEN s
  ELSE LET next == CHOOSE c \in ChildOf(s.bufferedNotarizedBlock, qc) : TRUE
           t    == processCertificate(r, s, next)
       IN  [t EXCEPT !.bufferedQCs = @ \ {next}]

Notarize(r, s, qc) ==
  LET entered == Advance(s, View(qc))
  IN  IF View(qc) < 3 \/ ~commitRule(s) \/ ~commits(s) THEN entered
      ELSE ReleaseQC(r, ReleaseBlock(r, commitNotarized(entered), qc), qc)

(* A QC of an earlier view is dropped.  A QC without its block waits for   *)
(* it, except in view 1.                                                   *)
processCertificate(r, s, qc) ==
  LET updated == updateNotarizedChain(s, qc)
  IN  IF View(qc) < CurView(s) THEN s
      ELSE IF ~Exists(s.bc, qc)
      THEN IF View(qc) > 1 THEN BufferQC(s, qc) ELSE s
      ELSE IF extendsNotarized(s, qc) THEN Notarize(r, updated, qc) ELSE updated

(* What waited for the block that was voted for. *)
ProcessBuffers(r, s, b) ==
  LET certified == IF b \in s.bufferedQCs THEN processCertificate(r, s, b) ELSE s
  IN  IF certified.panicked \/ ChildOf(certified.bufferedBlocks, b) = {} THEN certified
      ELSE ProcessBlock(r, certified, CHOOSE c \in ChildOf(certified.bufferedBlocks, b) : TRUE)

Vote(r, s, b) ==
  LET cast == ProcessVote(r, [s EXCEPT !.voted = @ \cup {b}], b, r)
  IN  IF cast.panicked THEN cast ELSE ProcessBuffers(r, BroadcastVote(r, cast, b, r), b)

StoreBlock(r, s, b) ==
  LET stored == [EchoedBlock(r, s, b) EXCEPT !.bc = AddBlock(@, b)]
  IN  IF votingPanics(stored, b) THEN Panic(stored)
      ELSE IF votingRule(stored, b) THEN Vote(r, stored, b)
      ELSE BufferBlock(stored, b)

ProcessBlock(r, s, b) ==
  IF Exists(s.bc, b) \/ View(b) < CurView(s) THEN s
  ELSE IF View(b) > 1 /\ ~Exists(s.bc, Parent(b)) THEN BufferBlock(s, b)
  ELSE StoreBlock(r, s, b)
=============================================================================
