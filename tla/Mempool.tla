------------------------------ MODULE Mempool ------------------------------
(***************************************************************************)
(* The transactions of one replica: the memory pool (mempool/), from which *)
(* the event loop takes the payload of its proposals, and the goroutine    *)
(* ListenCommittedBlocks, which learns over two bounded channels what      *)
(* became of them and collects the transactions of forked blocks again.    *)
(*                                                                         *)
(* A block is its payload; blocks without transactions and blocks of other *)
(* replicas change nothing here and are left out.  The protocol decides    *)
(* each block once, as committed or as forked.  The Bloom filter is        *)
(* written and never read.                                                 *)
(***************************************************************************)
EXTENDS Naturals, Sequences, FiniteSets, Functions

CONSTANTS Txns,       \* bound: the transactions that clients send, each once
          limit,      \* config.MemSize
          BSize,      \* config.BSize: transactions per block
          ChanSize    \* capacity of committedBlocks and forkedBlocks: 100

ConstantsOK == limit \in Nat /\ BSize \in Nat \ {0} /\ ChanSize \in Nat \ {0}

VARIABLES txns,             \* the list of the pool
          unsent,           \* the transactions no client has sent yet
          refused,          \* those that met a full pool
          proposed,         \* blocks of this replica that are not decided
          toCommit,         \* decided blocks the event loop still has to send
          toFork,
          committedBlocks,  \* the two channels
          forkedBlocks,
          collecting,       \* what processForkedBlock still has to collect
          done,             \* transactions of committed blocks
          old               \* history: transactions that were in a block

vars == <<txns, unsent, refused, proposed, toCommit, toFork, committedBlocks,
          forkedBlocks, collecting, done, old>>

pool == <<txns, unsent, refused>>
loop == <<proposed, toCommit, toFork>>

Init ==
  /\ txns = << >> /\ unsent = Txns /\ refused = {}
  /\ proposed = {} /\ toCommit = << >> /\ toFork = << >>
  /\ committedBlocks = << >> /\ forkedBlocks = << >>
  /\ collecting = << >> /\ done = {} /\ old = {}

-----------------------------------------------------------------------------
(* Backend: each of these holds the mutex of the list. *)

(* Mutant: the limit is not looked at. *)
insertBack_unlimited(t) ==
  txns' = Append(txns, t) /\ UNCHANGED refused

insertBack(t) ==
  IF Len(txns) > limit
  THEN refused' = refused \cup {t} /\ UNCHANGED txns
  ELSE txns' = Append(txns, t) /\ UNCHANGED refused

(* Mutant: a collected transaction goes to the back of the list. *)
insertFront_back(t) == txns' = Append(txns, t)

insertFront(t) == txns' = <<t>> \o txns

batchSize == IF Len(txns) >= BSize THEN BSize ELSE Len(txns)

(* some returns this much of the list and removes it. *)
batch == SubSeq(txns, 1, batchSize)

(* Mutant: the last transaction of the batch stays in the list. *)
some_stays == txns' = SubSeq(txns, batchSize, Len(txns))

some == txns' = SubSeq(txns, batchSize + 1, Len(txns))

-----------------------------------------------------------------------------
(* handleTxn, in the transaction goroutine *)
AddTxn ==
  \E t \in unsent :
    /\ insertBack(t)
    /\ unsent' = unsent \ {t}
    /\ UNCHANGED <<loop, committedBlocks, forkedBlocks, collecting, done, old>>

(* The event loop is free when it has sent all blocks of the last decision. *)
LoopFree == toCommit = << >> /\ toFork = << >>

(* proposeBlock: the payload is taken off the list. *)
proposeBlock ==
  /\ LoopFree /\ txns # << >>
  /\ some
  /\ proposed' = proposed \cup {batch}
  /\ old' = old \cup Range(batch)
  /\ UNCHANGED <<unsent, refused, toCommit, toFork, committedBlocks, forkedBlocks,
                 collecting, done>>

(* A commit decides some of the blocks: external, see commit in Replica.   *)
Decide ==
  /\ LoopFree
  /\ \E com, fork \in SUBSET proposed :
       /\ com # {} \/ fork # {}
       /\ com \cap fork = {}
       /\ toCommit' \in Bijection(1 .. Cardinality(com), com)
       /\ toFork' \in Bijection(1 .. Cardinality(fork), fork)
       /\ proposed' = proposed \ (com \cup fork)
  /\ UNCHANGED <<pool, committedBlocks, forkedBlocks, collecting, done, old>>

(* The committed blocks are sent first, then the forked ones; the loop     *)
(* blocks on a full channel.                                               *)
SendCommitted ==
  /\ toCommit # << >> /\ Len(committedBlocks) < ChanSize
  /\ committedBlocks' = Append(committedBlocks, Head(toCommit))
  /\ toCommit' = Tail(toCommit)
  /\ UNCHANGED <<pool, proposed, toFork, forkedBlocks, collecting, done, old>>

SendForked ==
  /\ toCommit = << >> /\ toFork # << >> /\ Len(forkedBlocks) < ChanSize
  /\ forkedBlocks' = Append(forkedBlocks, Head(toFork))
  /\ toFork' = Tail(toFork)
  /\ UNCHANGED <<pool, proposed, toCommit, committedBlocks, collecting, done, old>>

-----------------------------------------------------------------------------
(* ListenCommittedBlocks *)

(* Mutant: committed blocks are taken only together with forked ones. *)
processCommittedBlock_both ==
  /\ collecting = << >> /\ committedBlocks # << >> /\ forkedBlocks # << >>
  /\ done' = done \cup Range(Head(committedBlocks))
  /\ committedBlocks' = Tail(committedBlocks)
  /\ UNCHANGED <<pool, loop, forkedBlocks, collecting, old>>

processCommittedBlock ==
  /\ collecting = << >> /\ committedBlocks # << >>
  /\ done' = done \cup Range(Head(committedBlocks))
  /\ committedBlocks' = Tail(committedBlocks)
  /\ UNCHANGED <<pool, loop, forkedBlocks, collecting, old>>

processForkedBlock ==
  /\ collecting = << >> /\ forkedBlocks # << >>
  /\ collecting' = Head(forkedBlocks)
  /\ forkedBlocks' = Tail(forkedBlocks)
  /\ UNCHANGED <<pool, loop, committedBlocks, done, old>>

(* One transaction after the other, so the loop may propose in between. *)
CollectTxn ==
  /\ collecting # << >>
  /\ insertFront(Head(collecting))
  /\ collecting' = Tail(collecting)
  /\ UNCHANGED <<unsent, refused, loop, committedBlocks, forkedBlocks, done, old>>

Sends    == SendCommitted \/ SendForked
Listener == processCommittedBlock \/ processForkedBlock \/ CollectTxn

Next == AddTxn \/ proposeBlock \/ Decide \/ Sends \/ Listener

(* The loop sends when it can and the listener never rests; the listener   *)
(* chooses at random between two ready channels (select), so it takes from *)
(* each of them in the end.                                                *)
Fairness ==
  /\ WF_vars(Sends) /\ WF_vars(CollectTxn)
  /\ SF_vars(processCommittedBlock) /\ SF_vars(processForkedBlock)

Spec == Init /\ [][Next]_vars /\ Fairness

-----------------------------------------------------------------------------
(* Properties *)

(* How often transaction t occurs in a list, and how many blocks of a list *)
(* hold it.                                                                *)
Occurs(t, list)  == Cardinality({i \in DOMAIN list : list[i] = t})
Holding(t, list) == Cardinality({i \in DOMAIN list : t \in Range(list[i])})

(* A transaction is never lost and never in two places: it is unsent,      *)
(* refused, in the pool, in one block, being collected, or committed,      *)
(* although three goroutines move it around.                               *)
Conserved ==
  /\ unsent \cap refused = {} /\ done \cap (unsent \cup refused) = {}
  /\ \A t \in Txns :
       (IF t \in unsent \cup refused \cup done THEN 1 ELSE 0)
         + Occurs(t, txns) + Occurs(t, collecting)
         + Cardinality({b \in proposed : t \in Range(b)})
         + Holding(t, toCommit) + Holding(t, toFork)
         + Holding(t, committedBlocks) + Holding(t, forkedBlocks) = 1

(* The pool holds at most limit + 1 transactions that were never proposed, *)
(* since insertBack compares before it inserts; only those that come back  *)
(* from forked blocks go beyond.                                           *)
PoolBound == Cardinality(Range(txns) \ old) <= limit + 1

(* A transaction that comes back is proposed again before any that was     *)
(* never proposed.                                                         *)
OldFirst ==
  \A i, j \in DOMAIN txns : i < j /\ txns[j] \in old => txns[i] \in old

(* The event loop never waits forever for the listener, however many       *)
(* blocks a commit decides at once.                                        *)
LoopGoesOn == (toCommit # << >> \/ toFork # << >>) ~> LoopFree

=============================================================================
