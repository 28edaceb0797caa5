-------------------------------- MODULE Node --------------------------------
(***************************************************************************)
(* One replica from its first message on: Boot and Mempool joined where    *)
(* the code joins them.  handleTxn adds the transaction to the pool before *)
(* it gives the start signal, the event loop proposes and sends decided    *)
(* blocks only once it runs, an event that decides blocks ends when all of *)
(* them are sent, and ListenCommittedBlocks starts with the loop.          *)
(***************************************************************************)
EXTENDS Boot, FiniteSets

CONSTANTS Txns, limit, BSize, ChanSize   \* see Mempool

VARIABLES txns, unsent, refused, proposed, toCommit, toFork, committedBlocks,
          forkedBlocks, collecting, done, old

P == INSTANCE Mempool

ASSUME NodeAssumption == P!ConstantsOK /\ Cardinality(Txns) = MaxTxns

mempool == <<txns, unsent, refused, proposed, toCommit, toFork, committedBlocks,
             forkedBlocks, collecting, done, old>>
allVars == <<vars, mempool>>

NodeInit == Init /\ P!Init

Running == main \in {"loop"} \cup Types

(* What a replica does until it has a transaction to move. *)
Starting ==
  /\ \/ Wait \/ TakeMessage \/ Offer \/ KickOff \/ MessageArrives \/ TxnArrives
     \/ \E g \in Callers : Load(g) \/ Store(g) \/ Signal(g)
  /\ UNCHANGED mempool

handleTxn == TakeTxn /\ P!AddTxn

(* processNewView, for a view the replica leads. *)
Propose ==
  /\ main = "loop" /\ curView > 0
  /\ P!proposeBlock
  /\ UNCHANGED vars

(* The commit of a certificate that came with the event. *)
Decide == main \in Types /\ P!Decide /\ UNCHANGED vars

Deliver == P!Sends /\ UNCHANGED vars

EndOfEvent == P!LoopFree /\ Process /\ UNCHANGED mempool

ListenCommittedBlocks == Running /\ P!Listener /\ UNCHANGED vars

NodeNext ==
  \/ Starting \/ handleTxn \/ Propose \/ Decide \/ Deliver \/ EndOfEvent
  \/ ListenCommittedBlocks

(* The goroutines of Boot and of Mempool are scheduled as they are there.  *)
(* select takes from each of two ready channels in the end.                *)
NodeSpec ==
  /\ NodeInit /\ [][NodeNext]_allVars
  /\ WF_allVars(Wait /\ UNCHANGED mempool) /\ WF_allVars(EndOfEvent)
  /\ WF_allVars((TakeMessage \/ Load("handle") \/ Store("handle") \/ Signal("handle")
                   \/ Offer) /\ UNCHANGED mempool)
  /\ WF_allVars(handleTxn \/ ((Load("txn") \/ Store("txn") \/ Signal("txn") \/ KickOff)
                                /\ UNCHANGED mempool))
  /\ WF_allVars(Deliver)
  /\ WF_allVars(Running /\ P!CollectTxn /\ UNCHANGED vars)
  /\ SF_allVars(Running /\ P!processCommittedBlock /\ UNCHANGED vars)
  /\ SF_allVars(Running /\ P!processForkedBlock /\ UNCHANGED vars)

-----------------------------------------------------------------------------
(* Properties *)

(* AddTxn, some, AddNew and AddOld lose and copy no transaction while the  *)
(* replica boots, proposes and puts back what a fork dropped.              *)
Conserved == P!Conserved

(* insertBack holds new transactions back at memsize; only transactions    *)
(* that insertFront put back make the pool longer.                         *)
PoolBound == P!PoolBound

(* The transactions of forked blocks stand before the new ones in the      *)
(* pool, so that the next proposal takes them first.                       *)
OldFirst == P!OldFirst

(* The event loop, which fills committedBlocks and forkedBlocks, and       *)
(* ListenCommittedBlocks, which drains them, never wait for each other     *)
(* forever: the loop gets back to its next event.                          *)
LoopGoesOn == P!LoopGoesOn

(* Every transaction that arrives gets into the pool or meets a full one,  *)
(* unless the goroutine that takes transactions has lost the race for the  *)
(* start signal.                                                           *)
TxnsReachPool == (txChan > 0) ~> (txChan = 0 \/ (pc["txn"] = "signal" /\ Running))
=============================================================================
