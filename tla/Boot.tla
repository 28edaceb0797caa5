-------------------------------- MODULE Boot --------------------------------
(***************************************************************************)
(* How a replica starts (Replica.Start, startSignal and the goroutines of  *)
(* node.Run): the main goroutine waits on the channel start, which the     *)
(* message goroutine (node.handle) or the transaction goroutine (node.txn) *)
(* is to send on once, guarded by the atomic flag isStarted.               *)
(*                                                                         *)
(* start and eventChan have no buffer: a send is one step with its         *)
(* receive.  A message is its type; views are reduced to "none entered     *)
(* yet" (0) and "some entered" (1), which is what the start depends on.    *)
(***************************************************************************)
EXTENDS Naturals, Sequences

CONSTANTS Types,        \* the types of messages that arrive
          MaxMsgs,      \* bound: messages that arrive
          MaxTxns,      \* bound: transactions that arrive
          FirstLeader   \* whether the replica leads view 1

ASSUME BootAssumption ==
  /\ Types \subseteq {"block", "vote", "tmo", "vmo"}
  /\ MaxMsgs \in Nat /\ MaxTxns \in Nat
  /\ FirstLeader \in BOOLEAN

VARIABLES main,         \* Start: "run", "wait", "loop", or the event in process
          isStarted,    \* the atomic flag
          pc,           \* where the goroutines handle and txn are
          msg,          \* the message handle works on
          msgChan,      \* MessageChan
          txChan,       \* the number of transactions in TxChan
          arrived,      \* history: messages and transactions that arrived
          curView

vars == <<main, isStarted, pc, msg, msgChan, txChan, arrived, curView>>

Callers == {"handle", "txn"}

Init ==
  /\ main = "run" /\ isStarted = FALSE
  /\ pc = [g \in Callers |-> "idle"]
  /\ msg = "none" /\ msgChan = << >> /\ txChan = 0
  /\ arrived = [msgs |-> 0, txns |-> 0]
  /\ curView = 0

Goto(g, label) == pc' = [pc EXCEPT ![g] = label]

-----------------------------------------------------------------------------
(* startSignal.  It ends where its caller goes on: handle offers its       *)
(* message to the loop, txn kicks off the protocol.                        *)

(* Mutant: the two callers are mixed up. *)
After_other(g) == IF g = "txn" THEN "offer" ELSE "kick"

After(g) == IF g = "handle" THEN "offer" ELSE "kick"

Load(g) ==
  /\ pc[g] = "load"
  /\ Goto(g, IF isStarted THEN After(g) ELSE "store")
  /\ UNCHANGED <<main, isStarted, msg, msgChan, txChan, arrived, curView>>

(* Mutant: the flag is not set. *)
Store_never(g) ==
  /\ pc[g] = "store"
  /\ Goto(g, "signal")
  /\ UNCHANGED <<main, isStarted, msg, msgChan, txChan, arrived, curView>>

Store(g) ==
  /\ pc[g] = "store"
  /\ isStarted' = TRUE
  /\ Goto(g, "signal")
  /\ UNCHANGED <<main, msg, msgChan, txChan, arrived, curView>>

(* Mutant: the signal is dropped when nobody waits for it yet. *)
Signal_drop(g) ==
  /\ pc[g] = "signal"
  /\ main' = IF main = "wait" THEN "loop" ELSE main
  /\ Goto(g, After(g))
  /\ UNCHANGED <<isStarted, msg, msgChan, txChan, arrived, curView>>

Signal(g) ==
  /\ pc[g] = "signal" /\ main = "wait"
  /\ main' = "loop"
  /\ Goto(g, After(g))
  /\ UNCHANGED <<isStarted, msg, msgChan, txChan, arrived, curView>>

-----------------------------------------------------------------------------
(* node.handle with HandleBlock, HandleVote, HandleTmo and HandleVmo: only *)
(* the first two call startSignal, and all but the first drop a message    *)
(* that is stale.                                                          *)
TakeMessage ==
  /\ pc["handle"] = "idle" /\ msgChan # << >>
  /\ msgChan' = Tail(msgChan)
  /\ \/ /\ msg' = Head(msgChan)
        /\ Goto("handle", IF msg' \in {"block", "vote"} THEN "load" ELSE "offer")
     \/ /\ Head(msgChan) # "block" /\ curView > 0
        /\ UNCHANGED <<msg, pc>>
  /\ UNCHANGED <<main, isStarted, txChan, arrived, curView>>

(* eventChan <- message, received by the event loop. *)
Offer ==
  /\ pc["handle"] = "offer" /\ main = "loop"
  /\ main' = msg /\ msg' = "none"
  /\ Goto("handle", "idle")
  /\ UNCHANGED <<isStarted, msgChan, txChan, arrived, curView>>

(* node.txn with handleTxn. *)
TakeTxn ==
  /\ pc["txn"] = "idle" /\ txChan > 0
  /\ txChan' = txChan - 1
  /\ Goto("txn", "load")
  /\ UNCHANGED <<main, isStarted, msg, msgChan, arrived, curView>>

KickOff ==
  /\ pc["txn"] = "kick"
  /\ curView' = IF curView = 0 /\ FirstLeader THEN 1 ELSE curView
  /\ Goto("txn", "idle")
  /\ UNCHANGED <<main, isStarted, msg, msgChan, txChan, arrived>>

(* Start: run the node, wait for the signal, then take events.  A block    *)
(* joins view 1, a VMO does unless it is counted by the next leader, a TMO *)
(* may complete a TC.                                                      *)
Wait ==
  /\ main = "run" /\ main' = "wait"
  /\ UNCHANGED <<isStarted, pc, msg, msgChan, txChan, arrived, curView>>

Process ==
  /\ main \in Types
  /\ curView' \in (IF main = "block" THEN {1} ELSE IF main = "vote" THEN {curView} ELSE {curView, 1})
  /\ main' = "loop"
  /\ UNCHANGED <<isStarted, pc, msg, msgChan, txChan, arrived>>

(* node.recv *)
MessageArrives ==
  /\ arrived.msgs < MaxMsgs
  /\ arrived' = [arrived EXCEPT !.msgs = @ + 1]
  /\ \E type \in Types : msgChan' = Append(msgChan, type)
  /\ UNCHANGED <<main, isStarted, pc, msg, txChan, curView>>

TxnArrives ==
  /\ arrived.txns < MaxTxns
  /\ arrived' = [arrived EXCEPT !.txns = @ + 1]
  /\ txChan' = txChan + 1
  /\ UNCHANGED <<main, isStarted, pc, msg, msgChan, curView>>

Main   == Wait \/ Process
handle == TakeMessage \/ Load("handle") \/ Store("handle") \/ Signal("handle") \/ Offer
txn    == TakeTxn \/ Load("txn") \/ Store("txn") \/ Signal("txn") \/ KickOff

Next == Main \/ handle \/ txn \/ MessageArrives \/ TxnArrives

(* The Go scheduler runs every goroutine that can take a step; nothing     *)
(* obliges the network or a client to send.                                *)
Spec == Init /\ [][Next]_vars /\ WF_vars(Main) /\ WF_vars(handle) /\ WF_vars(txn)

-----------------------------------------------------------------------------
(* Properties *)

(* A transaction starts the event loop, whenever the main goroutine gets   *)
(* to wait for the signal and whatever handle does at the same time.       *)
TxnStartsLoop == (txChan > 0) ~> (main \in {"loop"} \cup Types)

(* A goroutine left behind on the start channel has lost the race with the *)
(* other one: the signal was sent, and the loop runs.  One alone is never  *)
(* left behind.                                                            *)
StuckOnlyByRace ==
  \A g \in Callers :
    (pc[g] \in {"store", "signal"} /\ main \in {"loop"} \cup Types)
      => \A h \in Callers \ {g} : pc[h] \notin {"store", "signal"}
=============================================================================
