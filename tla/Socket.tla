------------------------------- MODULE Socket -------------------------------
(***************************************************************************)
(* The socket of one replica towards one other (socket/socket.go over      *)
(* transport/transport.go): Send as the event loop and the listener call   *)
(* it at the same time, with the connection they dial on demand; the       *)
(* transports, which queue and deliver in order; Recv; and the injected    *)
(* faults, each ended by a timer of its own.                               *)
(*                                                                         *)
(* Encoding is left out, and dialling succeeds (the retries end in a       *)
(* panic).  A channel of 10240 messages is taken as unbounded.             *)
(***************************************************************************)
EXTENDS Naturals, Sequences, FiniteSets, SequencesExt

CONSTANTS Senders,      \* the goroutines that send
          MaxMsgs,      \* bound: messages that are sent
          Durations,    \* the durations of faults
          Faults,       \* the faults that are injected
          MaxFaults,    \* bound: injections
          MaxTime       \* bound: clock ticks

ASSUME SocketAssumption ==
  /\ IsFiniteSet(Senders)
  /\ Faults \subseteq {"drop", "slow", "flaky", "crash", "peerCrash"}
  /\ Durations \subseteq Nat
  /\ MaxMsgs \in Nat /\ MaxFaults \in Nat /\ MaxTime \in Nat

VARIABLES pc,         \* where Send is, per goroutine
          sent,       \* the number of messages each goroutine has sent
          conn,       \* the transport each goroutine holds: t of Send
          node,       \* nodes[to]: the registered transport, or 0
          queues,     \* the outbound channel of each transport dialled
          delayed,    \* messages that wait for the timer of the slow fault
          received,   \* what Recv has returned
          lost,       \* messages that a fault discarded
          on,         \* the switches drop, slow, flaky and crash, and crash
                      \* of the socket at the other end
          timers,     \* pending timers: fault, time at which it ends, number
          until,      \* history: end of the fault injected last; 0: none
          injected, now

net    == <<pc, sent, conn, node, queues, delayed, received, lost>>
faults == <<on, timers, until, injected, now>>
vars   == <<net, faults>>

Forever == MaxTime + 1

Msg(g) == <<g, sent[g]>>

Init ==
  /\ pc = [g \in Senders |-> "idle"] /\ sent = [g \in Senders |-> 0]
  /\ conn = [g \in Senders |-> 0] /\ node = 0
  /\ queues = << >> /\ delayed = {} /\ received = << >> /\ lost = {}
  /\ on = {} /\ timers = {} /\ until = [f \in Faults |-> 0]
  /\ injected = 0 /\ now = 0

-----------------------------------------------------------------------------
(* The messages Send was called for: sender and number. *)
Sent == {m \in Senders \X (1 .. MaxMsgs) : m[2] <= sent[m[1]]}

(* Send: a crashed or dropping socket sends nothing, a flaky one perhaps;  *)
(* otherwise the transport is looked up, and dialled if there is none.     *)
(* Between the lookup and its registration another goroutine may dial too. *)
Call(g) ==
  /\ pc[g] = "idle" /\ Cardinality(Sent) < MaxMsgs
  /\ sent' = [sent EXCEPT ![g] = @ + 1]
  /\ \/ /\ on \cap {"crash", "drop", "flaky"} # {}
        /\ lost' = lost \cup {<<g, sent[g] + 1>>}
        /\ UNCHANGED <<pc, conn>>
     \/ /\ on \cap {"crash", "drop"} = {}
        /\ conn' = [conn EXCEPT ![g] = node]
        /\ pc' = [pc EXCEPT ![g] = IF node = 0 THEN "dial" ELSE "send"]
        /\ UNCHANGED lost
  /\ UNCHANGED <<node, queues, delayed, received, faults>>

Dial(g) ==
  /\ pc[g] = "dial"
  /\ queues' = Append(queues, << >>)
  /\ conn' = [conn EXCEPT ![g] = Len(queues')]
  /\ pc' = [pc EXCEPT ![g] = "register"]
  /\ UNCHANGED <<sent, node, delayed, received, lost, faults>>

(* Mutant: the transport is not registered. *)
Register_not(g) ==
  /\ pc[g] = "register"
  /\ pc' = [pc EXCEPT ![g] = "send"]
  /\ UNCHANGED <<sent, conn, node, queues, delayed, received, lost, faults>>

(* Mutant: the transport it replaces is closed, with what it has queued. *)
Register_close(g) ==
  /\ pc[g] = "register"
  /\ node' = conn[g]
  /\ queues' = IF node = 0 THEN queues ELSE [queues EXCEPT ![node] = << >>]
  /\ pc' = [pc EXCEPT ![g] = "send"]
  /\ UNCHANGED <<sent, conn, delayed, received, lost, faults>>

Register(g) ==
  /\ pc[g] = "register"
  /\ node' = conn[g]
  /\ pc' = [pc EXCEPT ![g] = "send"]
  /\ UNCHANGED <<sent, conn, queues, delayed, received, lost, faults>>

Enqueue(c, m) == queues' = [queues EXCEPT ![c] = Append(@, m)]

(* Mutant: the message is delayed and sent at once as well. *)
Put_twice(g) ==
  /\ pc[g] = "send"
  /\ delayed' = IF "slow" \in on THEN delayed \cup {<<conn[g], Msg(g)>>} ELSE delayed
  /\ Enqueue(conn[g], Msg(g))
  /\ pc' = [pc EXCEPT ![g] = "idle"]
  /\ UNCHANGED <<sent, conn, node, received, lost, faults>>

(* On a slow link a timer sends the message later. *)
Put(g) ==
  /\ pc[g] = "send"
  /\ IF "slow" \in on
     THEN delayed' = delayed \cup {<<conn[g], Msg(g)>>} /\ UNCHANGED queues
     ELSE Enqueue(conn[g], Msg(g)) /\ UNCHANGED delayed
  /\ pc' = [pc EXCEPT ![g] = "idle"]
  /\ UNCHANGED <<sent, conn, node, received, lost, faults>>

DelayOver ==
  /\ \E d \in delayed : Enqueue(d[1], d[2]) /\ delayed' = delayed \ {d}
  /\ UNCHANGED <<pc, sent, conn, node, received, lost, faults>>

(* Recv at the other end, which discards everything while it is crashed. *)
Recv(m) ==
  IF "peerCrash" \in on
  THEN lost' = lost \cup {m} /\ UNCHANGED received
  ELSE received' = Append(received, m) /\ UNCHANGED lost

(* The goroutine of Dial writes the queue of its transport to the          *)
(* connection, and Listen at the other end reads it.                       *)
Deliver(c) ==
  /\ queues[c] # << >>
  /\ Recv(Head(queues[c]))
  /\ queues' = [queues EXCEPT ![c] = Tail(@)]
  /\ UNCHANGED <<pc, sent, conn, node, delayed, faults>>

-----------------------------------------------------------------------------
(* Fault injection.  Crash without a duration starts no timer. *)

Crashes == {"crash", "peerCrash"}

(* Mutant: a crash of one second is taken for one without end. *)
StartsTimer_long(f, t) == f \notin Crashes \/ t > 1

StartsTimer(f, t) == f \notin Crashes \/ t > 0

Inject(f, t) ==
  /\ injected < MaxFaults
  /\ injected' = injected + 1
  /\ on' = on \cup {f}
  /\ timers' = IF StartsTimer(f, t)
               THEN timers \cup {[fault |-> f, at |-> now + t, no |-> injected]}
               ELSE timers
  /\ until' = [until EXCEPT ![f] = IF f \in Crashes /\ t = 0 THEN Forever ELSE now + t]
  /\ UNCHANGED <<net, now>>

(* Mutant: the timer is one second short. *)
Expire_early ==
  /\ \E t \in timers :
       /\ t.at <= now + 1
       /\ on' = on \ {t.fault}
       /\ timers' = timers \ {t}
  /\ UNCHANGED <<net, until, injected, now>>

Expire ==
  /\ \E t \in timers :
       /\ t.at <= now
       /\ on' = on \ {t.fault}
       /\ timers' = timers \ {t}
  /\ UNCHANGED <<net, until, injected, now>>

Tick ==
  /\ now < MaxTime
  /\ now' = now + 1
  /\ UNCHANGED <<net, on, timers, until, injected>>

Send(g)  == Dial(g) \/ Register(g) \/ Put(g)
Deliver1 == \E c \in DOMAIN queues : Deliver(c)

Next ==
  \/ \E g \in Senders : Call(g) \/ Send(g)
  \/ DelayOver \/ Deliver1 \/ Expire \/ Tick
  \/ \E f \in Faults, t \in Durations : Inject(f, t)

(* Goroutines go on, delays end, and a connection that has something to    *)
(* deliver delivers; nobody has to send or to inject a fault.              *)
Spec ==
  /\ Init /\ [][Next]_vars
  /\ \A g \in Senders : WF_vars(Send(g))
  /\ WF_vars(DelayOver) /\ WF_vars(Deliver1)

-----------------------------------------------------------------------------
(* Properties *)

(* No message arrives twice, whether it was queued or delayed, and by      *)
(* however many connections: votes and certificates count senders.         *)
AtMostOnce == IsInjective(received) /\ Range(received) \cap lost = {}

(* Goroutines that race to dial leave at most one connection each behind;  *)
(* from then on all of them share the registered one.                      *)
ConnectionsBounded == Len(queues) <= Cardinality(Senders)

(* A fault that is on has a timer that ends it, however faults overlap,    *)
(* unless the socket was crashed for good.                                 *)
FaultsEnd ==
  \A f \in on : (\E t \in timers : t.fault = f) \/ until[f] = Forever

(* Only a fault discards a message: all others are received in the end,    *)
(* also if their connection was replaced by one that another goroutine     *)
(* dialled.                                                                *)
EventuallyDelivered ==
  \A m \in Senders \X (1 .. MaxMsgs) :
    (m \in Sent) ~> (m \in Range(received) \cup lost)

(* socket.go: "drops every message send to NodeID last for t seconds" and  *)
(* likewise for the other faults: the first fault is on until its time is  *)
(* over.  A later one need not be: no injection stops the timer of an      *)
(* earlier fault of the same kind, which ends both.                        *)
FaultLasts == injected = 1 => \A f \in Faults : now < until[f] => f \in on
=============================================================================
