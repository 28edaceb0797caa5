-------------------------- MODULE MCLongestChain --------------------------
(***************************************************************************)
(* LongestChain with slow replicas: up to MaxHeld of the messages to them  *)
(* are held back (socket.Send under Slow) and arrive when nobody has       *)
(* anything to do, before, between or after the timeouts, or never.        *)
(* Everything else is delivered at once, to the lowest replica that has    *)
(* something to do; timers expire only when nobody has.                    *)
(***************************************************************************)
EXTENDS LongestChain, FiniteSetsExt

CONSTANTS SlowNo,         \* bound: the number of slow replicas
          MaxHeld,        \* bound: the number of messages that are held back
          HeldViews       \* bound: the views of these messages

VARIABLES slow, held, delays

slowVars == <<slow, held, delays>>

(* The leaders that sha1 gives four replicas from view 4 on. *)
Leaders4 == [v \in 4 .. MaxView + 3 |-> <<3, 3, 2, 2, 1, 4, 1, 3, 3, 4>>[v - 3]]

(* A fixed order of messages: by view, type, author and sender. *)
Rank(m) ==
  LET type == CHOOSE i \in 1 .. 3 : <<"block", "vote", "tmo">>[i] = m.type
      node == IF m.type = "block" THEN 0 ELSE m.node
      from == IF m.type = "tmo" THEN 0 ELSE m.from
  IN  ((m.view * 3 + type) * (N + 1) + node) * (N + 1) + from
First(msgs) == CHOOSE m \in msgs : \A n \in msgs : Rank(m) <= Rank(n)

Hold(m) ==
  /\ m.to \in slow /\ m.view \in HeldViews /\ delays < MaxHeld
  /\ delays' = delays + 1
  /\ held' = held \cup {m}
  /\ net' = net \ {m}
  /\ UNCHANGED <<conf, rep, hand, slow>>

Release(m) ==
  /\ held' = held \ {m}
  /\ net' = net \cup {m}
  /\ UNCHANGED <<conf, rep, hand, slow, delays>>

Act(r) ==
  \/ NotarizingEvent(r) /\ UNCHANGED slowVars
  \/ /\ hand[r] = None /\ ~ViewEntered(r) /\ rep[r].advancing = {}
     /\ LET m == First(Receivable(r))
        IN  \/ Hold(m)
            \/ (Handle(r, m) \/ TakeBlock(r, m)) /\ UNCHANGED slowVars

SlowInit == StartAll /\ slow \in kSubset(SlowNo, Replicas) /\ held = {} /\ delays = 0

SlowNext ==
  LET busy  == {r \in Replicas : Works(r)}
      timed == {r \in Replicas : Alive(r) /\ TimerRuns(r)}
  IN  \/ busy # {} /\ Act(Min(busy))
      \/ busy = {} /\ timed # {} /\ Expire(Min(timed)) /\ UNCHANGED slowVars
      \/ busy = {} /\ \E m \in held : Release(m)

SlowSpec == SlowInit /\ [][SlowNext]_<<vars, slowVars>>

-----------------------------------------------------------------------------
(* A slow replica, which may panic on votes or blocks that overtake each   *)
(* other, costs the others nothing: when everything is handled they are    *)
(* alive, in the last view, have notarized and committed the same blocks,  *)
(* and the block of one of the last two views is among them.               *)
SlowReplicaTolerated ==
  AllHandled =>
    \A r, q \in Replicas \ slow :
      /\ Alive(r) /\ CurView(rep[r]) >= MaxView
      /\ rep[r].notarizedChain = rep[q].notarizedChain
      /\ rep[r].committed = rep[q].committed
      /\ View(SL!Tip(rep[r])) >= MaxView - 1
=============================================================================
