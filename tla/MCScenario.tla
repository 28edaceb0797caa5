---------------------------- MODULE MCScenario ----------------------------
(***************************************************************************)
(* Single schedules of Bamboo, too deep for a search of all of them.       *)
(* A schedule has phases.  In a phase the links hold some messages back    *)
(* (Held), a set of timers expires at its start (Timers), and then the     *)
(* lowest replica that has something to do acts until nobody has.  Every   *)
(* step is a step of Bamboo's Next.                                        *)
(***************************************************************************)
EXTENDS MCBamboo, FiniteSetsExt

CONSTANTS Held(_, _),     \* Held(phase, m): m is not delivered in this phase
          Timers(_),      \* Timers(phase): the <<replica, view>> that expire
          Phases          \* the number of phases

VARIABLE phase

allVars == <<vars, phase>>

ScenarioInit == Init /\ phase = 1

Deliverable(r) == {m \in Receivable(r) : ~Held(phase, m)}

Acting(r) ==
  \/ CurView(rep[r]) = 0 /\ FindLeaderFor(1) = r
  \/ hand[r] # None \/ ViewEntered(r) \/ Deliverable(r) # {}

Act(r) ==
  \/ KickOff(r) \/ Event(r)
  \/ /\ ~ViewEntered(r) /\ Deliverable(r) # {}
     /\ LET m == First(Deliverable(r)) IN Handle(r, m) \/ OnBlock(r, m)

Expiring == {t \in Timers(phase) : t[1] \notin rep[t[1]].pm.timeouts[t[2]]}

ScenarioNext ==
  LET busy == {r \in Replicas : Acting(r)}
  IN  \/ /\ Expiring # {}
         /\ Timeout(Min({t[1] : t \in Expiring}))
         /\ UNCHANGED phase
      \/ /\ Expiring = {} /\ busy # {}
         /\ Act(Min(busy))
         /\ UNCHANGED phase
      \/ /\ Expiring = {} /\ busy = {} /\ phase < Phases
         /\ phase' = phase + 1
         /\ UNCHANGED vars

ScenarioSpec == ScenarioInit /\ [][ScenarioNext]_allVars

-----------------------------------------------------------------------------
(* Replica 2 stays behind in view 6, where it collects votes for the block *)
(* of view 6, while 1, 3 and 4 time out up to view 8.  The block of view 8 *)
(* is proposed by replica 1, which misses the block of view 4, and 3 and 4 *)
(* vote for it.  Then the block of view 6 reaches 3 and 4.                 *)
ForkHeld(p, m) ==
  \/ m.type = "block" /\ m.to = 1 /\ m.view \in 4 .. 6
  \/ m.type = "block" /\ m.view = 4 /\ p <= 2
  \/ m.type = "block" /\ m.view = 5 /\ p <= 4
  \/ m.type = "block" /\ m.view = 6 /\ p <= 8
  \/ m.type = "block" /\ m.view = 9 /\ p <= 9
  \/ m.type = "block" /\ m.view = 8 /\ p <= 7
  \/ m.type = "tmo" /\ m.view <= 5 /\ m.to # 1
  \/ p >= 6 /\ m.to = 2 /\ ~(m.type = "vote" /\ m.view = 6)
ForkTimers(p) ==
  LET view == IF p = 2 THEN 4 ELSE IF p = 4 THEN 5 ELSE IF p \in {6, 7} THEN p ELSE 0
  IN  IF view = 0 THEN {} ELSE {1, 3, 4} \X {view}
=============================================================================
