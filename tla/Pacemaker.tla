---------------------------- MODULE Pacemaker ----------------------------
(***************************************************************************)
(* The pacemaker of one replica (pacemaker/): the view counter, the        *)
(* channel of entered views, and the two controllers that count timeout    *)
(* messages (TMO) and view-change messages (VMO) per view.  The module     *)
(* declares no variables: its operators map a pacemaker record to the      *)
(* record after the call, so that EventLoop can interleave them between    *)
(* goroutines and the protocol modules can run them inside a handler.      *)
(*                                                                         *)
(* A TMO or a VMO is reduced to its view and its sender.  The HighQC of a  *)
(* TMO is read by the protocol, never by the pacemaker, and the HighQC of  *)
(* a VMO is read by nobody.                                                *)
(***************************************************************************)
EXTENDS Naturals, Sequences, FiniteSets

CONSTANT N      \* config.N(): the size of the network

ASSUME NAssumption == N \in Nat \ {0}

-----------------------------------------------------------------------------
(* TimeoutController and ViewChangeController: the same code twice.        *)

(* Mutant: every replica has to send one. *)
superMajority_all(nodes) == Cardinality(nodes) >= N

(* len(timeouts[view]) > n*2/3, integer arithmetic. *)
superMajority(nodes) == Cardinality(nodes) > (N * 2) \div 3

(* Mutant: a message after the super majority builds another TC. *)
AddTmo_again(timeouts, view, node) ==
  LET after == [timeouts EXCEPT ![view] = @ \cup {node}]
  IN  [isBuilt |-> superMajority(after[view]), timeouts |-> after]

(* AddTmo: a view that already has its super majority takes no further     *)
(* message; the message that completes it is the only one to build a TC.   *)
AddTmo(timeouts, view, node) ==
  LET after == [timeouts EXCEPT ![view] = @ \cup {node}]
  IN  IF superMajority(timeouts[view])
      THEN [isBuilt |-> FALSE, timeouts |-> timeouts]
      ELSE [isBuilt |-> superMajority(after[view]), timeouts |-> after]

AddVmo(viewChanges, view, node) ==
  LET after == [viewChanges EXCEPT ![view] = @ \cup {node}]
  IN  IF superMajority(viewChanges[view])
      THEN [isBuilt |-> FALSE, viewChanges |-> viewChanges]
      ELSE [isBuilt |-> superMajority(after[view]), viewChanges |-> after]

-----------------------------------------------------------------------------
(* Pacemaker *)

NewPacemaker(Views) ==
  [curView     |-> 0,
   newViewChan |-> << >>,
   timeouts    |-> [v \in Views |-> {}],
   viewChanges |-> [v \in Views |-> {}]]

(* ProcessRemoteTmo and ProcessRemoteVmo drop what is below curView. *)
ProcessRemoteTmo(pm, view, node) ==
  LET added == AddTmo(pm.timeouts, view, node)
  IN  IF view < pm.curView
      THEN [isBuilt |-> FALSE, pm |-> pm]
      ELSE [isBuilt |-> added.isBuilt,
            pm      |-> [pm EXCEPT !.timeouts = added.timeouts]]

ProcessRemoteVmo(pm, view, node) ==
  LET added == AddVmo(pm.viewChanges, view, node)
  IN  IF view < pm.curView
      THEN [isBuilt |-> FALSE, pm |-> pm]
      ELSE [isBuilt |-> added.isBuilt,
            pm      |-> [pm EXCEPT !.viewChanges = added.viewChanges]]

(* AdvanceView enters view + 1 and announces it, or does nothing. *)
AdvanceView(pm, view) ==
  IF view < pm.curView
  THEN pm
  ELSE [pm EXCEPT !.curView = view + 1, !.newViewChan = Append(@, view + 1)]
=============================================================================
