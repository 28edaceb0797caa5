--------------------------- MODULE MCEventLoop ---------------------------
(* Constant values for EventLoop: two replicas, so that a super majority is *)
(* both of them; the modelled one is node 2.                               *)
EXTENDS EventLoop

MCNodes == 1 .. 2
=============================================================================
