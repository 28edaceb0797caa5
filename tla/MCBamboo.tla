----------------------------- MODULE MCBamboo -----------------------------
EXTENDS Bamboo

(* The leaders that sha1 gives four and three replicas from view 4 on. *)
Leaders4 == [v \in 4 .. MaxView + 3 |-> <<3, 3, 2, 2, 1, 4, 1, 3, 3, 4>>[v - 3]]
Leaders3 == [v \in 4 .. MaxView + 3 |-> <<3, 3, 1, 1, 1, 3, 2, 1, 2, 3>>[v - 3]]

(* The first of a set of messages in a fixed order: by view, type, sender. *)
Rank(m) ==
  LET type   == CHOOSE i \in 1 .. 4 : <<"block", "vote", "vmo", "tmo">>[i] = m.type
      sender == IF m.type = "block" THEN 0 ELSE m.node
  IN  (m.view * 4 + type) * (N + 1) + sender
First(msgs) == CHOOSE m \in msgs : \A n \in msgs : Rank(m) <= Rank(n)
=============================================================================
