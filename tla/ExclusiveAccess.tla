-------------------------- MODULE ExclusiveAccess --------------------------
(***************************************************************************)
(* What the data manager promises about access to nodes, without ids,      *)
(* storage or busy marks (data_node.hpp, "Exclusive access"): an exclusive *)
(* node has at most one holder, any other node any number of them.         *)
(***************************************************************************)
CONSTANTS Node, Exclusive, Holder

VARIABLE holders    \* node -> the holders of an accessor to it

Acquire(h, n) ==
    /\ n \in Exclusive => holders[n] = {}
    /\ \A m \in Node : h \notin holders[m]
    /\ holders' = [holders EXCEPT ![n] = @ \cup {h}]

Release(h, n) ==
    /\ h \in holders[n]
    /\ holders' = [holders EXCEPT ![n] = @ \ {h}]

Init == holders = [n \in Node |-> {}]

Next == \E h \in Holder, n \in Node : Acquire(h, n) \/ Release(h, n)

Spec == Init /\ [][Next]_holders

=============================================================================
