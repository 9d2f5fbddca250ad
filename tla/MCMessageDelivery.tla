-------------------------- MODULE MCMessageDelivery --------------------------
(* Small instances of MessageDelivery for TLC. *)
EXTENDS MessageDelivery

CONSTANTS p1, p2

OneMode  == [m \in Msgs |-> "default"]
TwoModes == [m \in Msgs |-> IF m = p1 THEN "plan" ELSE "default"]

Budget(drop, life, crash, cancel, repost, abort) ==
  [drop |-> drop, life |-> life, crash |-> crash,
   cancel |-> cancel, repost |-> repost, abort |-> abort]

SafetyLimit == Budget(1, 1, 1, 1, 0, 1)
LiveLimit   == Budget(1, 1, 0, 0, 1, 0)
=============================================================================
