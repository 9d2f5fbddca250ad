-------------------------- MODULE MCVersionedField --------------------------
(* Small instances of VersionedField for TLC. *)
EXTENDS VersionedField

CONSTANTS c1, c2, u1, u2, u3, f1, h1

OneWriter  == [j \in Calls |-> c1]
TwoWriters == [j \in Calls |-> IF j = u3 THEN c2 ELSE c1]

(* the values the clients' schema refuses: what an update of their own makes of the *)
(* column, or a change of the hub's                                                 *)
WithOwnUpdate == {s \in Seq(Jobs) : u2 \in ToSet(s)}
WithHubWrite  == {s \in Seq(Jobs) : h1 \in ToSet(s)}

Budget(drop, error, restart) == [drop |-> drop, error |-> error, restart |-> restart]

SafetyLimit == Budget(1, 1, 1)
=============================================================================
