------------------------------ MODULE MCOutbox ------------------------------
(***************************************************************************)
(* Outbox on small instances, with the nodes and addresses of MCSender.    *)
(***************************************************************************)
EXTENDS Outbox, TLC

CONSTANTS A, B, a, b

MCHosts == {A, B}
MCAddrs == {a, b}
MCHostOf == (a :> A) @@ (b :> B)

\* One recipient, on either node.
MCOne == {<<a>>, <<b>>}

\* The mails, and the nodes together with their addresses, may be exchanged.
NodeSwap == (A :> B) @@ (B :> A) @@ (a :> b) @@ (b :> a)
Symmetry == {p @@ q : p \in Permutations(Mails),
                      q \in {NodeSwap, [x \in {A, B, a, b} |-> x]}}
=============================================================================
