------------------------------ MODULE MCSender ------------------------------
(***************************************************************************)
(* Sender on small instances: the nodes A and B with one address each,     *)
(* this node's own address and one that does not parse.                    *)
(***************************************************************************)
EXTENDS Sender, TLC

CONSTANTS A, B, a, b, me, bad

MCHosts == {A, B}
MCAddrs == {a, b, me, bad}
MCHostOf == [x \in MCAddrs |-> CASE x = a -> A
                                 [] x = b  -> B
                                 [] x = me -> Self
                                 [] OTHER  -> Unparsable]

\* At most one recipient on another node.
MCSole == {<<me, a>>, <<b>>, <<a, bad>>}

\* One recipient, always on the same node, or a submission that fails after
\* it has queued it.
MCHalf == {<<a>>, <<a, bad>>}

\* Two recipients on two nodes, or one of them.
MCPairOrOne == {<<a, b>>, <<a>>}

MailSymmetry == Permutations(Mails)
=============================================================================
