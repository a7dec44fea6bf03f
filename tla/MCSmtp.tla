------------------------------- MODULE MCSmtp -------------------------------
(***************************************************************************)
(* SmtpServer on small instances: this node and two others, an address of  *)
(* this one and of the first, and one that does not parse.  The names of   *)
(* the connections say where they come from.                               *)
(***************************************************************************)
EXTENDS SmtpServer

CONSTANTS A, B, me, a, bad, client, fromA

MCNodes == {Self, A, B}
MCAddrs == {me, a, bad}
MCHostOf == [x \in MCAddrs |-> CASE x = me -> Self [] x = a -> A
                                 [] OTHER -> Unparsable]
MCModeOf == [c \in Conns |-> IF c = client THEN "internal" ELSE "external"]

\* The overlay listener never hands out a connection from the node itself,
\* and RemoteAddr is not looked at on the internal one.
MCRemoteOf == [c \in Conns |-> A]
=============================================================================
