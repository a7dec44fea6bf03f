----------------------------- MODULE MCStartup -----------------------------
(***************************************************************************)
(* Startup on a small instance: keys of two bytes, and a password that is  *)
(* typed with and without a space.                                         *)
(***************************************************************************)
EXTENDS Startup, TLC

MCKeys == {<<10, 0>>, <<0, 191>>}
MCPasswords == {"pw", "pw "}
MCTrimSpace == [typed \in MCPasswords |-> IF typed = "pw " THEN "pw" ELSE typed]

Symmetry == Permutations(Procs)
=============================================================================
