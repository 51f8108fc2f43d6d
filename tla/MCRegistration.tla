---------------------------- MODULE MCRegistration ----------------------------
(* Registration for TLC. *)
EXTENDS Registration, TLC

\* Sound for the safety runs: every order outside CompOrders, every webhook
\* invocation, every refund request and every door behaves alike.
Symmetry ==
  Permutations(Orders \ CompOrders) \cup Permutations(Hooks)
    \cup Permutations(Refunders) \cup Permutations(Doors)
=============================================================================
