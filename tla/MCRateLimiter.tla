--------------------------- MODULE MCRateLimiter ---------------------------
(* An instance of RateLimiter for TLC. *)
EXTENDS RateLimiter

(***************************************************************************)
(* A subject seen from two addresses (one budget), and an anonymous client *)
(* at one of them, for data and for the status (two budgets).              *)
(***************************************************************************)
ThreeBudgets ==
    { [principal |-> "s", address |-> "a1", isStatus |-> FALSE],
      [principal |-> "s", address |-> "a2", isStatus |-> FALSE],
      [principal |-> Nobody, address |-> "a1", isStatus |-> FALSE],
      [principal |-> Nobody, address |-> "a1", isStatus |-> TRUE] }
=============================================================================
