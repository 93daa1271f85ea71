-------------------------- MODULE MCRateLimiter --------------------------
(* Three cells that share the limiter.                                     *)
EXTENDS RateLimiter, TLC

CONSTANTS a, b, c

ThreeCallers == {a, b, c}
Symmetry == Permutations(ThreeCallers)

=============================================================================
