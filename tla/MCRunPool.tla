----------------------------- MODULE MCRunPool -----------------------------
(* RunPool on three cells, of which a and b are SnapStart cells.           *)
EXTENDS RunPool

CONSTANTS a, b, c

ThreeCells == <<a, b, c>>
TwoCells == <<a, b>>
SnapPair == {a, b}

=============================================================================
