---------------------------- MODULE MCX402Exact ----------------------------
(* Instances of X402Exact for TLC: two calls for one page and one for a     *)
(* dearer page, a cap that lets through either page once more or not at     *)
(* all, and time for a receipt and a window to pass.                        *)
EXTENDS X402Exact, TLC

CONSTANTS c1, c2, c3, pa, pb, r1, r2

MCCalls  == {c1, c2, c3}
MCPages  == {pa, pb}
MCPageOf == c1 :> pa @@ c2 :> pa @@ c3 :> pb
MCPrice  == pa :> 1 @@ pb :> 2
MCReqs   == {r1, r2}
MCRough  == {c3}

Symmetry == Permutations({c1, c2}) \cup Permutations(MCReqs)
=============================================================================
