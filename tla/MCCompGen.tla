------------------------------ MODULE MCCompGen ------------------------------
(***************************************************************************)
(* One program of up to three pieces out of all there are.                 *)
(***************************************************************************)
EXTENDS CompGen, TLC

MCPool == Pieces

\* An r9 in all bounds, and one that wraps where 4 is added.
MCSeeds == {(6 :> 9 @@ 7 :> 3 @@ 9 :> 4), (6 :> 2 @@ 7 :> 15 @@ 9 :> 253)}

=============================================================================
