------------------------------- MODULE MCApi --------------------------------
(***************************************************************************)
(* Api with two workers and two projects, each with a span, and a span     *)
(* without a project.                                                      *)
(***************************************************************************)
EXTENDS Api, TLC

CONSTANTS w1, w2, A, B, root, k1, g1, g2, sA, sB, s0

MCProjectOf == sA :> A @@ sB :> B @@ s0 :> None

\* Workers, chosen keys, generated keys, and the projects with their spans.
Swap == A :> B @@ B :> A @@ sA :> sB @@ sB :> sA
Stay == A :> A @@ B :> B @@ sA :> sA @@ sB :> sB
Symmetry ==
    {f @@ g @@ h @@ m : f \in Permutations({w1, w2}), g \in Permutations({root, k1}),
                        h \in Permutations({g1, g2}), m \in {Swap, Stay}}
=============================================================================
