----------------------------- MODULE MCTrading -----------------------------
(***************************************************************************)
(* Three players, each with an item or none, and one taro among them.      *)
(***************************************************************************)
EXTENDS Trading, TLC

CONSTANTS ann, bob, cyd, gum, hat

ThreeInven == (ann :> <<Of(gum, 1)>>) @@ (bob :> <<Of(hat, 1)>>) @@ (cyd :> <<NoItem>>)
ThreeMoney == (ann :> 1) @@ (bob :> 0) @@ (cyd :> 0)

=============================================================================
