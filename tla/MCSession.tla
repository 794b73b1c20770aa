----------------------------- MODULE MCSession -----------------------------
(***************************************************************************)
(* Session on small instances: two runs of the client, an account with two *)
(* characters or two accounts with one each.                               *)
(***************************************************************************)
EXTENDS Session, TLC

CONSTANTS cl1, cl2, hero, sidekick, loner, acc1, acc2

TwoClients == {cl1, cl2}
ClientSymmetry == Permutations(TwoClients)

OneAccountOwner == (hero :> acc1) @@ (sidekick :> acc1)
OneHero == hero :> acc1
TwoAccountOwner == (hero :> acc1) @@ (loner :> acc2)

=============================================================================
