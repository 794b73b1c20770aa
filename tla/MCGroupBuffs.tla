---------------------------- MODULE MCGroupBuffs ----------------------------
(***************************************************************************)
(* Three players with nanos that overlap: the same bit given to a group by *)
(* two of them, to itself by another, and a nano without a power.          *)
(***************************************************************************)
EXTENDS GroupBuffs, TLC

CONSTANTS ann, bob, cyd, n1, n2, run, jump

OnGroup(b) == [bit |-> b, target |-> "group"]
OnSelf(b) == [bit |-> b, target |-> "self"]

TunedNanos ==
    (ann :> (n1 :> OnGroup(run) @@ n2 :> OnSelf(jump)))
    @@ (bob :> (n1 :> OnGroup(run) @@ n2 :> OnGroup(jump)))
    @@ (cyd :> (n1 :> OnSelf(run) @@ n2 :> NoSkill))

=============================================================================
