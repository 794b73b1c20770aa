------------------------------ MODULE Players ------------------------------
(***************************************************************************)
(* What the modules of the world share: players, each the CNSocket and the *)
(* Player it stands for in PlayerManager::players.                         *)
(***************************************************************************)
CONSTANTS
    Player,
    None           \* a null pointer, no instance owner, no group

ASSUME PlayersAssumption == None \notin Player
=============================================================================
