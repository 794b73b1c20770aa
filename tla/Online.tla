------------------------------- MODULE Online -------------------------------
(***************************************************************************)
(* Who is in the game: what enterPlayer and removePlayer change for every  *)
(* component that lives as long as the player does.                        *)
(***************************************************************************)
EXTENDS Players

VARIABLE inGame   \* the players in PlayerManager::players
=============================================================================
