----------------------------- MODULE SaveStore -----------------------------
(***************************************************************************)
(* What the two servers together promise a player about a character: it    *)
(* is resumed from what was last stored, it is played by one session at a  *)
(* time, and leaving stores everything that was earned.  Only a crash may  *)
(* drop what has not been stored yet.  The promise of a character can be   *)
(* voided; it costs no other character anything.                           *)
(***************************************************************************)
EXTENDS Naturals

CONSTANT Character

VARIABLES
    online,   \* the characters that are being played
    live,     \* the progress of each character that is online, 0 otherwise
    stored,   \* the progress a restart would find
    void      \* the characters nothing is promised of any more, blank in the others

vars == <<online, live, stored, void>>

Init ==
    /\ online = {}
    /\ live = [c \in Character |-> 0]
    /\ stored = [c \in Character |-> 0]
    /\ void = {}

\* A session resumes exactly what is stored.
Resume(c) ==
    /\ c \notin online \cup void
    /\ online' = online \cup {c}
    /\ live' = [live EXCEPT ![c] = stored[c]]
    /\ UNCHANGED <<stored, void>>

Play(c) ==
    /\ c \in online
    /\ live' = [live EXCEPT ![c] = @ + 1]
    /\ UNCHANGED <<online, stored, void>>

Save(c) ==
    /\ c \in online
    /\ stored' = [stored EXCEPT ![c] = live[c]]
    /\ UNCHANGED <<online, live, void>>

\* Leaving is one step: the character is never offline with unsaved progress.
Leave(c) ==
    /\ c \in online
    /\ online' = online \ {c}
    /\ stored' = [stored EXCEPT ![c] = live[c]]
    /\ live' = [live EXCEPT ![c] = 0]
    /\ UNCHANGED void

Crash ==
    /\ online' = {}
    /\ live' = [c \in Character |-> 0]
    /\ UNCHANGED <<stored, void>>

Blanked(f, S) == [c \in Character |-> IF c \in S THEN 0 ELSE f[c]]
Forfeit(S) ==
    /\ void' = void \cup S
    /\ online' = online \ S
    /\ live' = Blanked(live, S) /\ stored' = Blanked(stored, S)

Next ==
    \/ \E c \in Character : Resume(c) \/ Play(c) \/ Save(c) \/ Leave(c)
    \/ \E S \in SUBSET Character : Forfeit(S)
    \/ Crash

Spec == Init /\ [][Next]_vars

=============================================================================
