---------------------------- MODULE WindowGroups ----------------------------
(***************************************************************************)
(* What the cockpit may expect of whoever switches native windows for it:   *)
(* wishes are carried out a window at a time, perhaps not all of them, but   *)
(* never after a later one has been begun.                                  *)
(***************************************************************************)
EXTENDS Naturals, Sequences

CONSTANT Windows

VARIABLES
    wishes,     \* the switches asked for so far, oldest first
    round,      \* the latest of them that was begun; 0 when none was
    visible     \* the windows on the user's screen

vars == <<wishes, round, visible>>

Wish == [hide : SUBSET Windows, show : SUBSET Windows]

Init ==
    /\ wishes = <<>>
    /\ round = 0
    /\ visible \in SUBSET Windows

\* the cockpit asks for more; what was asked for stands
Ask ==
    /\ Len(wishes) <= Len(wishes')
    /\ \A i \in DOMAIN wishes : wishes'[i] = wishes[i]
    /\ UNCHANGED <<round, visible>>

\* some windows of one wish, the one begun last or a later one
Serve ==
    /\ \E r \in DOMAIN wishes :
          /\ round <= r
          /\ round' = r
          /\ visible \ visible' \subseteq wishes[r].hide
          /\ visible' \ visible \subseteq wishes[r].show
    /\ UNCHANGED wishes

Spec == Init /\ [][Ask \/ Serve]_vars
=============================================================================
