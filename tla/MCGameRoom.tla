----------------------------- MODULE MCGameRoom -----------------------------
(* GameRoom with sessions that can be exchanged for one another. *)
EXTENDS GameRoom, TLC

SessionSymmetry == Permutations(Sessions)

\* The behaviours without their fairness, for the runs that check safety only.
SafeSpec == Init /\ [][Next]_roomVars
=============================================================================
