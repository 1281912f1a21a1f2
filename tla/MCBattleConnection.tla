------------------------- MODULE MCBattleConnection -------------------------
(* Model values and symmetries for checking BattleConnection. *)
EXTENDS BattleConnection, TLC

CONSTANTS c1, c2, c3, b1, b1b, b2

\* One bearer for each account, or a second device for black's.
OneDevice == (b1 :> "black") @@ (b2 :> "white")
TwoDevices == (b1 :> "black") @@ (b1b :> "black") @@ (b2 :> "white")

ConnSymmetry == Permutations(Conns)
=============================================================================
