----------------------------- MODULE MCSasayaki -----------------------------
(***************************************************************************)
(* Small instances of Sasayaki for TLC: two clients a and b.               *)
(***************************************************************************)
EXTENDS Sasayaki, TLC

CONSTANTS a, b

\* Connections are interchangeable, and so are the goroutines of a client.
Symmetry == Permutations(Conns) \cup Permutations(Workers)

\* What is mended: every place, every place but one.
AllMended == Places
NoDelete == Places \ {"delete"}

\* How many random values and texts a and b may use.
Limit31 == a :> 3 @@ b :> 1
Limit32 == a :> 3 @@ b :> 2
Limit33 == a :> 3 @@ b :> 3
=============================================================================
