---------------------------- MODULE MCNatRouter ----------------------------
(* Small instances of NatRouter: two servers, two ports, few flows. *)
EXTENDS NatRouter, TLC

NoRemap == <<>>
RemapTwo == <<1, 2>>         \* hotel WiFi: the listen port leaves as another
Symmetry == Permutations(Server)
=============================================================================
