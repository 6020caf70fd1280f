---------------------------- MODULE MCMockServer ----------------------------
(* Small instances of MockServer: addresses that can be dialled (Open) or are *)
(* behind the NAT (Shut), over TCP, QUIC and, without override, WebRTC direct. *)
EXTENDS MockServer, TLC

Symmetry == Permutations(Request)
=============================================================================
