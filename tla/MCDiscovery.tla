---------------------------- MODULE MCDiscovery -----------------------------
(* Small instances of Discovery: three servers, compose waits for two. *)
EXTENDS Discovery

InCompose(impl) == [impl |-> impl, compose |-> TRUE, diskFails |-> FALSE]

\* The three clients in compose and each alone, with a disk that may fail.
EverySetup == [impl : {"go", "rust", "js"}, compose : BOOLEAN, diskFails : {TRUE}]
InComposeOnly == {InCompose("go"), InCompose("rust")}
=============================================================================
