---------------------------- MODULE MCLifecycle ----------------------------
(* Lifecycle for TLC: every configuration with up to two sources of each kind. *)
EXTENDS Lifecycle

TwoClients == {<<"client", 1>>, <<"client", 2>>}
=============================================================================
