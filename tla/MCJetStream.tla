----------------------------- MODULE MCJetStream -----------------------------
(* Model-checking instance of JetStream: sequence 2 is outside the filter. *)
EXTENDS JetStream

MCMatching == {1, 3, 4}
=============================================================================
