----------------------------- MODULE MCImporter -----------------------------
(* Model-checking instance of Importer. *)
EXTENDS Importer
=============================================================================
