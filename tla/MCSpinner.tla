----------------------------- MODULE MCSpinner -----------------------------
(* Spinner on a narrow terminal, with two spinners one after the other.     *)
EXTENDS Spinner
=============================================================================
