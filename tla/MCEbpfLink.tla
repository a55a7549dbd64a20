----------------------------- MODULE MCEbpfLink -----------------------------
(* Small instances of the link model.                                         *)
EXTENDS EbpfLink
==============================================================================
