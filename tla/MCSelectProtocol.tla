--------------------------- MODULE MCSelectProtocol ---------------------------
(* The module of the runs of SelectProtocol; its constants are plain values. *)
EXTENDS SelectProtocol
=============================================================================
