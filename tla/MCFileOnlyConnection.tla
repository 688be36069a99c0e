------------------------- MODULE MCFileOnlyConnection -------------------------
(***************************************************************************)
(* FileOnlyConnection with a few packets of each kind: a queue of more     *)
(* than one packet, more than one acknowledgement and a close at any step. *)
(***************************************************************************)
EXTENDS FileOnlyConnection
===============================================================================
