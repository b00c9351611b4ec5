------------------------------ MODULE MCIrqPath -----------------------------
(***************************************************************************)
(* The interrupt path with a short FIFO and a few characters.              *)
(***************************************************************************)
EXTENDS IrqPath
=============================================================================
