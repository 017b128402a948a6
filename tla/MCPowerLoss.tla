------------------------------ MODULE MCPowerLoss -----------------------------
(***************************************************************************)
(* A small instance of PowerLoss.                                          *)
(***************************************************************************)
EXTENDS PowerLoss, MCEngine
===============================================================================
