----------------------------- MODULE MCGcpList -----------------------------
(* GcpList for TLC.                                                          *)
EXTENDS GcpList
=============================================================================
