-------------------------------- MODULE MCP3 --------------------------------
(* Model checking of module P3: its constants are model values and numbers, *)
(* given in the cfg files.                                                  *)
EXTENDS P3
=============================================================================
