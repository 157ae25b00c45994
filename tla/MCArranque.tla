----------------------------- MODULE MCArranque -----------------------------
(* Model checking of module Arranque: its constants are model values and    *)
(* numbers, given in the cfg file.                                          *)
EXTENDS Arranque
=============================================================================
