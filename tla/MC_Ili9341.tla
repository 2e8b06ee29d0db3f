----------------------------- MODULE MC_Ili9341 -----------------------------
(***************************************************************************)
(* Model-checking instance of Ili9341: a small corner of the panel, and    *)
(* clear's color_data buffer shrunk so that its chunk loop takes several   *)
(* turns.                                                                   *)
(***************************************************************************)
EXTENDS Ili9341

CONSTANT MaxCalls   \* calls of the driver explored per behaviour

\* State constraint: behaviours of at most MaxCalls calls.
WithinCalls == calls <= MaxCalls
=============================================================================
