------------------------------- MODULE MCDtmTick -------------------------------
(* Two registers of one bit; nothing else is bounded.                         *)
EXTENDS DtmTick
===============================================================================
