--------------------------------- MODULE MCDtm ---------------------------------
(* Words of two values: a register of RV64 has four, so that every address and  *)
(* datum has two words that matter.                                             *)
EXTENDS Dtm

MCCsrCalls == {<<"SET", 0>>, <<"WRITE", 1>>}
===============================================================================
