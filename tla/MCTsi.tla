--------------------------------- MODULE MCTsi ---------------------------------
(* Three words of memory and msip, on a link whose words have 8 values, so    *)
(* that addresses take two of them.                                           *)
EXTENDS Tsi

MCAddrs == {0, 4, 8, 56}

===============================================================================
