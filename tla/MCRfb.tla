---------------------------------- MODULE MCRfb --------------------------------
(* A frame of two chunks at one of two addresses; sizes and addresses that are   *)
(* refused.                                                                      *)
EXTENDS Rfb

Config(w, h, b) == [width |-> w, height |-> h, bpp |-> b]

MCConfigs == {Config(2, 2, 32), Config(1, 1, 32), Config(2, 2, 24)}

===============================================================================
