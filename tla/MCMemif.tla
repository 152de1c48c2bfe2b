-------------------------------- MODULE MCMemif --------------------------------
(* Every byte of the initial memory differs from the others and from what is   *)
(* written, so that a byte that comes from the wrong place is seen.             *)
EXTENDS Memif

MCContents == {[a \in Addrs |-> a + 2]}
MCByte == 0 .. Size + 2
MCTargetByte == Size + 2
===============================================================================
