----------------------------- MODULE MCHtifPthread -----------------------------
(* Every small instance will do: bytes are told apart by their numbers.         *)
EXTENDS HtifPthread
===============================================================================
