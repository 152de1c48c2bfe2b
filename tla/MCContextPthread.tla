--------------------------- MODULE MCContextPthread ---------------------------
(* Three contexts: the thread of main() and two it may create, so that a    *)
(* context can create another, and control can come back by another path.   *)
EXTENDS ContextPthread, TLC
CONSTANTS h1, h2
MCContexts == {Root, h1, h2}
===============================================================================
