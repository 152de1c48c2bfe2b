-------------------------------- MODULE MCHtif --------------------------------
(* A target that proxies system calls, reports an exit code, prints, reads   *)
(* and identifies devices, on a backend with 64-byte chunks (htif_pthread).  *)
EXTENDS Htif

Cmd(d, c, p) == [dev |-> d, cmd |-> c, payload |-> p]

Exit(code) == Cmd(SyscallProxy, 0, 2 * code + 1)
Syscall(a) == Cmd(SyscallProxy, 0, a)
Getc == Cmd(Bcd, 0, 0)
Putc(ch) == Cmd(Bcd, 1, ch)
Identify(d, a) == Cmd(d, MaxCommands - 1, a * MaxCommands + MaxCommands - 1)

\* One command of each kind; the identify command names an address that is not
\* aligned, and an int of IntSize values does not hold the exit code.
MCSendable ==
  {Exit(8), Syscall(64), Getc, Putc(97), Identify(Bcd, 65), Cmd(2, 0, 1)}

MCRequests ==
  {[n |-> "other", code |-> 0], [n |-> "exit", code |-> 2],
   [n |-> "bad", code |-> 0]}

===============================================================================
