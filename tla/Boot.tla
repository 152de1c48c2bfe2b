---------------------------------- MODULE Boot ---------------------------------
(***************************************************************************)
(* The two programs that load an ELF file, from their arguments on:        *)
(*  - "htif": an emulator.  htif_t's constructor parses the arguments      *)
(*    (Arguments); start() looks for the program, loads it (Loader), looks *)
(*    up its symbols, and resets the target.                               *)
(*  - "elf2hex": prints the program as lines of hex digits.                *)
(***************************************************************************)
EXTENDS Arguments, Loader, FiniteSets

CONSTANTS
  Invocations,  \* the runs: [program, argv, elf, backend]
  Here,         \* the arguments that name an existing file
  Installed,    \* and those that name one in PREFIX TARGET_DIR
  Slashed,      \* the arguments with a '/'
  NoProgram,    \* the argument "none"
  Garbage,      \* what target memory holds
  AddrSize      \* the number of values of an addr_t

ASSUME BootConstants ==
  /\ AddrSize \in Nat \ {0}
  /\ \A inv \in Invocations :
       /\ inv.program \in {"htif", "elf2hex"}
       /\ inv.argv \in Seq({inv.argv[i] : i \in DOMAIN inv.argv})
       /\ inv.elf \in Elfs /\ inv.backend \in Backends
       /\ inv.program = "elf2hex" <=> inv.backend.kind = "hex"
       /\ inv.backend.base + inv.backend.width * inv.backend.depth <= Size

VARIABLES
  program,
  phase,   \* "args", "load", "reset", "printed", "usage" or "threw"
  path,
  tohost_addr, fromhost_addr, sig_addr, sig_len,
  image    \* the lines printed, each a sequence of bytes

addresses == <<tohost_addr, fromhost_addr, sig_addr, sig_len>>
bootvars == <<program, phase, path, addresses, image>>
vars == <<parsevars, loadvars, bootvars>>

-------------------------------------------------------------------------------

Init ==
  \E inv \in Invocations :
    /\ program = inv.program
    /\ ParseInit(inv.argv)
    /\ LoadInit(inv.elf, inv.backend, Garbage)
    /\ phase = "args" /\ path = None
    /\ tohost_addr = 0 /\ fromhost_addr = 0 /\ sig_addr = 0 /\ sig_len = 0
    /\ image = <<>>

Parse ==
  /\ program = "htif" /\ phase = "args"
  /\ ParseNext
  /\ UNCHANGED <<loadvars, bootvars>>

\* load_program's search; a name with a '/' is not looked for in the prefix.
Found(file) ==
  IF file \in Here THEN "here"
  ELSE IF file \notin Slashed /\ file \in Installed THEN "installed" ELSE None

\* start(), up to load_elf.
Start ==
  /\ program = "htif" /\ phase = "args" /\ parse = "done"
  /\ IF targs[1] = NoProgram
       THEN phase' = "reset" /\ UNCHANGED path
       ELSE /\ path' = Found(targs[1])
            /\ phase' = IF path' = None THEN "threw" ELSE "load"
  /\ UNCHANGED <<parsevars, loadvars, program, addresses, image>>

Load ==
  /\ phase = "load"
  /\ LoadNext
  /\ UNCHANGED <<parsevars, bootvars>>

Has(names) == names \subseteq DOMAIN symbols

\* start(), from load_elf's return on; lengths are unsigned.
UseSymbols ==
  /\ program = "htif" /\ phase = "load" /\ load = "loaded"
  /\ IF Has({"tohost", "fromhost"})
       THEN tohost_addr' = symbols["tohost"] /\ fromhost_addr' = symbols["fromhost"]
       ELSE UNCHANGED <<tohost_addr, fromhost_addr>>
  /\ IF Has({"begin_signature", "end_signature"})
       THEN /\ sig_addr' = symbols["begin_signature"]
            /\ sig_len' = (symbols["end_signature"] - sig_addr') % AddrSize
       ELSE UNCHANGED <<sig_addr, sig_len>>
  /\ phase' = "reset"
  /\ UNCHANGED <<parsevars, loadvars, program, path, image>>

IsPowerOf2(n) == n # 0 /\ \E k \in 0..n : n = 2^k

\* elf2hex's main, up to load_elf.
CheckArgs ==
  /\ program = "elf2hex" /\ phase = "args"
  /\ phase' = IF /\ IsPowerOf2(backend.width) /\ IsPowerOf2(backend.depth)
                 /\ backend.base % backend.width = 0
                THEN "load" ELSE "usage"
  /\ UNCHANGED <<parsevars, loadvars, program, path, addresses, image>>

\* Each line begins with its last byte.
PrintLines ==
  /\ program = "elf2hex" /\ phase = "load" /\ load = "loaded"
  /\ image' = [line \in 1..backend.depth |->
                 [j \in 1..backend.width |->
                    mem[backend.base + line * backend.width - j]]]
  /\ phase' = "printed"
  /\ UNCHANGED <<parsevars, loadvars, program, path, addresses>>

Next == Parse \/ Start \/ Load \/ UseSymbols \/ CheckArgs \/ PrintLines

Spec == Init /\ [][Next]_vars

-------------------------------------------------------------------------------

\* Segments overlap in address a.
Overlap(a) == Cardinality(Covering(a)) > 1

\* When the target is reset, memory holds what the program says, and what it
\* held before elsewhere; only where segments overlap can a preloaded byte be
\* wrong, as an earlier segment may be written and the last one skipped.
ImageLoaded ==
  program = "htif" /\ phase = "reset" /\ path # None =>
    \A a \in Addrs :
      IF Covering(a) = {} THEN mem[a] = Garbage
      ELSE mem[a] = Says(a) \/ (Overlap(a) /\ a \in backend.preloaded)

\* The lines that elf2hex prints, read from their ends, are the program, with
\* zeros between the segments; only where segments overlap can a byte that
\* should be cleared be an earlier one.  Nothing but zeros is missing.
HexImage ==
  phase = "printed" =>
    /\ \A line \in 1..backend.depth, j \in 1..backend.width :
         LET a == backend.base + line * backend.width - j
             byte == image[line][j]
         IN  IF Covering(a) = {} THEN byte = 0
             ELSE byte = Says(a) \/ (Overlap(a) /\ Says(a) = 0)
    /\ \A a \in Addrs : Covering(a) # {} /\ ~InDepth(a) => Says(a) = 0

\* The two together: the program arrives as it is, on either backend.
ProgramArrives == ImageLoaded /\ HexImage

===============================================================================
