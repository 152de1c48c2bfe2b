--------------------------------- MODULE Loader --------------------------------
(***************************************************************************)
(* load_elf: a program file's segments go to memory, through a memif_t, in *)
(* the order of the program headers, the zeros behind each file part with  *)
(* it; then the sections are searched for symbols.  Every check of the     *)
(* file is an assertion.  Two kinds of backend take the writes:            *)
(*  - "target": memory of the target, which does not run yet.  Memif shows *)
(*    that a write of memif_t changes exactly its bytes.  A write may be   *)
(*    skipped when all of it has been preloaded through a sideband.        *)
(*  - "hex": the lines of elf2hex's output.  A line that has not been      *)
(*    written prints as zeros, so it is one.  Clearing does nothing.       *)
(*                                                                         *)
(* A file is [class, size, data, entry, phdrs, phend, shdrs, shend,        *)
(* shstrndx]: the tables are given decoded, phend and shend are the file   *)
(* positions where they end, data is the contents that segments point to.  *)
(***************************************************************************)
EXTENDS Integers, Sequences

CONSTANTS
  Size,      \* bytes of the memory that is modelled
  Byte,
  Elfs,      \* the files that may be loaded
  Backends   \* the backends: [kind, base, width, depth, preloaded]

Addrs == 0..Size - 1

\* The fields of the file's records that load_elf reads, both formats alike.  end is
\* offset plus size; named means that the name ends within its string table.
Phdr == [type : Nat, offset : Nat, paddr : Nat, filesz : Nat, memsz : Nat]
Sym == [name : STRING, value : Nat, named : BOOLEAN]
Shdr == [name : STRING, type : Nat, end : Nat, named : BOOLEAN, syms : Seq(Sym)]

\* p_filesz > p_memsz is only modelled in the 64-bit format, where the
\* difference is no vector's size.
ASSUME LoaderConstants ==
  /\ Size \in Nat /\ 0 \in Byte
  /\ \A elf \in Elfs :
       /\ elf.size \in Nat /\ elf.data \in [0..elf.size - 1 -> Byte]
       /\ elf.phdrs \in Seq(Phdr) /\ elf.shdrs \in Seq(Shdr)
       /\ \A i \in DOMAIN elf.phdrs :
            elf.class = 32 => elf.phdrs[i].filesz <= elf.phdrs[i].memsz
  /\ \A b \in Backends :
       /\ b.kind \in {"target", "hex"} /\ b.preloaded \subseteq Addrs
       /\ b.base \in Nat /\ b.width \in Nat /\ b.depth \in Nat
       /\ b.kind = "hex" => b.preloaded = {}

VARIABLES
  elf, backend,
  load,     \* "no", "file", "zeros", "sections", "loaded", "aborted" or "threw"
  segment,  \* the loop variable over the program headers
  mem,
  entry, symbols

filevars == <<elf, backend>>
loadvars == <<filevars, load, segment, mem, entry, symbols>>

-------------------------------------------------------------------------------
(* What the file says.                                                       *)

Span(a, n) == a..a + n - 1

ph == elf.phdrs[segment]
PT_LOAD == 1
Loadable(p) == p.type = PT_LOAD /\ p.memsz # 0

Segments == {i \in DOMAIN elf.phdrs : Loadable(elf.phdrs[i])}
Covering(a) ==
  {i \in Segments : a \in Span(elf.phdrs[i].paddr, elf.phdrs[i].memsz)}

LastOf(S) == CHOOSE i \in S : \A j \in S : j <= i

\* The program's own idea of memory: the last segment that covers a byte.
Says(a) ==
  LET p == elf.phdrs[LastOf(Covering(a))]
      at == p.offset + (a - p.paddr)
  IN  IF a - p.paddr < p.filesz /\ at < elf.size THEN elf.data[at] ELSE 0

-------------------------------------------------------------------------------
(* memif_t::write on the two backends.                                       *)

Base(a) == a - (a % backend.width)

\* The lines that a write covers as a whole, and those it only touches.
Whole(a, n) ==
  {b \in Span(a, n) : Base(b) >= a /\ Base(b) + backend.width <= a + n}
Touched(a, n) == {Base(b) : b \in Span(a, n)}

\* A bug: the test for zeros takes the last byte for all.
ClearedCareless(a, n, src) ==
  IF \E b \in Whole(a, n) : src[b - a] = 0 THEN Whole(a, n) ELSE {}

\* htif_hexwriter_t::clear_chunk: whole lines that are all zero stay as they are.
Cleared(a, n, src) ==
  IF \A b \in Whole(a, n) : src[b - a] = 0 THEN Whole(a, n) ELSE {}

\* The assertions of read_chunk and write_chunk; an address below base wraps.
InDepth(b) == b >= backend.base /\ b < backend.base + backend.width * backend.depth

Fits(a, n, src) ==
  backend.kind = "hex" =>
    \A b \in Touched(a, n) : InDepth(b) \/ b \in Cleared(a, n, src)

Stored(a, n, src) ==
  LET kept == IF backend.kind = "hex" THEN Cleared(a, n, src) ELSE {}
  IN  [b \in Addrs |-> IF b \in Span(a, n) \ kept THEN src[b - a] ELSE mem[b]]

\* is_address_preloaded, of a subclass.
MaySkip(a, n) == backend.kind = "target" /\ Span(a, n) \subseteq backend.preloaded

Write(a, n, src, next) ==
  \/ /\ Fits(a, n, src)
     /\ mem' = Stored(a, n, src) /\ load' = next
  \/ /\ ~Fits(a, n, src)
     /\ load' = "aborted" /\ UNCHANGED mem
  \/ /\ MaySkip(a, n)
     /\ load' = next /\ UNCHANGED mem

-------------------------------------------------------------------------------
(* load_elf.                                                                 *)

\* What memory holds before; a sideband has put there what the program says.
Fresh(garbage) ==
  [a \in Addrs |-> IF a \in backend.preloaded /\ Covering(a) # {} THEN Says(a)
                   ELSE IF backend.kind = "hex" THEN 0 ELSE garbage]

LoadInit(file, b, garbage) ==
  /\ elf = file /\ backend = b
  /\ load = "no" /\ segment = 1
  /\ mem = Fresh(garbage)
  /\ entry = 0 /\ symbols = <<>>

Past(i) == IF i <= Len(elf.phdrs) THEN "file" ELSE "sections"

\* The file is opened again, by name.
Unreadable ==
  /\ load = "no" /\ load' = "aborted"
  /\ UNCHANGED <<filevars, segment, mem, entry, symbols>>

IsElf == elf.class \in {32, 64}

Header ==
  /\ load = "no"
  /\ entry' = IF IsElf THEN elf.entry ELSE entry
  /\ load' = IF IsElf /\ elf.phend <= elf.size THEN Past(1) ELSE "aborted"
  /\ UNCHANGED <<filevars, segment, mem, symbols>>

NextSegment == segment' = segment + 1

SkipSegment ==
  /\ load = "file" /\ ~Loadable(ph)
  /\ NextSegment /\ load' = Past(segment + 1)
  /\ UNCHANGED <<filevars, mem, entry, symbols>>

NoFilePart ==
  /\ load = "file" /\ Loadable(ph) /\ ph.filesz = 0
  /\ load' = "zeros"
  /\ UNCHANGED <<filevars, segment, mem, entry, symbols>>

FilePart ==
  /\ load = "file" /\ Loadable(ph) /\ ph.filesz # 0
  /\ IF ph.offset + ph.filesz <= elf.size
       THEN Write(ph.paddr, ph.filesz,
                  [k \in 0..ph.filesz - 1 |-> elf.data[ph.offset + k]], "zeros")
       ELSE load' = "aborted" /\ UNCHANGED mem
  /\ UNCHANGED <<filevars, segment, entry, symbols>>

\* The size of the zeros is unsigned: a negative one is too much for a vector.
Zeros ==
  /\ load = "zeros"
  /\ IF ph.memsz < ph.filesz
       THEN load' = "threw" /\ UNCHANGED <<mem, segment>>
       ELSE /\ Write(ph.paddr + ph.filesz, ph.memsz - ph.filesz,
                     [k \in 0..ph.memsz - ph.filesz - 1 |-> 0], Past(segment + 1))
            /\ NextSegment
  /\ UNCHANGED <<filevars, entry, symbols>>

\* SHT_NOBITS is tested as a bit.
NoBits(s) == (s.type \div 8) % 2 = 1

SectionsSound ==
  /\ elf.shend <= elf.size
  /\ elf.shstrndx \in DOMAIN elf.shdrs
  /\ elf.shdrs[elf.shstrndx].end <= elf.size
  /\ \A i \in DOMAIN elf.shdrs :
       elf.shdrs[i].named /\ (NoBits(elf.shdrs[i]) \/ elf.shdrs[i].end <= elf.size)

\* The last section of a name; the first section of the table, the null
\* section, counts as none.
Section(name) ==
  {i \in DOMAIN elf.shdrs :
     /\ elf.shdrs[i].name = name /\ ~NoBits(elf.shdrs[i])
     /\ \A j \in DOMAIN elf.shdrs :
          elf.shdrs[j].name = name /\ ~NoBits(elf.shdrs[j]) => j <= i}
  \ {1}

SymbolTable ==
  UNION {IF Section(".strtab") = {} THEN {} ELSE {elf.shdrs[i].syms} : i \in Section(".symtab")}

SymbolsSound == \A syms \in SymbolTable : \A i \in DOMAIN syms : syms[i].named

\* Later symbols of a name replace earlier ones.
Resolve(syms) ==
  [n \in {syms[i].name : i \in DOMAIN syms} |->
     LET last == CHOOSE i \in DOMAIN syms :
                   syms[i].name = n /\ \A j \in DOMAIN syms : syms[j].name = n => j <= i
     IN  syms[last].value]

Sections ==
  /\ load = "sections"
  /\ IF SectionsSound /\ SymbolsSound
       THEN /\ load' = "loaded"
            /\ symbols' = IF SymbolTable = {} THEN symbols
                          ELSE Resolve(CHOOSE syms \in SymbolTable : TRUE)
       ELSE load' = "aborted" /\ UNCHANGED symbols
  /\ UNCHANGED <<filevars, segment, mem, entry>>

LoadNext ==
  \/ Unreadable \/ Header \/ SkipSegment \/ NoFilePart \/ FilePart \/ Zeros
  \/ Sections

===============================================================================
