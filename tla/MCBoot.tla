--------------------------------- MODULE MCBoot --------------------------------
(* Every short command line with a small program, and one command line with     *)
(* every program of two segments.                                               *)
EXTENDS Boot

Word(text) == [kind |-> "word", text |-> text]
Plus(text, value) == [kind |-> "plus", text |-> text, value |-> value]
Long(text, value) == [kind |-> "long", text |-> text, value |-> value]
Short(letters) == [kind |-> "short", letters |-> letters]
End == [kind |-> "end"]

MCNoProgram == Word("none")
MCHere == {Word("pk"), End}
MCInstalled == {Word("pk"), Word("bbl"), Word("a/b")}
MCSlashed == {Word("a/b")}

MCArguments ==
  {Word("pk"), Word("bbl"), Word("a/b"), Word("none"), Plus("foo", None),
   Plus("rfb", None), Plus("rfb", Word("1")), Plus("chroot", Word("p")),
   Plus("chroot", None), Plus("signature", Word("g")), Plus("disk", Word("d")),
   Plus("permissive", None), Plus("permissive-off", None),
   Long("rfb", None), Long("rfb", Word("2")), Long("chroot", None),
   Long("chroot", Word("q")), Long("signature", None), Long("help", None),
   Long("help", Word("x")), Long("foo", None), Short(<<"x", "h">>), End}

\* A +permissive section with one argument in it, before or after another.
MCSections ==
  UNION {{<<Plus("permissive", None), a, Plus("permissive-off", None), b>>,
          <<a, Plus("permissive", None), b, Plus("permissive-off", None), Word("pk")>>} :
         a \in MCArguments, b \in MCArguments}

MCArgvs == UNION {[1..n -> MCArguments] : n \in 0..3} \cup MCSections

-------------------------------------------------------------------------------

MCData == [i \in 0..5 |-> IF i \in {2, 3, 4} THEN 0 ELSE i + 1]

Segment(type, paddr, offset, filesz, memsz) ==
  [type |-> type, paddr |-> paddr, offset |-> offset, filesz |-> filesz, memsz |-> memsz]

Sec(name, type, syms) ==
  [name |-> name, type |-> type, end |-> 6, named |-> TRUE, syms |-> syms]
Symbol(name, value) == [name |-> name, value |-> value, named |-> TRUE]

MCSymbols ==
  <<Symbol("tohost", 1), Symbol("fromhost", 2), Symbol("begin_signature", 5),
    Symbol("end_signature", 3), Symbol("tohost", 4)>>
MCTable == <<Sec("", 0, <<>>), Sec(".strtab", 3, <<>>), Sec(".symtab", 2, MCSymbols)>>

File(phdrs, shdrs) ==
  [class |-> 64, size |-> 6, data |-> MCData, entry |-> 1, phdrs |-> phdrs, phend |-> 6,
   shdrs |-> shdrs, shend |-> 6, shstrndx |-> 1]

\* Segments anywhere in memory, also one that does not fit the file, one that
\* is not to be loaded, and one with a negative rest.
MCSegments ==
  {Segment(1, a, 0, f, f + z) : a \in 0..5, f \in {1, 3}, z \in {0, 1, 2, 4}}

MCFew ==
  {Segment(1, a, o, f, f + z) : a \in {0, 1, 4}, o \in {1, 2}, f \in {0, 2, 4}, z \in {0, 3}}
    \cup {Segment(0, 0, 0, 1, 1), Segment(1, 0, 4, 3, 3), Segment(1, 0, 0, 2, 1)}

InMemory(p) == p.paddr + p.memsz <= Size

MCPrograms ==
  {File(<<p, q>>, MCTable) : p \in {s \in MCSegments : InMemory(s)}, q \in {s \in MCFew : InMemory(s)}}

\* Files with one thing that is not in order each.
MCGood == File(<<Segment(1, 1, 0, 2, 3)>>, MCTable)

MCOdd ==
  {MCGood, [MCGood EXCEPT !.class = 0], [MCGood EXCEPT !.class = 32], [MCGood EXCEPT !.phend = 7],
   [MCGood EXCEPT !.shend = 7], [MCGood EXCEPT !.shstrndx = 4], [MCGood EXCEPT !.shdrs[2].end = 7],
   [MCGood EXCEPT !.shdrs[2].named = FALSE], [MCGood EXCEPT !.shdrs[2].type = 8],
   [MCGood EXCEPT !.shdrs = <<>>], [MCGood EXCEPT !.shdrs[3].syms[1].named = FALSE],
   [MCGood EXCEPT !.shdrs[3].syms = SubSeq(MCSymbols, 2, 3)]}

MCElfs == MCPrograms \cup MCOdd

Target(preloaded) ==
  [kind |-> "target", base |-> 0, width |-> 1, depth |-> 0, preloaded |-> preloaded]
Hex(base, width, depth) ==
  [kind |-> "hex", base |-> base, width |-> width, depth |-> depth, preloaded |-> {}]

MCGoodBackends ==
  {Target({}), Target(0..4), Target({4, 5, 6})}
    \cup {Hex(0, 2, 4), Hex(2, 2, 2)}

\* And those whose arguments elf2hex rejects, but for the first.
MCBackends ==
  MCGoodBackends \cup {Hex(4, 4, 1), Hex(1, 2, 2), Hex(0, 3, 1), Hex(0, 0, 1), Hex(0, 2, 0)}

Run(what, args, file, to) ==
  [program |-> what, argv |-> args, elf |-> file, backend |-> to]

Loading(files, backends) ==
  {Run(IF b.kind = "hex" THEN "elf2hex" ELSE "htif", <<Word("pk")>>, file, b) :
     file \in files, b \in backends}

MCInvocations ==
  {Run("htif", args, MCGood, Target({})) : args \in MCArgvs}
  \cup Loading(MCPrograms, MCGoodBackends) \cup Loading(MCOdd, MCBackends)
===============================================================================
