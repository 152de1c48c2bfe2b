------------------------------- MODULE Arguments -------------------------------
(***************************************************************************)
(* htif_t::parse_arguments: the command line, up to the program to run.    *)
(* getopt_long, external, takes it one argument at a time, or one letter   *)
(* of a cluster of short options; each result is one step.  With '-' in    *)
(* front of the option letters it gives other arguments back in order.     *)
(*                                                                         *)
(* An argument is the part of its text that decides how it is read:        *)
(*   [kind |-> "word", text]           no option                           *)
(*   [kind |-> "plus", text, value]    +text or +text=value                *)
(*   [kind |-> "long", text, value]    --text or --text=value              *)
(*   [kind |-> "short", letters]       -letters                            *)
(*   [kind |-> "end"]                  --                                  *)
(* A value is an argument itself, or None.                                 *)
(***************************************************************************)
EXTENDS Naturals, Sequences

CONSTANT None

VARIABLES
  argv,             \* argv[1] on
  optind,
  letter,           \* getopt's place in a cluster, 0 outside
  opterr,           \* FALSE between +permissive and +permissive-off
  sig_file,
  chroot,
  dynamic_devices,  \* the displays of the frame buffers
  targs,
  parse             \* "on", "help", "threw" or "done"

options == <<sig_file, chroot, dynamic_devices>>
parsevars == <<argv, optind, letter, opterr, options, targs, parse>>

-------------------------------------------------------------------------------

HTIF_LONG_OPTIONS ==
  [help |-> "no_argument", rfb |-> "optional_argument",
   disk |-> "required_argument", signature |-> "required_argument",
   chroot |-> "required_argument"]

IsOption(text) == text \in DOMAIN HTIF_LONG_OPTIONS
Arity(text) == HTIF_LONG_OPTIONS[text]

\* +rfb, and +rfb=, +disk=, +signature= and +chroot=.
IsPlusOption(a) ==
  /\ a.kind = "plus"
  /\ a.text \in {"rfb", "disk", "signature", "chroot"}
  /\ a.value # None \/ a.text = "rfb"

\* Whatever getopt returns as itself, and none of the + arguments matches.
IsOther(a) ==
  \/ a.kind = "word"
  \/ /\ a.kind = "plus" /\ ~IsPlusOption(a)
     /\ a.text \notin {"permissive", "permissive-off"}

Parsing == parse = "on" /\ optind <= Len(argv)
Arg == argv[optind]

ParseInit(args) ==
  /\ argv = args
  /\ optind = 1 /\ letter = 0 /\ opterr = TRUE
  /\ sig_file = None /\ chroot = None /\ dynamic_devices = <<>>
  /\ targs = <<>> /\ parse = "on"

\* The four options, however they were spelled.
Apply(text, value) ==
  /\ parse' = CASE text = "help" -> "help" [] text = "disk" -> "threw" [] OTHER -> parse
  /\ dynamic_devices' = IF text = "rfb" THEN Append(dynamic_devices, value)
                                        ELSE dynamic_devices
  /\ sig_file' = IF text = "signature" THEN value ELSE sig_file
  /\ chroot' = IF text = "chroot" THEN value ELSE chroot

\* '?'.
Unknown ==
  /\ parse' = IF opterr THEN "threw" ELSE parse
  /\ UNCHANGED options

\* One letter of a cluster; h is the only short option, and takes no value.
ShortOption ==
  /\ Parsing /\ Arg.kind = "short"
  /\ LET n == letter + 1 IN
       /\ IF Arg.letters[n] = "h" THEN Apply("help", None) ELSE Unknown
       /\ IF n < Len(Arg.letters)
            THEN letter' = n /\ UNCHANGED optind
            ELSE letter' = 0 /\ optind' = optind + 1
  /\ UNCHANGED <<argv, opterr, targs>>

\* A value that is missing is the next argument, whatever that is.
TakesNext(a) ==
  IsOption(a.text) /\ Arity(a.text) = "required_argument" /\ a.value = None

LongOption ==
  /\ Parsing /\ Arg.kind = "long"
  /\ IF TakesNext(Arg)
     THEN IF optind = Len(argv)
            THEN Unknown /\ optind' = optind + 1
            ELSE Apply(Arg.text, argv[optind + 1]) /\ optind' = optind + 2
     ELSE /\ IF IsOption(Arg.text) /\ (Arity(Arg.text) = "no_argument" => Arg.value = None)
               THEN Apply(Arg.text, Arg.value)
               ELSE Unknown
          /\ optind' = optind + 1
  /\ UNCHANGED <<argv, letter, opterr, targs>>

PlusOption ==
  /\ Parsing /\ IsPlusOption(Arg)
  /\ Apply(Arg.text, Arg.value)
  /\ optind' = optind + 1
  /\ UNCHANGED <<argv, letter, opterr, targs>>

Permissive ==
  /\ Parsing /\ Arg.kind = "plus" /\ Arg.text \in {"permissive", "permissive-off"}
  /\ optind' = optind + 1
  /\ LET off == Arg.text = "permissive-off" IN
       IF opterr = off
         THEN parse' = "threw" /\ UNCHANGED opterr
         ELSE opterr' = off /\ UNCHANGED parse
  /\ UNCHANGED <<argv, letter, options, targs>>

IgnoreOther ==
  /\ Parsing /\ IsOther(Arg) /\ ~opterr
  /\ optind' = optind + 1
  /\ UNCHANGED <<argv, letter, opterr, options, targs, parse>>

\* done_processing: the rest belongs to the target.
TakeRest(first) ==
  /\ targs' = SubSeq(argv, first, Len(argv))
  /\ parse' = IF targs' = <<>> THEN "threw" ELSE "done"
  /\ optind' = Len(argv) + 1
  /\ UNCHANGED <<argv, letter, opterr, options>>

\* A bug: optind is already past the argument that getopt has returned.
FirstOtherDropped == Parsing /\ IsOther(Arg) /\ opterr /\ TakeRest(optind + 1)

FirstOther == Parsing /\ IsOther(Arg) /\ opterr /\ TakeRest(optind)

EndOfOptions == Parsing /\ Arg.kind = "end" /\ TakeRest(optind + 1)

NoMore == parse = "on" /\ optind > Len(argv) /\ TakeRest(optind)

ParseNext ==
  \/ ShortOption \/ LongOption \/ PlusOption \/ Permissive
  \/ IgnoreOther \/ FirstOther \/ EndOfOptions \/ NoMore

-------------------------------------------------------------------------------
(* What a command line means, from the usage text's point of view.           *)

Positions == 1..Len(argv)

\* The arguments that are the value of the option before them.
IsValue[i \in 0..Len(argv)] ==
  /\ i > 1 /\ argv[i - 1].kind = "long" /\ TakesNext(argv[i - 1])
  /\ ~IsValue[i - 1]

Switches(k) ==
  {i \in 1..k - 1 : ~IsValue[i] /\ argv[i].kind = "plus"
                      /\ argv[i].text \in {"permissive", "permissive-off"}}

\* Argument k is between a +permissive and its +permissive-off.
Tolerated(k) ==
  \E i \in Switches(k) :
    argv[i].text = "permissive" /\ \A j \in Switches(k) : j <= i

\* Where the program to run would be named.
MayStart(k) ==
  /\ ~IsValue[k]
  /\ \/ IsOther(argv[k]) /\ ~Tolerated(k)
     \/ k > 1 /\ argv[k - 1].kind = "end" /\ ~IsValue[k - 1]

\* The values that the first n arguments give an option, in order.
Gives(text, i) ==
  /\ ~IsValue[i]
  /\ argv[i].kind = "long" \/ IsPlusOption(argv[i])
  /\ argv[i].text = text
ValueOf(i) == IF TakesNext(argv[i]) THEN argv[i + 1] ELSE argv[i].value
ValuesOf(text) ==
  LET values[n \in 0..Len(argv)] ==
        IF n = 0 THEN <<>>
        ELSE IF Gives(text, n) THEN Append(values[n - 1], ValueOf(n))
        ELSE values[n - 1]
  IN  values

LastOr(s) == IF s = <<>> THEN None ELSE s[Len(s)]

\* The target gets the first argument outside +permissive sections that is no
\* option and no option's value, or the first after "--", and all that follow;
\* the options before it all hold, the last of each kind; those behind it are
\* the target's own.
TargetArgs ==
  parse = "done" =>
    \E k \in Positions :
      /\ MayStart(k) /\ targs = SubSeq(argv, k, Len(argv))
      /\ \A j \in 1..k - 1 : ~MayStart(j)
      /\ dynamic_devices = ValuesOf("rfb")[k - 1]
      /\ sig_file = LastOr(ValuesOf("signature")[k - 1])
      /\ chroot = LastOr(ValuesOf("chroot")[k - 1])

===============================================================================
