# A verification development for riscv-fesvr

riscv-fesvr is the front-end server of a tethered RISC-V target: it loads a
program into the target's memory and then serves it, over two words of that
memory, with system calls, a console and an exit status. This directory holds
TLA+ models of it, TLC configurations that check them on small instances, and
TLAPS proofs of what matters most for every instance.

## 1. The system

| component | source | state | operations |
|---|---|---|---|
| coroutines | `context.cc` | per context: `flag`, `mutex`, `cond`, `creator`; thread-local `cur` | `init`, `switch_to`, `current`; two builds (ucontext, pthread) |
| run loop | `htif.cc` | `tohost_addr`, `fromhost_addr`, `fromhost_queue`, `exitcode`, `signal_exit`, `stopped` | `start`, `run`, `stop`, `exit_code`, `handle_signal` |
| devices | `device.cc` | per device 256 handlers; `pending_reads` of the bcd | dispatch, identify, null commands, console read and write, `tick` |
| terminal | `term.cc` | termios | `read` (polls), `write` |
| syscall proxy | `syscall.cc` | table of calls, `fds_t`, chroot | `handle_syscall`, `dispatch`, one method per call |
| memory interface | `memif.cc` | none | splits reads and writes into aligned chunks; merges partial ones |
| tsi backend | `tsi.cc` | `in_data`, `out_data`, two contexts | chunks as requests on a word stream; `tick`, `send_word`, `recv_word`, `reset` |
| dtm backend | `dtm.cc` | `req_wait`, `resp_wait`, `req_buf`, `resp_buf`, `running`, `current_hart` | chunks as abstract commands of a debug module; `tick` handshake; `reset` |
| pthread backend | `htif_pthread.cc` | two byte queues, two contexts | `send`, `recv`, `read`, `write` |
| frame buffer | `rfb.cc` | two frames, `size`, `memif`, a thread | configure, serve a VNC client |
| ELF loader, hex writer | `elfloader.cc`, `htif_hexwriter.cc`, `elf2hex.cc` | a map of lines | load segments, clear bss, print |
| arguments | `htif.cc`, `option_parser.cc` | `opterr`, `optind`, target arguments | `parse_arguments`, `option_parser_t::parse` |

How they interact. A backend object *is* an `htif_t` (inheritance). The host
side runs `htif_t::run` in a coroutine (or thread) of its own; the simulator that
owns the object runs in another and passes control with `switch_to`. `run` reads
and writes target memory through `memif_t`, which calls the backend's
`read_chunk`/`write_chunk`/`clear_chunk`. A nonzero word in `tohost` becomes a
`command_t` that `device_list_t` passes to a device, and devices answer through a
callback that queues a word for `fromhost`. The only lock-like thing between the
host and the simulator is that one coroutine runs at a time; between the host and
the target *program* there is nothing but the discipline on the two words.

What is hard, and which properties matter:

* **Coroutines**: the pthread build stores flags outside the mutex. Exactly one
  context must run, and no wakeup may be lost.
* **Run loop**: the target runs between any two accesses of the host. Commands
  must be taken once and in order, answers must reach the right command once and
  in order, results must be in memory before their answer, and the exit status
  must be the one the program reported.
* **Devices**: reads of the console are answered in later iterations.
* **tsi**: words carry no tag, writes are posted, and the two sides wait for
  each other.
* **dtm**: an answer per request; registers of the halted hart restored whatever
  fails; autoexec off in time; the debug module switched on and off.
* **system calls**: the target's file numbers and the host's descriptors are two
  tables that both reuse their lowest free entry; a call changes one and then the
  other, may fail in between, and another thread opens and closes descriptors too.
* **rfb**: a second thread that opens, uses and forgets the descriptor the run loop
  sends frames to, with one mutex that the run loop only tries.
* **loader**: bytes that two segments, or a segment and a clear, both touch.
* **arguments**: a parser with modes.

`PROJECT.json` lists every hazard at its line with the properties that watch it.

## 2. Modules

### `Coroutine` and `ContextPthread` (`context.cc`; proofs in `PthreadProofs`)

`Coroutine` is what `context_t` promises and, action for action, the ucontext
build: `init` enters the new context, which comes straight back; `switch_to`
moves control in one step. `ContextPthread` is the pthread build: each store to a
flag, lock, signal, test and wait is a step (`pc[t]` names the line), so that
threads interleave freely; condition variables may wake up spuriously, and
mutexes are free or held. The refinement mapping takes `cur` to the one context
that has control, which is the one whose flag is set or that is inside a call and
has not passed control on. Stores take effect in program order: the flags are
volatile `int`s, and the model does not consider a weaker memory. The assertion
`this != cur` is a precondition of the calls.

### `HtifChannel` and `Htif` (`htif.cc`, `device.cc`, `syscall.cc`, `term.cc`)

`HtifChannel` is what a target program may rely on, over four histories: what it
has `sent`, what has been `taken`, the `answers` given, and what it `got`.
`Htif` is the run loop. `pc` is the place in `run()`:

    start -> run -> clear -> clearMerge -> handle -> (call ->) fill -> respond
              |                              |                          |
              +-> tick <---------------------+--------------------------+
                   tick -> put -> (putRead -> putMerge ->) run;  run -> stop -> done

`mem` holds `tohost` and `fromhost`; a write of one of them that is narrower than
the backend's chunk reads the chunk and merges (`memif_t::write`): two steps, with
the target free to run in between. `Align` is the chunk in 64-bit words: 8 for
`htif_pthread_t`, 1 for a chunk no wider than the word. The assumption
`HtifLayout` says that the two words lie in chunks of their own. The programs of
the RISC-V test suite align both to 64 bytes; nothing in fesvr checks it, and
without it `ImplementsChannel` is false.

`buf` holds the target's `magicmem` areas and identify areas: the request, and in
`reply` the command for which the host has put a result there. Of the system
calls only `sys_exit` changes the state of the loop, so a request is an exit, any
other call, or a call number that is not in the table. `dead` is the end by
`abort`, by an exception (which ends in `abort`) or by a second signal. An `int`
has `IntSize` values.

The target program is external. `TargetSends` writes `tohost` only when it reads
0 there, and prepares a buffer only when no earlier command still uses it;
`TargetReceives` takes an answer and clears `fromhost`.

### `Memif` and `MemifProofs` (`memif.cc`, `clear_chunk` of `htif.cc`)

A call of `memif_t` is a first chunk that it covers in part (`head`), a last one
(`tail`, which the code handles second), and the aligned rest (`body`) in chunks of
at most `MaxChunk` bytes. `pc` is the place in `read` or `write`; `addr`, `len` and
`bytes` are the parameters the code advances. A partial chunk of a write is fetched
and merged in one step and stored in another. A chunk goes to the backend one unit of
`Align` bytes per step, and the target may store between any two. As every backend
executes the accesses in order, the moments at which they take effect are the
steps, posted writes or not. A write whose rest is all zero becomes `clear_chunk`,
whose default is in `htif.cc`; `dtm_t` has its own (`Dtm`), and the hex writer's does
nothing, which belongs to the loader (section 6). A misaligned accessor throws, and
nobody catches it (`threw`). `held`, `stored` and `raced` are histories: what the range of a read
has held, where the target has stored, and where it did so in a chunk that was
being merged.

`Htif` repeats the merge for `tohost` and `fromhost` at the grain of its own words.

### `HtifPthread` (`htif_pthread.cc`; proofs in `PthreadProofs`)

Two deques of bytes, `th_data` and `ht_data`, and the control (`cur`), which moves as
in `Coroutine`. `read` and `recv` loop: test, hand over, test again. After `run()` the
host only hands over (`hpc = "over"`). Bytes are their numbers in the stream, so that
`StreamsIntact` can say that none is lost, doubled or moved.

### `RemoteMemory`, `Tsi` and `TsiProofs` (`tsi.cc`)

`RemoteMemory` is the promise: writes are posted, arrive once each and in order;
a read returns what the words hold at some moment of the read, after all earlier
writes. Both `tsi_t` and `dtm_t` implement it. `Tsi` has the two coroutines (`cur`), the two queues, and the frames word
by word: command, two words of address, two of length less one, data. The words
of the link have `WordBase` values, so that an address takes two of them in a
small instance as well. The serial adapter behind `tick()` is external: it decodes
a frame and executes one request at a time. `tick()` is `TickOut` or `TickIn`;
`send_word` and `recv_word` have the effects of its halves. The refinement maps
the words of a read in progress to `result \o out_data`; `posted` is a history.

### `Dmi` and `DtmTick` (`dtm.cc`: `do_command`, `tick`, `return_resp`; proofs in `DtmProofs`)

`Dmi` is what the rest of `dtm_t` relies on: a request is executed once, between
the call and its return, and the call returns its result. `DtmTick` is the
handshake: `commanding` and `cur` say where the host is, `req_wait` and `resp_wait`
are the two flags. A `tick()` is one action together with the cycle of hardware
it belongs to: without a response (`TickWaits`), with one (`TickResponds`), or
with a handover and its response in the same cycle (`TickAtOnce`). The assertion
of `tick()` is both a guard and an invariant, `ResponseExpected`; that of
`do_command` ends the process (`aborted`), as the debug module may report a
failure.

### `DebugModule` and `Dtm` (`dtm.cc`, the rest; proofs in `DtmProofs` and `DtmRegisterProofs`)

`DebugModule` is external: the registers as `debug_defines.h` describes them, and
harts that execute progbuf one instruction at a time. The words it keeps are those of
`dtm_t`: an error stays until it is cleared, no command starts while one is pending,
a register touched while a command runs is an error, `dmactive` 0 resets all of it.

In `Dtm` a routine is the sequence of its accesses (`todo`), written as the code
writes it: `read_chunk(a, len)` is `halt`, two `save_reg`, a command, `len` times a
command, two `restore_reg`, `resume`. Each access is one step, which `DtmTick`
justifies, and the debug module and the harts may take any steps in between. Steps
that only touch the host's own variables (`SetHart`, `Save`, `Copy`, a `check`
without an error) are entries of `todo` as well, and so are calls of other routines and
the rounds of a loop that are left, which `Enter` replaces by their accesses when it is
their turn. The polls of `halt`, `resume` and `run_abstract_command` are accesses that
are enabled when the poll ends.
`probe` is `producer_thread` up to `htif_t::run`.

`rd`, `loaded`, `posted`, `csr`, `kept` and `writes` are histories. The refinement to
`RemoteMemory` shows it the words that harts load until the last access of a
`read_chunk`, and then what it returns: the two must be the same. As the memory also
admits stores of the harts' own programs, `NoOtherStore` says separately that a
command stores nothing that was not written.

### `Descriptors`, `Syscall` and `SyscallProofs` (`syscall.cc`)

`Descriptors` is what the target may rely on: an open takes the lowest free number, a
number reaches the file it was opened as until it is closed, and nothing else in the
process changes that. A close that reports an error leaves its number in doubt, and the
promise ends if the target names it again: POSIX leaves open whether the descriptor is
still there, and `sys_close` keeps the entry.

`Syscall` has the kernel's table (`host`), `fds_t::fds`, the descriptors of the frame
buffer's thread (`sockets`), and `call`, the call in progress. openat and close take two
steps, the host's and the table's; chdir one per byte that it reads; every other call is
one step. Files are numbered by when they were opened, so that "the same file" means
something. `reply` is what the last call did for the target: the file it reached, the
names it was asked for and those it gave the host, what it put in the buffer. Names are
sequences of letters and slashes, as chroot cuts and joins them. The host may fail any
call. The run loop's part of a call (dispatch, exit status, result before answer) is in
`Htif`.

### `Rfb` (`rfb.cc`; proofs in `PthreadProofs`)

`main` and `rfb` are the program counters of the run loop and of `thread_main`; each
system call, lock and unlock is a step. Chunks of a frame carry where and when they were
copied, so that a frame that was sent can be told from a mixture. The client is external:
it sends packets of a few kinds, stops reading, and leaves at any point; the kernel gives
out the lowest free descriptor, and system calls of the target take and return others. A
write to a client that is gone may end the process by SIGPIPE, an exception that nobody
catches ends it too (`ended`). The spin on `memif`, and the copies of `memif` and `addr`
in two threads, are taken as sequentially consistent.

### `Arguments`, `Loader` and `Boot` (`htif.cc`, `elfloader.cc`, `htif_hexwriter.cc`, `elf2hex.cc`)

`Arguments` is `parse_arguments` with one action per way an argument is handled;
`opterr` is the mode that `+permissive` changes, `letter` the place in a cluster of short
options. An argument is a record of its kind, its name and its value. `Loader` is
`load_elf` over a record of the file's headers: one action per segment and per section,
its assertions, and the two memories it can load: a target with preloaded ranges
(`preload_aware_memif_t`) and the hex writer, whose reads and writes of lines are modelled
and whose clear does nothing. `Boot` composes the two as the two programs do: arguments,
the search for the file, the load, the symbols and reset, or the printing.

## 3. Runs

| run | question | bounds |
|---|---|---|
| `context_handoff` | one context in control; no lost wakeup; implements `Coroutine` | 3 contexts, no bound on switches: with three, a context can be signalled by one thread while another is still on its way out of `switch_to` |
| `htif_protocol` | the channel, replies before answers, console order, the exit status, nothing after an exit; commands handled, answers delivered, reads answered, runs ended | 3 commands of 7 kinds, 2 characters, 64-byte chunks: three commands fill `tohost`, the handler and an answer queue at once; a misaligned identify, an exit code beyond an `int`, an odd signature |
| `memif_chunks` | chunks fit the backend; reads return what was there, accessors one value; writes land; neighbours survive | every address, length and source over {0, 1} in 8 bytes of memory; units of 2 bytes and chunks of 2 units, so that head, tail, and a rest of two chunks of two units all occur; one store of the target of 1, 2 or 4 bytes; one call, as `memif_t` keeps no state between calls |
| `pthread_streams` | both streams intact; nobody waits for ever for bytes that are there | 4 bytes each way in transfers of up to 3, so that transfers of the two sides overlap and leave rests |
| `tsi_memory` | the link is a memory; reads return, posted writes arrive | 2 chunk calls of up to 2 words and the write of `reset()`, 4 words of memory, any switching |
| `tsi_reset` | *violated*: does the interrupt of `reset()` arrive? | as above |
| `dtm_tick` | a request is executed once, and its own result returned, whatever the delays | 2 registers of one bit; nothing else is bounded |
| `dtm_memory` | the harts are a memory; all start in the program | 2 RV64 harts, one chunk of up to 3 registers before and one after `reset()` (three make two rounds of autoexec, and the debug module is on before the one and off before the other), 1 step of the programs |
| `dtm_faults` | registers and harts survive failing commands; csr calls; RV32; every routine returns | 2 harts, chunks anywhere, up to 2 registers |
| `syscall` | numbers keep their files, descriptors their owners, names their meaning; chdir stays in its buffer; main finds its arguments | 8 descriptors, of which 6 are taken at the start, 3 calls that change descriptors or the directory, 1 socket: open, close in doubt, and open again over the same descriptor; roots with and without a slash at the end, a directory whose name begins with another's; 2 bytes of string; one argument empty |
| `rfb` | updates go to a client after its handshake; frames are whole; neither thread is stuck for the other | a frame of two chunks, two places for it, refused sizes and addresses, 2 descriptors (the listener and the connection; with another file open, one is lacking), one packet under way |
| `boot` | the target gets its arguments; memory or the image holds the program | every command line of up to 3 of 23 arguments, and sections of +permissive; every pair of segments from two families in 8 bytes, on three preloaded targets and two hex writers; a file with each thing wrong |

A run that states liveness uses the specification with fairness for its safety properties
too; fairness removes no finite behaviour. Each module has a type invariant where it has
proofs, stated as a theorem and not checked by a run again.

A word of the debug interface has two values in the RV64 runs (four on RV32), so
that the two words of a register both matter in addresses, data and entry point.

All bytes of `Memif`'s initial memory differ from one another and from what is
written, so that a byte from the wrong place is seen.

`CHECK_DEADLOCK FALSE` is set where the system may stop: a run of the loop ends,
a host that spins has no step, and so does one that has aborted or thrown; the
calls of `Memif` and `Syscall` are bounded, `Boot` ends with the reset or the image, and the
process of `Rfb` may end by an exception. In the runs of
`Dtm` deadlock is checked: a host that waits for a hart for ever is one.

**Finding** (`tsi_reset`). For a program without `tohost` the host spins in
`while (true) idle()` (`htif.cc:179`). `idle()` is empty in `tsi_t`, so the host
coroutine never gives control back; the write of `reset()`, which is to start
core 0 (`tsi.cc:28`), stays in `in_data`.

## 4. Fairness

* `ContextPthread` (`FairHandoff`): weak fairness of each thread inside `context_t` (the OS runs
  runnable threads), and finitely many spurious wakeups. Nothing forces a context
  to give up control.
* `Htif`: weak fairness of the host (a running process whose proxied system calls
  return) and of the target's poll of `fromhost`. Nobody has to type, send or
  interrupt.
* `Tsi`: weak fairness of the host coroutine and of the simulator's switches, strong
  fairness of `Tick`, since the simulator calls `tick()` in each of its cycles but
  is not running in between.
* `DtmTick`: weak fairness of the host and of the simulator's cycles; strong fairness
  of a handover, as a debug module that is shown a request is ready in some cycle; weak
  fairness of its execution.
* `HtifPthread`: weak fairness of both contexts: the one that runs goes on, and a
  simulator that is in code of its own calls the interface again. That it sends only so many
  bytes before it receives is the bound `MaxBytes`; one that sends for ever starves
  the host in the code too.
* `Rfb`: weak fairness of what the run loop does after a frame is complete, of the
  thread's reads and closes and of its attempt to listen; strong fairness of its locks, as
  the run loop holds the mutex only for a moment, but again and again. The target need not
  send commands, no tick need come, and the client need neither write, read nor leave. A write to
  a client that does not read blocks in the code too.
* `Dtm`: weak fairness of the host, of the debug module's commands, and of harts
  that are asked to halt or resume. The programs need not do anything.

## 5. Proofs

* `DtmProofs` and `DtmRegisterProofs` hold the proofs of the two modules of the dtm backend. For
  any registers and data: `AssertionHolds` (types and `ResponseExpected`) and `DmiRefinement`.
  `ResponseExpected` alone is not inductive: `TurnInv` adds that the host and the debug
  module take turns and that the module works on the request in `req_buf`. The assumption
  `DtmTickConstants` says that register 0 and value 0 exist, for `nop`.

  For any number and width of harts, any width of hartsel, any calls and commands that
  fail at any point: `NeverTooEarlyTheorem`, `CallsSoundTheorem` (of its parts,
  `TargetLeftRunningTheorem` and `ProbeFindsTheorem` are theorems of their own),
  `ProgramStartsTheorem`, and the two invariants they rest on, `ControlTheorem` and
  `RegistersTheorem`. What is left to do (`todo`) is a sequence that
  grows when a routine is called, and no property of the registers alone says why the next
  access is in order. An *outline* is what the host may rely on before an access. One of the
  control says which hart
  is halted or about to be (`st`, `h`), where the command is (`e`: none, running, seen to
  have ended), autoexec, the size of a transfer that is tried, and the locals of `probe`.
  `MayControl(a, x)` is what an access or a call `x` needs of an outline, `AfterControl` the
  outline it leads to, and `Path(k, a, s, b)` says that a whole sequence leads from one to
  the other. `ControlHolds(a)` says that the state is as the outline describes it, and
  `ControlInv` that there is an outline which holds now and from which `todo` leads to one
  that is good for an idle host. So each routine is proved once, as a path of the accesses
  it consists of, for any hart and any outline it may be called in, and each access once, as a
  step from its outline to the next; `die()` is covered as an access whose command failed
  leads to the same outline. The debug module and the harts keep every outline.

  In `DtmRegisterProofs`, an outline of the registers says what S0, S1, dscratch and dpc of the hart in hand, the data
  registers, progbuf, and the host's `saved` and `words` hold, as far as a routine relies on it: what
  the hart's program left there (`Kept`), a value (`Is`), or anything (`Any`). Of a command that runs
  it says which, so that the outline after it is known before it ends (`Done`); of a hart in
  the middle of the program of `modify_csr`, what each instruction leaves (`CsrMid`). A program of loads and
  stores may do anything to S0 and S1 (`Forgotten`), which is why `save_reg` comes first; a
  hart may be let go only with its own S0 and S1 (`Clean`), which is why `restore_reg` comes
  last. `RegistersInv` is `ControlInv` for these outlines, and the path leads to an outline in
  which a csr call has read the old value and left the new one (`CsrSettled`), or in
  which `reset` has fenced and set every hart (`ready`).

  The assumptions are `DebugModuleConstants` and `DtmConstants`: values that are written are
  values of a register, and so is what setting or clearing the bits of one in another gives
  (a register has a power of 2 of values, and `CsrUpdate` works on their bits).

* `PthreadProofs` holds the proofs of the three modules with pthreads. For any set of
  contexts: `HandoffTypes`, `MutualExclusion` and `Refinement`. `OneInControl` is not
  inductive: a context inside `init` or `switch_to` must still have its own flag clear, and
  the context it is about to start or release must exist or not exist. `HandoffInv` adds
  that (`CallInv`). For any lengths and any number of bytes: `TypeCorrect` and
  `StreamsTheorem`. `StreamsIntact` is inductive together with the types: a transfer moves
  the border between what was received and what is queued (`CutSame`), a send appends
  the bytes that come next (`StreamGrows`).
  For any sizes, addresses and descriptors of the frame buffer: `RfbTypeCorrect`,
  `UpdatesReachClientTheorem` and `FramesWholeTheorem`. The first needs who holds the
  mutex at each place of the two threads (`LockInv`) and what the thread has set up there
  (`ConnectionInv`): `afd` is a connection exactly while the thread cannot be between
  closing and forgetting it with the mutex free. The second needs how far the run loop has
  copied (`FillInv`). The assumptions are `PthreadConstants` and `RfbConstants`.
* `HtifProofs`, for any target program, chunk size and number of commands:
  `TypeCorrect`, `ExitIsFinalTheorem` and `ChannelRefinement`. `HtifInv` is the
  inductive invariant. `CommandInv` relates `sent`, `tohost`, `cmd` and `taken`
  (one command in flight in memory, one in the host); `AnswerInv` relates
  `answers`, the queue, `fromhost` and `got`; `PendingInv` says that the reads that
  wait come after those answered, and that the command being executed is the last
  one taken; `ExitInv` that commands are handled only while `exitcode` is 0. `StatusTheorem`
  needs in addition that the exit code, once set, is the one of the last command taken
  (`StatusInv`), and `ReplyTheorem` that the result is in the buffer from the moment the
  answer is queued, and when it is about to be (`ReplyInv`). `TerminalTheorem` compares two
  subsequences of histories, the reads answered and the reads taken; it counts them
  (`UpTo`), so that one more answer is one more of each. The
  assumptions are `HtifLayout` and `HtifCommands` (no command word is 0).

* `MemifProofs`, for any sizes of unit, chunk and memory, any contents and any number
  of calls and stores: `TypeCorrect`, `ChunksFit`, `WritesTheorem`, `ReadsTheorem`,
  `NeverTornTheorem` and `NeighboursTheorem`.
  `WriteLands` speaks of the end of a call only, so `MemifInv` says what holds on
  the way: `PlaceInv` where the call is (what is left starts where the parts already moved
  end, and is aligned once head and tail are gone), `ChunkInv` what the merged chunk
  holds next to the written bytes (what memory holds, except where the target raced), and `LandedInv` and
  `LoadedInv` that the parts already moved are in memory, or in the caller's buffer.
  `NeverTorn` holds as a small aligned read is a single step (`TornInv`): the chunk that
  contains its first byte ends at a multiple of its length, so it contains all of it.
  The arithmetic of alignment is a layer of lemmas about `Aligned`, so that no
  later step mentions `%`. The assumption is `MemifConstants`; that small sizes divide
  the unit, as powers of 2 do, is needed for `NeverTorn` only.
* `SyscallProofs`, for any descriptors, names, directories and number of calls:
  `TypeCorrect`, `ChdirFitsTheorem`, `OneOwnerTheorem`, `ImplementsDescriptorsTheorem`,
  `NamesTheorem` and `MainVarsTheorem`.
  `ChdirInv` says what the count has seen while nobody stored to the string. `OneOwner` is
  inductive with the types: each step is shown to change the owners of one descriptor
  only (`OwnersChange`). The refinement rests on it: as the descriptor behind a number has
  no other owner, no step of another can change the view of the target (`ViewKept`).
  `Halves` adds what holds between the halves of a call: the descriptor that openat holds
  is open on the file opened last, and a number in doubt keeps its entry. `NamesTheorem`
  cuts a name at the root and compares the normal forms of what is left;
  `MainVarsTheorem` follows the pointers and strings of the buffer entry by entry. The
  assumption is `SyscallConstants`: among other things, a directory of the host is
  a full name (as `getcwd` returns it), and arguments are sequences of characters.
* `BootProofs`, for any command lines, files, preloaded targets and widths of a hex image:
  `BootInvariant`, `TargetArgsTheorem` and `ProgramArrivesTheorem`. `TargetArgs` speaks of
  the end of the parse; on the way `ReadSoFar` says that what is left of the command line
  still says what the whole said, given the mode (`opterr`) and the place in a cluster
  (`letter`) the parser is at. Each way an argument is handled keeps it (`ReadStep`): one
  argument (`ReadOne`), two (`ReadTwo`), or one letter of several.
  `ProgramArrives` speaks of the end of the load; `MemInv` says what each byte of memory
  or of the image holds on the way: once its segment was passed, what the last segment
  that covers it says (`SaysLast`), and before, nothing. `PlaceInv` is where
  `load_elf` is, `PhaseInv` which of the two the program is doing. The
  assumptions are `LoaderConstants` and `BootConstants`.
* `TsiProofs`, for any memory, width of a word, chunk size and number of calls:
  `TypeCorrect`, `NoStaleWordTheorem` and `ImplementsRemoteMemoryTheorem`. Neither property
  is inductive: the words in `in_data` carry no tag, so a state alone does not tell an
  address from data. `LinkInv` says that every word can be given a role (which word of
  which request it is, and how many posted words lead up to it), that the roles follow one
  another as the frames do, that the words posted are those with the role of data
  (`Carries`), and that at most one read is under way, whose remaining words are exactly
  what the host awaits (`OneRead`, `Awaited`). Every send extends the roles and the
  adapter consumes them at the front. The assumption is `TsiConstants`.

What a recursive function or a subsequence of a history is for *every* input is proved
without the library's induction theorems: a set of naturals that is not empty has a least
element (`Least`, from `NatWellFounded`), so that the least place where a claim fails
refutes itself, and a recursive function exists and satisfies its equation (`Recursion`).

Left to TLC: liveness (its proofs need `ENABLED`), and what the chunk calls of `Dtm` do to
memory: `NoOtherStore` and `ImplementsRemoteMemory`.

## 6. Not modelled

* The contents of files, the layout of `stat`, the byte layout of ELF headers and of the
  messages of the frame buffer, termios, signature text: data no property depends on.
* `disk_t`: `parse_arguments` rejects every option that would make one.
* `option_parser_t`: no program of the repository uses it.
* `encoding.h`, `debug_defines.h`: generated constants. The build scripts.
* Weak memory: stores of the pthread builds take effect in program order.
* More than one `htif_t` in a process: `opterr`, `optind` and `signal_exit` are global.

What would come next: outlines of `Dtm` that also say which words a program of loads and
stores has still to move, from which `NoOtherStore` and the refinement of `RemoteMemory` would
follow as `CallsSound` does from `RegistersInv`.
