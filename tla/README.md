# SalernOS user space: a verification project

SalernOS is a hobby operating system. This repository holds its user space: the
first process (`init`), the port of the C library mlibc to the SalernOS kernel
(`mlibc-salernos`), a profiling tool (`util-salernos`), test programs, and the
recipes and patches that build third-party packages. The kernel itself is built
by a recipe from another repository and is not here.

The modules in this directory model the parts with state, concurrency or failure
handling of their own. TLC checks them on small instances; TLAPS proves the most
important of their properties for every instance. `PROJECT.json` maps every
definition to the lines it models.

## Inventory

| Part | State | Operations | Interaction | What makes it correct |
|---|---|---|---|---|
| init: parser (`init/src/parse.c`) | cursor, directives, args, heap blocks | `parse_config`, `parse_line`, `skip_whitespace` | reads the buffer `main` loads | agrees with the grammar, terminates, leaks nothing, stays in the buffer |
| init: tables (`table.c`, `eval`) | constant tables | `table_lookup`, `eval`, `eval_entry` | called by the interpreter | first match of the wanted type |
| init: interpreter (`interpreter.c`, `main.c`) | options, environment, `g_children`, position | `cb_env`, `cb_enable`, `cb_tty`, `interpret_config` | forks one child per `tty` line, SIGUSR1 to each at the end | nothing starts before the last line, all or nothing, every child starts |
| init: children (`cb_tty` after `fork`) | copies of init's memory, session, terminal | open, `setsid`, `TIOCSCTTY`, mode, wait, clear, exec | spin on their own `g_tty_lock`, cleared by a handler | not killed by the start signal, program runs on a prepared terminal |
| mlibc port: threads (`thread.cpp`, `thread.S`) | TCB words `tid`, `didExit`, the new stack | `sys_prepare_stack`, trampoline, `sys_clone`, futex calls | futexes shared with `thread_create` and `thread_join` | no lost wakeup, join returns the value |
| mlibc port: pseudo-terminals (`pty.cpp`) | descriptor tables, sessions, `ptsname`'s buffer | `openpty`, `login_tty`, `forkpty`, `ptsname` | kernel calls that fail half-way; other threads | no leaked descriptor, child on its slave |
| mlibc port: descriptors (`generic.cpp`) | descriptor table, flags | `sys_open*`, `sys_pipe`, `sys_dup*`, `sys_fcntl`, `sys_close`, `sys_socket`, `sys_accept` | shared by all threads and by utmpx | a descriptor has the flags asked for |
| mlibc port: utmpx (`utmpx.c`) | one process-wide descriptor, file position | `setutxent`, `getutxent`, `pututxline`, `utmpxname`, `endutxent` | files, other writers | never touches a descriptor it does not own, whole records |
| stdlib: signals and processes (`stdlib.patched.cpp`, `generic.cpp`, `sigrestorer.S`) | dispositions, masks, jump buffers | `system`, `abort`, `sigsetjmp`, `siglongjmp`, `sys_sigaction`, `sys_waitpid` | fork, exec, wait, other threads | restores what it changed, ends when it must |
| mlibc port: other system call wrappers (`generic.cpp`) and stubs (`stubs.cpp`) | none | about 40 wrappers, 23 stubs, names and socket options | kernel | the caller is told what the kernel said |
| mlibc port: waiting (`generic.cpp`) | none | `sys_ppoll`, `sys_poll`, `sys_pselect`, `sys_sleep`, `sys_pause` | kernel | waits as long as asked, sets translated exactly |
| stdlib: memory, text | none; an incomplete character | `calloc`, `aligned_alloc`, `posix_memalign`; `wcrtomb`, `wctomb`, `mbtowc`, `mblen`, `mbstowcs` | allocator, decoder of mlibc | enough and aligned; encodings round-trip |
| mlibc port: mntent (`mntent.cpp`) | parse buffer | `getmntent`, `getmntent_r` | files | returns the next entry |
| stdlib: `qsort`, `bsearch` | the array | loops | the caller's comparison | sorts, finds what is there |
| kprofile (`util-salernos`) | a table read from a device | options, sort, print | profile device, `qsort` | the whole table in the order asked for |
| tests, ports, recipes, jinx, ABI headers | - | - | - | read as documentation, not modelled |

The hard behaviours: SIGUSR1 arriving at any instruction of a child; a
configuration line failing after children exist; `fork` freezing a copy of
init's state; a parser that reads a buffer without a NUL and frees on three error
paths; futex tests racing stores and wakes; openpty and forkpty failing half-way
and working on descriptors 0 to 2 of a process that has them closed; a descriptor
number that outlives its file; flags set after the descriptor exists; two threads
in `system` sharing one set of dispositions; a seek and a write that other writers
come between; integer widths at poll's `int` and calloc's product. The full
list, line by line, is `hazards` in `PROJECT.json`.

## Modules

| Module | Models | Correspondence |
|---|---|---|
| `InitTable` | `table.c`, `eval`, `eval_entry` | A name is a sequence of text segments, so that the prefix match of `strncmp(name, entry.name, namelen)` is `IsPrefix`. A lookup or evaluation is the set of its results: empty for every error code. |
| `InitInterpreter` | `main.c`, `interpreter.c` | One action per callback and per step of the forked child. `cb_tty` is `cb_tty_fork` (argument checks and `fork`) and `cb_tty_record` (the parent's write to `g_children`), because the child runs in between. Each process has its own `g_active_options`, `g_tty_lock`, environment and signal disposition, copied by `fork`. `leader` and `owner` are what `setsid` and `TIOCSCTTY` do; a path may name no terminal, and `refused` records a `SETMODE` that failed, which the code ignores. `deliver` is the kernel running `handle_sigusr1`, or the default action, at any point. |
| `StartGate` | abstract | A gate that opens once or is abandoned; programs wait, start, end. |
| `InitParse` | `parse.c`, the buffer of `main.c` | A character is its class: blank, newline, quote, other. `skip_blank_line`, `start_line`, `end_line`, `parse_done` are the iterations of `parse_config`; `parse_arg`, `line_error` those of `parse_line`. `tail` is what the memory behind the file holds up to the first NUL. |
| `ThreadStart` | `thread.cpp`, `thread.S`, clone, futex and exit wrappers | One action per shared access: store of `tid`, test, `FUTEX_WAIT` (compare and sleep in one step, in the kernel), wake, store of `didExit`. The stack is the sequence of words pushed; the pops of `thread.S` take them off. |
| `ThreadLifecycle` | abstract | created, finished with one value, joined with that value. |
| `Pty` | `pty.cpp` and the wrappers under it | Descriptor tables of the caller and of each child; the calls of `openpty` and `fork` may fail; `close` and `dup2` of an open descriptor do not, nor `setsid` in a process just forked, and `TIOCSCTTY` fails only on the terminal of another session. `sys_unlockpt` and `sys_ptsname` test a variable that is uninitialised when the ioctl failed, which is a choice between all outcomes. `other_ptsname` is another thread's `ptsname`, which fills the same static buffer. |
| `Descriptors` | the wrappers of `generic.cpp` that make, change or close descriptors | A descriptor is an open file, who opened it and how, the flags that were asked for, and close-on-exec; `O_NONBLOCK` belongs to the open file. `sys_accept` is the call and then one step per flag, each of which may fail while another thread works on. |
| `Utmpx` | `utmpx.c`, composed with `Descriptors` | `utmpx_file` is a number in the program's descriptor table. Each function is one action up to its open, and one per later system call. A record is two halves, so that a write can be short; `open`, `lseek`, `read` and `write` may fail. `other_adds` is another process. |
| `Signals` | `system`, `abort`, `sigsetjmp`, `siglongjmp`, signal and process wrappers, `sigrestorer.S` | Dispositions are the process', masks and jump buffers the thread's; `system` and its child are one action per system call. A disposition remembers whether it has the restorer that `sys_sigaction` adds. |
| `Syscalls` | the stateless wrappers of `generic.cpp`, `stubs.cpp` | A wrapper is a function of the kernel's answer (number and errno): the error its caller gets and what the output parameter holds, `Unset` if it is not assigned. |
| `Waiting` | `sys_ppoll`, `sys_poll`, `sys_pselect`, `sys_sleep`, `sys_pause` | Time limits as seconds and nanoseconds, `int` as `IntBits` bits; pselect's sets and poll's events as sets. |
| `Memory`, `Multibyte`, `Mntent` | the functions of those names | size_t as `SizeBits` bits; code points and bytes as numbers; a mount line as its kind, its numbers, its newline and its length. |
| `LibcCalls` | the composition of the five modules above | One action per family of functions: any input, any answer of the kernel, then the return. What outlives a call is the decoder state of `mbtowc`; `getmntent_r` takes a step per line. |
| `Sort`, `Search` | `qsort_r`, `bsearch` | One action per iteration of a loop. |
| `Kprofile` | `kprofile.c` over an instance of `Sort` for rows | Options, the checked calls on the device, comparisons, the table printed. A float stands for its place in the order of floats; `quotient`, how division rounds, is a constant. |

The `MC` modules give the constants their values; the modules whose names end in
`Proofs` hold the theorems about the module of that name (`UtmpxProofs` also those
about `Descriptors`, `SearchProofs` those about `Sort` and `Kprofile`, `LibcCallsProofs`
those about the modules it composes). An
operator whose comment starts with *Mutation* is not part of any specification: it is a plausible
mistake in the definition that follows it, kept to show that a property notices.

## Runs

| Run | Checks | Shows |
|---|---|---|
| `init_boot` | `TypeOK NoEarlyStart AllOrNothing NoChildKilled SnapshotExact RunsPrepared` | The start gate, for nine configurations: the shape of `sysroot/boot/initcfg`, options and variables between two terminals, one terminal twice, abbreviated names, a path that is no terminal, three kinds of bad line after a good one, three terminals. About 160 thousand states. |
| `init_gate` | `EveryChildStarts ImplementsStartGate` | Liveness and refinement, with two slots, so that a third `tty` line runs past `g_children`. |
| `init_error` (violation) | `WaitEndsWithInit` | A child waits "until init has finished" (`interpreter.c:46`), but after a failing line init exits without notifying: the child spins for ever. |
| `init_slots` (violation) | `ChildSlotsSuffice` | `g_children` is "higher than TTY_MAX" (`interpreter.c:30`), but is filled per line, not per terminal. |
| `init_parse` | `ParseTypeOK ParsesAsAutomaton FailsForAReason NoLeak TailOnlyAppends Terminates` | Every buffer of up to 5 characters of file and 2 behind it, realloc failing anywhere: 250 thousand states. |
| `threads` | `BodyRunsReady JoinGetsResult NoLostWakeup ImplementsLifecycle` | Both futexes, with interrupted sleeps and two joiners of the same or of different threads. |
| `pty` | `FailureLeavesTable SuccessAddsPair ChildOnSlave ChildLeftOutOnlyByOwner` | Two calls, the first child running while the second call is made, another thread using `ptsname`. |
| `search` | `SortedPermutation ElementInInterval FoundIffPresent` | Sorting, then any number of searches. |
| `kprofile` | `PrintsWholeInOrder` | Every command line and table within the bounds, every call failing or not. |
| `files` | `NumberIsOwn KeepsOneOpen RecordsWhole FlagsAsAsked` | Login records, the program's own descriptors, an accept in progress and another writer together: 4 million states. |
| `signals` | `DispositionsRestored MaskRestored ShellStartsAsProgram AbortEnds` | Two threads, any two calls, a signal from outside, calls of `abort` that fail and panic: 560 thousand states. |
| `libc_calls` | `ReportsTruthfully TimeoutExact SelectExact AllocatesEnough TextRoundTrip NextEntryRead` | Each function over the inputs at its boundaries: 1.1 million states. |

### What the code does where one might expect more

The properties above are stated for what the code does. Where that is less than a
caller might expect, the exception is written in the property, and is reached:

- `endutxent` keeps the number of the descriptor it closes, and `utmpxname` takes
  descriptor 0 for none (`NumberIsOwn`, `KeepsOneOpen`).
- A short write, a failed seek, or another writer between `pututxline`'s seek and its
  write, leaves broken records (`RecordsWhole`).
- `sys_pipe` drops its flags; `sys_accept` sets them later and ignores failures
  (`FlagsAsAsked`).
- Two overlapping calls of `system` leave SIGINT and SIGQUIT ignored
  (`DispositionsRestored`). Its loop around `sys_waitpid` is for negative results,
  which there are none of, so that a child that somebody else waited for gives -1.
- `sys_stat` returns the kernel's result as the error, and the stub of umask stores
  nothing (`ReportsTruthfully`).
- `sys_sleep` truncates its milliseconds to an `int`; a negative one waits for ever
  (`TimeoutExact`). `sys_ppoll` and `sys_futex_wait` drop the signal mask and the
  timeout, `sys_tcsetattr` its action; `sys_setsockopt` accepts some options and
  forgets them.
- `mbtowc` called with NULL resets the state of `mblen`, so that an incomplete
  character stays (`TextRoundTrip` is about calls that find none).
- `getmntent_r` clears an entry's numbers once per call, so that those of a comment
  it passed over can show (`NextEntryRead`). The file's own first comment says that it
  does not work on SalernOS; the model is of what it is written to do.
- A name that `sys_ptsname` leaves undefined, or that another thread's `ptsname` has
  replaced, is opened all the same (`SuccessAddsPair`, `ChildOnSlave`,
  `ChildLeftOutOnlyByOwner`).
- A child of init goes on when `TIOCSCTTY` or `SETMODE` fails: on a terminal that another
  line names as well, or in text mode (`RunsPrepared`).
- A quoted argument that crosses a newline is read twice (`ParsesAsAutomaton`,
  `FailsForAReason`).

### Bounds

- `Pids`: three children show every order of two others around one; the actions of
  different children commute except on a shared terminal, which two suffice for.
- `ChildSlots`: 20 in the code; 2 and 3 here, so that the limit is reached.
- `MaxFile = 5`, `MaxTail = 2`: a quoted argument with a newline inside and one
  behind it, or two directives, fit; the parser looks at one character at a time.
- Two threads, joiners and values: joiners on one thread, or on two.
- `pty`: `MaxFd = 5`, `MaxCalls = 2`: two pairs fit with three standard descriptors or
  not quite (the table is full at the last one), and an undefined name can be the
  other pair's.
- `search`: arrays of up to four of five elements, in their order and under a
  comparison that takes different ones for equal; the theorems have no bound.
- `kprofile`: one command and up to two options, up to three of seven rows, among them
  rows without calls and without time, and two whose quotients become equal when they are
  rounded.
- `files`: `MaxFd = 2` and `MaxOpens = 3` fill the table; `MaxCalls = 3` allows end,
  use, rename, or two records and a read; `MaxSteps = 2` a close and an open of the
  program in between; `MaxOthers = 1` one record at any moment, in either file.
- `signals`: `MaxCalls = 2`, so that two calls of `system` or `abort` overlap, or one
  with any other call; `MaxSignals = 1`.
- `libc_calls`: widths are scaled down (`IntBits = 13`, `SizeBits = 6`,
  `PointerSize = 2`, `Page = 16`), so that every overflow happens: `MaxSeconds = 9` is
  past the `int`. `Nfds = 2` and `MaxReports = 2`: one descriptor ready in two ways
  next to another. `MaxLines = 3`: an entry after two lines passed over. `Wides`,
  what is encoded, has values on both sides of each bound in `wcrtomb`; a text is up to
  `MaxChars = 2` of `Chars`, one character of each length, and then one of `Rests`: nothing,
  a byte that begins no character, a bad continuation, or a character cut short anywhere.

Deadlock checking is off where the program may end: init, the parser, the threads,
the calls of `Pty`, `Utmpx`, `Signals` and `Kprofile`. `Search` and `LibcCalls` can always go on.

### Fairness

`InitInterpreter` assumes weak fairness of init, of each child and of the delivery
of each pending signal: a preemptive scheduler, and a spinning child that is
scheduled. `ThreadStart` assumes it of each creator, thread and joiner, and
that thread functions return; it assumes nothing of interrupted sleeps, so no
property relies on a spurious wakeup. `InitParse` is one sequential loop.
`Signals` assumes it of a thread in `abort` only, which waits for nothing; nothing
is assumed of `system`, whose child may run for ever. The other modules have safety
properties only.

### What the models leave out

Memory that init allocates for argument strings and never frees; failures of
`malloc` there (not tested by the code); log output; `termios` and window size in
`openpty`; failures of `dup2` on an open descriptor, in init's children and in
`login_tty`, which the code does not test either; the kernel's behaviour when process 1 exits (children go on in the model).
In `Signals`, a handler that interrupts the library returns; jumping out of `system`
or `abort` is left out, and a blocked signal is not kept pending.
The kernel's signals, futexes, terminals and descriptors are external, modelled
from how the code here uses them, as are mlibc's allocator and decoder.

## Proofs

`InitInterpreterProofs`, from `InitAssumption` only (any set of pids, terminals,
slots, configurations):

- `TypeCorrect`, `StartGateHolds` (`NoEarlyStart`), `SignalsAreSafe`
  (`NoChildKilled`), `BadLineStartsNothing` (`AllOrNothing`) and `ImplementsGate`
  (the safety part of `StartGate` under the mapping `gate`, `prog`).
- None of them is inductive alone. `NoEarlyStart` needs to know why a child's lock
  is 0: only the handler clears it, only a pending signal runs the handler, only
  the notification loop sends one. `IInv` says this: `InitInv` ties `k`, `r` and the
  handler to where init is; `ChildrenInv` says recorded children are distinct and
  forked; `SignalInv` says that a child before its exec has the handler, that a
  pending signal was sent by the loop and has found the lock still closed, and
  that a child past its gate has lock 0 and nothing pending. From it, a signal can
  never meet a child after exec: to get there the child consumed its only one.
- `BadLineStartsNothing` adds `DoneInv`: the lines above the current one were
  acceptable and each of their `tty` lines has its process.
- The refinement has one step per action: `fork` is `Create`, the end of the loop
  or any exit is `Open`, leaving `wait_start_signal` is `Start`, a failing open or
  exec is `End`, everything else leaves the mapped state alone.
- `SnapshotsAreExact` and `ProgramsRunPrepared` add `SnapshotInv` (init's own options and
  environment, and those of each child, are what the lines above make them) and
  `PreparedInv` (how far a child has come with its terminal, step by step: it leads a
  session when it asks for the terminal, and its terminal is in graphics mode afterwards
  unless it refused; a terminal is taken from a child only by another child of the same
  terminal).

`InitParseProofs`, from `ParseAssumption` only (any files, any memory behind them):

- `ParseTypeCorrect`: no cursor passes the NUL, every returned span is in the buffer.
- `ParserLeaksNothing`: `HeapInv` says which blocks live at each point. Its
  delicate part is that a line always yields an argument: `parse_line` starts at a
  character that is not blank, so no directive ends without its block.
- `ParserIsAutomaton` (`ParsesAsAutomaton`), `FailuresHaveReasons` (`FailsForAReason`) and
  `TailsOnlyAppend` (`TailOnlyAppends`): the parser, which looks for the end of a line
  twice, once in `parse_line` and once in `parse_config`, agrees with an automaton that
  reads each character once. `ReadInv` says so for each end of a line `e` up to which
  every quote is closed on its line: until the parser is past `e`, what it has collected
  is what the automaton has read before the cursor (`Between`, `Within`; a word that the
  parser has taken is one that the automaton still reads), and afterwards the lines up to
  `e` stay in front (`Has`). The end of the buffer is the `e` of the first theorem, the
  end of the file that of the third. That the two searches for the newline find the same
  one is where the closed quotes are needed.
- The automaton is a recursive function of the position, so these are inductions over the
  text (`OneRead`, `Stays`, `CrossedStays`, `SameBeginning`).

`SearchProofs`, from `CompareAssumption` (the comparison is antisymmetric in sign and
transitive, what C asks of it) and `SearchAssumption`; any elements, any length:

- `QsortSorts` (`SortedPermutation`), `BsearchInterval` (`ElementInInterval`),
  `BsearchFinds` (`FoundIffPresent`), `SearchTypeCorrect`.
- What the loops do to an array is stated once, as lemmas about an array and a relation
  that orders its elements (`SortBegins`, `InnerSorts`, `SwapRearranges`, `OuterSorts`,
  `SortEnds`), and used for `Search` and for `Kprofile`.
- `SearchInv` adds `PrefixSorted`: before `i` everything is in order and below
  all the rest, and the element at `i` is below those that the inner loop has passed.
  The swap brings a smaller element to `i`, so both need transitivity. That the array
  stays a permutation is a bijection of indices, with which each swap is composed.
- `BsearchFinds` follows from the interval: what matches the key cannot be in the half
  left out of a sorted array (`HalfHasNoMatch`), so an empty interval means no match.
- `KprofilePrintsWhole` (`PrintsWholeInOrder`), from `ProfileAssumption`: the fields of
  a row are unsigned, and a time divided by a number of calls other than 0 is a float.
  Any table, any number of options, any rounding. `ComparatorsOrder` shows that the four
  comparisons order the rows, which is what `CompareAssumption` asks of a caller of
  qsort: for `comparator_ratio` the rows without calls are a class of their own below
  the others. `KprofileInv` says that the comparison in use is that of the last option,
  that nothing is printed before the end, and that the array is the device's table,
  rearranged, with its beginning in order.

`ThreadStartProofs`, from `NoneAssumption` only (any threads, joiners and values):

- `ThreadsStartReady` (`BodyRunsReady`), `JoinReturnsValue` (`JoinGetsResult`),
  `ImplementsLife` (the safety part of `ThreadLifecycle`), `ThreadTypeCorrect`.
- `ThreadIInv`: `ThreadInv` says, for each thread and each point of `sys_prepare_stack`,
  `thread.S` and the trampoline, what is on the stack, in the registers and in the TCB;
  `JoinInv` that a joiner past its loop has seen `didExit`, which is stored after the value.

`SignalsProofs`, from `SignalsAssumption` only (any threads, any number of calls and signals):

- `MasksComeBack` (`MaskRestored`), `DispositionsComeBack` (`DispositionsRestored`),
  `ShellsStartAsProgram` (`ShellStartsAsProgram`), `AbortEndsBySignal` (the safety part of
  `AbortEnds`), `SignalsTypeCorrect` (every handler has a restorer).
- `SignalsInv` has a part per thread (`MaskOK`: what a call has saved and blocked at each
  of its steps; `ChildOK`: the same of the child of `system`) and `SharedOK`, which as
  long as no two calls overlap ties the process' dispositions to what the one call of
  `system` in progress has saved.

`PtyProofs`, from `PtyAssumption` (the table has room for the three standard descriptors):

- `FailuresLeaveTable`, `SuccessesAddPair`, `ChildrenOnSlave`, `ChildrenLeftOutOnlyByOwner`
  and `PtyTypeCorrect`.
- `PtyInv`: `CallOK` says which descriptors of the caller the call in progress has made and
  that the others are as before it; `HeldOK` that only the call that made a pair has it
  open; `ChildOK` and `CttyOK` follow a child through `login_tty` and the three `dup2`,
  also when the slave lies on 0, 1 or 2 itself.

`UtmpxProofs`, from `DescriptorsAssumption` and `UtmpxAssumption`:

- `NumbersAreOwn`, `OneStaysOpen`, `RecordsStayWhole`, `FlagsComeAsAsked`,
  `UtmpxTypeCorrect`, for every table size and every number of calls, opens and writers.
- `UtmpxInv`: `OwnerOK` says who opened what is behind each number, `NumbersOK` and
  `AcceptOK` what the call and the accept in progress hold, `FlagOK` which flags a
  descriptor lacks and why, `RecordsOK` that a file is the records added to it, flattened,
  and that an offset lies on a boundary of records. Since `lseek` may fail, `OwnerOK` also
  keeps the offset within the file from one call to the next.

`LibcCallsProofs`, from `UnsetAssumption`, `NullAssumption` and `CallsAssumption` (the value
that stands for "not assigned" is no number, time or entry), `IntBitsAssumption`,
`MemoryAssumption` (sizes of pointer and page are powers of two that fit),
`CharsAssumption` (the characters that texts are made of are scalar values, not NUL) and
`RestsAssumption` (what follows the whole characters has no NUL and does not begin with a
whole one). The last two leave out no string but those in which the decoder, which is
external, accepts bytes that `wcrtomb` never writes (longer forms, surrogates, values past
the last): from any other, the characters can be split off one by one until none is left
at the beginning.

- `AllocationsSuffice`, `TimeoutsExact`, `SelectsExactly`, `WrappersReport`,
  `NextEntriesRead`, `TextsRoundTrip`: the six properties of the run `libc_calls`, for every
  width of `int` and `size_t`, number of descriptors, length of a mount table, and texts of
  any length over any characters.
- All but `NextEntriesRead` are about one step. What they need are facts about numbers: powers of
  two divide and bound one another, so that a product that wraps is noticed, a size
  rounded up to its class is aligned, and a conversion to `int` keeps what fits. The width
  is a constant, so these are inductions; `LeastOf`, `Induction` and `Recursion` derive
  them from the library's well-foundedness of the naturals, with a set for a parameter.
- `NextEntriesRead` needs `MntInv`: every line between the start of the call and the one
  it is at is a comment or blank.
- `EveryCharacterRoundTrips`: each of the Unicode scalar values is encoded as the shortest
  bytes that decode to it, and nothing else is encoded; the run of `TextRoundTrip` has the
  values at the bounds only.
- `TextsRoundTrip` carries this to texts. `Whole` joins the bytes of characters with
  `FlattenSeq`, and `wides` decodes from one position to a later one; both are recursive
  functions, shown to exist (`JoinsExist`, `Backward`, `WidesTakes`) and then, by induction
  over the characters, inverse to each other (`WidesOf`). `MbstowcsExact` adds the limit and
  the end of the program. `MbtowcExact` rests on `TextBegins`: a text that begins the way a
  character does begins with one of its own, since neither the NUL nor a rest can complete
  one; so a prefix of it decodes to that character or to none.

Only model-checked: liveness and fairness (`EveryChildStarts`, `NoLostWakeup`, `Terminates`,
`AbortEnds`, the fair parts of both refinements), since ENABLED is beyond the prover. Every
other property that holds is stated by a theorem.

## Not modelled

- In `stdlib.patched.cpp`: number parsing, `rand` and `wcstombs`, which hand
  on to mlibc; `abs` and `div`, which are an operator of C; functions that end with
  "not implemented".
- `entry.cpp`, the start of a program: two calls into the dynamic loader.
- `setmntent`, `addmntent`, `endmntent`, `hasmntopt`: single calls of stdio or string
  functions. `updwtmpx` is empty in the code.
- The ABI headers (constants and structures), init's two log macros, the kernel (not in
  this repository), the test programs, ports, patches and the build system.

## Plan

1. Done: init with `StartGate` and its parser; threads with `ThreadLifecycle`;
   pseudo-terminals; descriptors and login records; signals and processes; the calls
   without state; sorting, searching and kprofile; theorems about all of these.
2. A composition of `InitParse` and `InitInterpreter`, from text to children.
