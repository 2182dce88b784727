# Verification of spimulator

spimulator is a MIPS32 simulator: it assembles source files into a simulated memory and interprets the
result, either in one go or under a command loop with breakpoints, and may tell a learner what each instruction
did. This directory holds TLA+ models of its parts, TLC runs that check them on small instances, and TLAPS proofs
of what holds for every instance. Paths are relative to the repository: the C sources are in `src/src`, the
headers in `src/include`.

## Inventory

| Component | State it keeps | Operations | Hard behaviour | Module |
|---|---|---|---|---|
| Memory-mapped console (`memory.c` 484-608, console functions of `spim.c`) | control bits, one-character buffers, countdown timers, IP bits of Cause | the poll `check_memory_mapped_IO`; reads and writes of four registers; ^C | polls, program accesses and typing interleave | `MappedIO`, `ConsoleChannel` |
| Execution loop (`run.c`), default handler (`exceptions.s`) | PC, CP0 registers, `exception_occurred`, the recursion for delay slots | one iteration of `run_spim`; save, skip, clear, enable, return | interrupts at any point, faults, exits by `longjmp` | `Cpu` |
| Arithmetic, register file, delayed loads (`run.c`) | `gpr`, HI/LO, FPU registers, two loads in flight | every instruction of the switch | carries, the most negative word, NaN, a write that arrives late, a fault after a partial effect | `Alu`, `Execution`, `Instructions` |
| Memory segments (`memory.c`), program break and arguments (`syscall.c`, `data.c`, `spim-utils.c`) | text, data, stack and kernel segments and their limits | load, store, grow, `sbrk`, push the arguments | access at the edge of a segment, growth up to a limit, wrapping sizes | `Memory`, `FlatMemory` |
| Symbol table, emit phase (`symbol-table.c`, `parser.c`, `data.c`) | labels, chains of uses, location counters, labels of the line | emit node by node, align, switch segment, resolve, flush | what the parse phase leaves behind; forward references; labels moved by alignment | `Assembler` |
| Scanner and parser (`scanner.c`, `parser.c`, `ast.c`) | one line of input, two tokens of lookahead, a one-shot flag, the tree | tokens, statements, directives, expressions, error recovery | an error on one line and its effect on the next; progress | `Parser`, `Listing` |
| Pseudo-operations (`parser.c` 1280-1700, `pseudo-op.c`, `instruction.c` 200-420) | none | expand a statement | `$at`, operands overwritten, immediates that do not fit | `Pseudo` |
| Encoding, decoding, listing (`instruction.c`, `opcodes.h`) | none | encode, decode, format | tables and switches that must agree | `Encoding`, `Listing` |
| Debugger and command loop (`spim.c`, `spim-utils.c`) | breakpoint records, the text they are planted in, input sources, terminal mode, exit status | every command, the command line of `main` | ^C and errors in the middle of a command | `Program`, `Machine`, `Debugger`, `Session` |
| Explain mode (`explain.c`) | snapshots, pending pseudo-operation, suggestions | before and after every instruction | it must not disturb, and must tell the truth | `Explain` |
| Display, string streams, dumps | none that the program depends on | formatting | none | not modelled |

The components interact by calls and shared globals. The command loop calls `run_program`, which plants and
removes breakpoints and calls `run_spim`; `run_spim` polls the devices, which set bits of `CP0_Cause` that it
reads; instructions access memory, which calls the devices for addresses above `MM_IO_BOT` and
`raise_exception` for bad ones; the assembler fills memory through the symbol table, which patches instructions
already in memory. `run_error` and ^C leave any of this by `longjmp` to the command loop.

## Modules

`MappedIO` models the two devices. A control register is a set of bits; the characters typed are numbered;
the program is arbitrary, so every access may happen at any time while `running`. A poll is one action
(`check_memory_mapped_IO`), with `control_c_seen` for the poll that reads a ^C and jumps out. The byte that
`get_console_char` leaves uninitialised at end of file is a nondeterministic choice. `ConsoleChannel` is the
abstract specification of the receiver: a one-place channel that may lose characters but never reorders or
repeats them.

`Cpu` models `run_spim`. Addresses are word numbers, a program is any function from its text to kinds of
instructions, and the default handler is the five steps that matter. `frames` is the stack of recursive calls for
delay slots. The mode is a set of constants: `delayed_branches`, `mapped_io`, `display` (the argument that `step`
passes as true). The handler is the one shipped, which steps over the instruction at EPC after an interrupt too. A
program writes IE, EXL and the mask of Status as it likes, so it may put itself at exception level. A run that has
ended is followed by another, with CP0 as it was left or, after `Reinitialize`, as at the beginning.

`Alu` holds what the instructions compute, for a word of `Bits` bits made of two halves and four bytes as the
real word of 32 is; `Execution` makes them steps that read and write registers, HI/LO and memory, with the shift
register that delays a load; `Instructions` runs programs of a few instructions beside the same machine without
delays. The host's floating point is external: a single is a fixed-point number of quarters with one NaN.

`Memory` models the segments as sequences of bytes (the text holds instructions with the word each encodes),
all widths of access, the growth of stack, data and kernel data, `sbrk`, and `initialize_run_stack`. Fresh bytes
of a `realloc` are a nondeterministic choice until the code clears them. `FlatMemory` is what a program may
believe: every address holds a byte, and a load returns what was stored; `Memory!ImplementsFlat` is the
refinement.

`Assembler` models the emit phase of `read_assembly_file`. `Parse(f)` is the first phase in one step: it leaves
the tree with names already replaced by addresses if they have one, the entries it created, and the segment flags
and data counter as the end of the file left them. Then each node is emitted by one action, forward references
are patched one by one (`ResolveOne`), the labels of a line are cleared (`ClearNext`), and the list of local
labels, cycles included, is walked at the end (`FlushOne`). What a reference should mean is read off the source
(`loads`, `placed`), never off the symbol table that is being checked.

`Parser` models the scanner and the parse phase: the state of both is one record, and every function of the C
code that reads tokens is an operator from such a record to the next. The source is a sequence of lexemes. `Labels`
gives the addresses of the labels that earlier files have defined: such a label is a number in an expression, any
other one is a reference.
`Encoding` holds the opcode table (a word is its six fields), `inst_encode`, `inst_decode`, `format_an_inst` and the
walkthrough. `Listing` composes them: a file is parsed one turn of `parse_file` at a time, assembled, every word
is read and stored again, the text is listed and the listing assembled once more.

`Pseudo` expands one statement as `do_parse_pseudo` and `i_type_inst` do, and executes the code on the machine of
`Execution`. The reference is what the statement means, stated without reference to the expansion.

`Program` is the text as far as running tells its instructions apart; `Machine` is the abstract specification: a
program nobody debugs. `Debugger` models breakpoints and `run_program`; `Session` extends it with `main`, the
prompt, the stack of input sources, the terminal and the exit status. `asm` assembles what it is given together
with what the parser's tree still holds, the last file or the exception handler, and places all of it again where
the next instruction goes. `Debugger!Transparent` is the refinement of
`Machine`: with the planted instructions replaced by the recorded ones, the debugged program is the program.

`Explain` models `explain_before`, `explain_after` and the templates around the steps of `Execution`; the same
program runs unobserved beside it, with its own CP0. What is told is a record of registers, values, outcomes and
targets. `strayed` remembers the looks at memory that were refused although the instruction was not, or otherwise
than it was: the only ones that leave a trace in CP0.

The `MC*` modules instantiate these for TLC. The proofs are in `MappedIO_proofs`, `Cpu_proofs`, `Assembler_proofs`,
`Session_proofs` (debugger and command loop), `Memory_proofs`, `Instructions_proofs` and `Explain_proofs`;
`Iteration` holds the lemmas on induction that recursive functions and linked lists need.
Definitions whose comment says "Mutant" are plausible mistakes in the code; each is refuted by the
property that `PROJECT.json` pairs it with. A property that is a conjunction of named parts has several, for its
parts.

## Runs

| Run | Question | Bounds |
|---|---|---|
| `mapped_io` | Can any program, with any typing, lose, repeat or reorder a character, or see a spurious or lost interrupt? | both timers run from 2, three characters: one can wait, be overwritten and be followed by another |
| `cpu` | With the handler as shipped: is every exception delivered, where does the program go on after it, does the handler return, and does a timer match lead to it? | all programs of three instructions, one device line and the timer, a poll every two instructions: an interrupt can fall before, between and after any two instructions, and in the handler; a run starts with EPC at most one past the text (`MaxEPC`), so that the handler can step beyond it once; `mapped_io` is on, as the question about the timer needs |
| `cpu_skips` | refutes `ResumesExactly`, disagreement 1 | as `cpu` |
| `cpu_slots` | With delayed branches, does the recursive call run exactly the delay slot? | all programs of four instructions with legal slots and without exceptions |
| `instructions` | Does every instruction compute what it should; is a faulting one restartable; are delayed loads invisible? | words of 8 bits: the operand tests range over words and halves at their edges; programs of three instructions out of a pool, so that a load, the instruction after it and one more meet |
| `memory` | Is the growth of segments invisible, up to their limits? | three operations on segments of one to seven words, with addresses at, before and after every edge; `int` up to 127 so that sizes wrap |
| `assembler` | Does the image of a file mean what its text says; and across two files? | all clean files of a directive and up to three of 21 statements, or five that mix two labels, references and odd-sized data; all pairs of clean files of up to two statements; words of two bytes, so that half of all addresses are unaligned; immediates below 16, so that an address may or may not fit |
| `pseudo` | Does the code of a pseudo-operation do what the statement means? | words of 16 bits, so that halves of 8 have the sign and carry cases of 16; all operations, immediates and operands at the edges of a half and of a word |
| `explain` | Is what is told true, and is the program undisturbed? | words of 8 bits, eight bytes of memory; programs of a real or expanded line and a second instruction, entered at the beginning or, for `rol`, in the middle of the expansion; five steps, four levels |
| `listing` | Is every line parsed by itself, and are encode, decode, listing and walkthrough consistent? | every row of the opcode table with ordinary, boundary and zero operands; three-line files of good and bad statements; expressions of up to three operands, which are numbers, labels of an earlier file and labels not defined yet |
| `parse_hang` | refutes `TurnsConsume`, see below | the line `.word 1,2` |
| `session` | Is the debugger invisible, are breakpoints, sources, terminal and status right after any command, ^C and error? | five words of text, of which the handler and the startup code take one each; 14 command lines, `asm` with one instruction or none among them; runs of three steps; a source stack of 1, so that it is empty or full; one ^C in the window after a push, which fills it |

The real constants differ by size only: timers of 100 polls and a poll every 100 instructions, words of 32 bits,
segments of kilobytes, a source stack of 8 (the theorems of `Session_proofs` hold for every depth). No guard
distinguishes values beyond those the bounds reach: a timer is compared with zero, an address with an edge or a
multiple of the word, a value with the half's limit.

A file is *clean* (`Clean` in `MCAssembler`) if it avoids the cases under "Disagreements" that concern files. Where
another property leaves out a case its comment says which, as those of `TimerInterruptTaken` (it needs `mapped_io`),
`NarrationHarmless` (CP0 after a look that strays) and `AccessTold` (a faulting store, the value before off a word)
do; where the code does something else than it should and the property holds of what it does, the property states
that, as `SkipsOnlyInterrupted` and `BranchTold` do. All these cases are listed under "Disagreements".

Deadlock is checked but in `mapped_io`, `assembler` and `listing`, where characters and files run out.

### Fairness

* `MappedIO`: weak fairness of the poll. `run_spim` reaches the head of its outer loop after at most
  `IO_INTERVAL` instructions; nothing is assumed of the program or of the user.
* `Cpu`: weak fairness of the running loop, one thread of which some step is enabled until the run ends. None of
  the devices, the timer or the start of another run.
* `Assembler`: weak fairness of loading, one thread as well. That it ends is not assumed: it depends on the list of
  local labels being free of cycles.
* `Session` and `Pseudo`: weak fairness of a run in progress, again one thread; none of the user.
* `Listing` states no fairness: its termination is the action property `TurnsConsume`, a variant. Every turn of the
  parser's loops takes a token or reads ahead, so a file is parsed in at most as many turns as it has tokens.

## What is proved

All proofs hold for every value of the constants that the named assumptions admit: any number of files, names,
commands, instructions and operations.
Where a theorem has a hypothesis, the module of its run shows by an `ASSUME` or by its configuration that the
instance satisfies it.

* `MappedIO_proofs`. `DeviceInv`, the conjunction of the type invariant and the state properties, is inductive:
  that no interrupt is lost or spurious needs to know how the timers relate to the READY bits (`TimersTell`), and
  that a character is fresh (`BufferIsFresh`) is what the refinement needs. From it follow `KeptForInterval`,
  `TransmitPaced` and the refinement of `ConsoleChannel`, action by action.
* `Cpu_proofs`, in two modes, for the handler as shipped. Programs are arbitrary and interrupts come in any order.
  * `PlainMode`: no delayed branches and no display of instructions (disagreements 2 and 3 are the reasons).
    `SkipsOnlyInterrupted` and `UserRunsWithEXLClear` are not inductive: they say nothing while the handler runs.
    `PreciseInv` says for each place in the loop that the machine is either in the user's program, at exception
    level only if that program has put itself there, or in the handler with EXL set and EPC equal to the place to go
    on, or one before it until the handler's skip; an exception at the level that the program has set itself keeps
    the old EPC, and the program goes on behind that. From it follow `ExceptionsDelivered`, `Precise` (an interrupt
    costs the program exactly the instruction it kept from executing, and nothing else is skipped or repeated) and
    `HandlerSurvives`. That the program returns *to* that instruction, which is what the comments say, is refuted by
    `cpu_skips`.
  * `SlotMode`: delayed branches, in programs the architecture allows, with interrupts off and without faults
    (disagreements 3 and 4 are the reasons). `DelaySlotsExact` says that the slot of a jump is executed once, by the
    recursive call made for it. `SlotInv` describes the two depths of the recursion: no jump waits, or the jump to
    the recorded target does and only its slot can run.
* `Session_proofs`, for every text, every command, every order of commands, ^C and errors. `SessionInv` says that the
  program runs only inside a command that runs it (`RunsInCommand`), and that text and records agree (`Sound`): at
  every recorded address, and nowhere else, the breakpoint instruction is planted, and no address is recorded twice.
  What add, delete, print and step do to a sound text is stated once per operation, as lemmas on operators. From it
  follow `BreakpointsIntact`, `StepsExact`, `StopsAtBreakpoint` and the refinement of `Machine`. `StatusTells` has an
  invariant of its own, on the counters of errors while files are loaded. `PromptRestored` needs `FullOperands`
  (disagreement 24) and `LoopInv`, which says what the current source and the stack below it are in each phase.
* `Memory_proofs`, for every layout that `MemoryAssumption` admits: segments apart, sizes whole words. `MemInv` is
  small; the work is in what every operator returns. Loads and stores are described by the bytes of
  `FlatBytes`, the refinement mapping, so that a growth is a stutter by construction of its lemma and not of the
  model; the arguments, pushed by recursive functions, are handled by the induction of `Iteration`.
  `ArgumentsFound`: stores downwards from the top of the stack keep all that is above them, so every string and both
  vectors are found whole. It needs `SegmentsApart`: if data and stack could meet, a string might be split between
  the two; in the real layout they are gigabytes apart.
* `Assembler_proofs`, for all files, names, segment layouts and word sizes: `AssemblerInv`, hence type correctness
  and `NoDanglingUse`. The latter alone is not inductive: it needs that nodes which define a symbol name
  one, that a symbol is being resolved only between two nodes, and that the labels of a line are gone at the
  end of the file.
  On top of it stand five layers.
  * `LocalsGone`: what is defined between two files is global, for all files. The list of local labels may have
    cycles, along which no induction on a length works; the invariant (`ForgetInv`) speaks of every set that
    contains the head and is closed under the links, hence of what the walk will visit.
  * `ScopesKept`, for files with `ScopesClean`: a directive first (disagreement 14), nothing declared global after it
    is defined (12), no constant 0 (13; a global constant 0 also counts as undefined and may be defined again by
    `.comm`). The invariant says for every definition where it stands: still to be emitted, waiting as a label of
    the line, or known at its place (`KeptInv`).
  * `SegmentsKept`, for files with `SegmentsClean`: a directive first, data and `.comm` in data segments (16). It
    assumes that `SegmentsFit` holds throughout, that no counter runs into the next segment: the code gives up
    before it would (`increment_text_pc`, `expand_data`), which `Assembler` does not model and `Memory` does for data.
  * `LiteralsStay`, the half of `ImageRight` that is about what has no name in it, for files with `LiteralsClean`
    and under `SegmentsFit`: a literal byte, word or instruction stays in memory as it was emitted. `ImageInv`: no
    two placed items overlap; every use that waits for a symbol is a whole word of an item that names one, so that
    a patch lands inside it; and the symbols that a file has defined so far are known, so that a `.byte` of one,
    which would be patched as a word (15), never waits.
  * `ImageAlways`, the whole of `ImageRight`, for files with `ScopesClean`, `LiteralsClean` and `ReferencesClean` (a
    jump has no addend; what refers to a symbol defined later is an instruction in a text segment or an aligned word
    of data without addend: 15) and under `SegmentsFit`: every reference that sees one definition holds its place,
    whichever came first and in whichever file. `RefInv` follows each entry across files. An item of the file being
    emitted, or one whose symbol all files share (`Shared`: undefined so far, or global and defined before all else),
    refers to the entry that the table has; each of its bytes either waits in a use of that entry or is already right,
    and then the entry moves no more (`ReferencesHeld`). A use is a word that will be patched to what the source says
    (`UsesRight`), for which text and data must be whole words (`WordsWhole`). When a file ends, what it refers to in
    itself is right for good (`PastRight`), although its local labels leave the table; a definition is not taken for
    another one of the same name, since what is known was defined by this file or by a global definition (`Origins`).
    It needs that the bases of the segments are multiples of the word, as those of `memory.h` are.

  Evaluated by TLC on the instance of the `assembler` run, `SegmentsFit` and the inductive invariants of this module
  hold in all its 385,174 states.
* `Instructions_proofs`, for every program of the instructions that `InstructionsAssumption` admits (operands name
  registers), every register file and memory; what the instructions compute (`Alu`) is left uninterpreted.
  `DelaysHidden`: a program that leaves the register of a load alone for one instruction cannot tell that loads are
  delayed, and `$0` reads 0. The invariant (`StepInv`) says that the machine without delays is the other one
  with the loads in flight arrived; while an instruction runs, the two differ at most in the register that the next
  step delivers, and an instruction that does not touch a register neither depends on it nor changes it.
  `FaultsChangeNothing`: an instruction that raises an exception has changed nothing, those of disagreements 5 and 6
  excepted.
* `Explain_proofs`, for every program whose instructions the model has (`ExplainAssumption`). `NarrationHarmless`:
  a look at memory puts `exception_occurred` and BadVAddr back and nothing else, so registers, memory, PC and the
  exception of each instruction are those of the unobserved machine always; EXL, EPC, the cause and the first
  exception are until a look strays, and may differ afterwards, against the comment in the code (disagreement 27).
  The invariant carries both machines' CP0 and says that looks which are refused as the instruction itself leave no
  trace, since the instruction does the same to both. `PseudoTold`: what
  is told as a continuation belongs to the statement, if control came to it from its first instruction (`PendingInv`:
  until the statement is left, the pending name is its own). `ChangesTold`: what a template tells and the fall-back
  comparison of the snapshots together tell every change, with the values before and after. `HintsFresh`: Tab
  offers exactly the commands that were printed, three at least; it needs that no block makes more than five
  suggestions, which have room.
* `Iteration` proves induction up to a bound and what a recursive function on an interval computes, from the least
  element of a set of naturals. The library's theorems take the property as an operator; here it is a set, which
  the provers can instantiate.

Only model-checked:

* liveness (`TransmitterRecovers`, `TypedIsTaken`, `HandlerReturns`, `TimerInterruptTaken`, `FileFinishes`,
  `CommandEnds`, `StatementEnds`), which is out of the prover's reach;
* `ResultsRight` of `Instructions` and, of `TellsRight`, what is told of values: both compare arithmetic of bits and
  powers of two, for which the prover has no theory;
* the properties of `Pseudo` and `Listing`, whose operators descend recursively over statements and tokens, and are
  beyond the induction available.

## Disagreements

`cpu_skips` shows 1 by a run, and `parse_hang` another one. The scanner takes `1,2` for a floating point
literal, `parse_factor` reports it without consuming it and `parse_expr_list` (`parser.c` 1054) tests only for
the end of the line: `.word 1,2` loops for ever, and so do `.word 1, b`, where `b` is a keyword, and `.word
$t1`.

The others were met while modelling. The models do what the code does; the properties leave these cases out or
say what happens in them.

Execution and the handler:

1. The default handler steps over an interrupted instruction (`exceptions.s` 145), although its comment at 138
   says that it must not (`cpu_skips`; `SkipsOnlyInterrupted` states what it does).
2. Stepping displays an instruction after it has executed and clears `exception_occurred` on the way
   (`run.c` 1510), so that a fault is not delivered.
3. A fault in a delay slot is recorded, and its handler is never run (`run.c` 86).
4. `running_in_delay_slot` survives a run that is left by `longjmp` from a delay slot (`run.c` 83); with delayed
   branches, `eret` runs the word after it as a delay slot (421); without `-mapped_io` a timer match is looked at
   only when a run starts (151).
5. A delayed load to `$0` makes `$0` read what was loaded; `LDC1` with delayed loads loses its first half; a
   faulting load writes 0 to its register. `BGEZAL` and `BLTZAL` write `$31` before they test.
6. The guard of `DIVU` is that of `DIV` (`run.c` 409); `ROUND.W` of a negative number is not the nearest;
   `CTC1` writes the read-only FIR, and FCSR before its fault; `SDC1` may store its first word before a fault.
7. A branch that is likely and not taken skips the next instruction without delayed branches too. Offsets beyond
   8191 instructions are truncated (`instruction.h` 93).

Memory:

8. `expand_k_data` clears another range than it has added (`memory.c` 237; comment at 236).
9. A byte or half read of an empty text word dereferences null; a byte or half write there creates an
   instruction; `lb` from text does not extend the sign.
10. `sbrk` of nearly the largest int wraps and ends the simulator; a block from `sbrk` is overlapped by data
    assembled later. `expand_stack` doubles and may refuse growth that would have fit.
11. `run_error` before the first `setjmp` (a full text segment or arguments beyond the stack while loading `-f`)
    jumps to an unset environment.

Assembler:

12. `.globl` after the definition does not keep a symbol (`symbol-table.c` 149).
13. Defining a constant as 0 twice makes loading run for ever (`symbol-table.c` 150).
14. In a file that begins without a directive and ends in the data segment, the instructions at its beginning go
    to the data segment (`parser.c` 341).
15. A data word that refers forward to a label plus a number gets the label alone; a forward reference in a `.byte`
    is patched as a word; one in an unaligned word is not patched (`symbol-table.c` 227). A jump
    to a label plus a number jumps to the label (`instruction.c` 342).
    An instruction in the kernel's data segment that refers forward is never patched, as only those between
    `DATA_BOT` and the stack are written again (`symbol-table.c` 204).
16. `.comm` in a text segment moves the labels of its line to the data segment (`parser.c` 2340); `.word` in a text
    segment goes to data (2358); the size of a `.space` is evaluated before the constants of its file are
    defined (1044); a local label satisfies the reference of a file loaded before it (`symbol-table.c` 145).

Parser, pseudo-operations and encoding:

17. `.word 4-2` stores 4 and -2; `4 - x` is assembled as x + 4, `x * 2` as x. `sub` with a constant of the same
    file reports an undefined symbol and subtracts 0. `lw $t0, 4+x` is rejected, although `parse_address` says
    otherwise.
18. After an error the scanner's `force_id_next` may survive and damage the next line (`scanner.c` 108). Line
    numbers are one too large where the parser has looked past the newline. Lines of one token have no text in the
    listing. `cop2` and `jalr.hb` are accepted and emit nothing; `$f99` is accepted.
19. `bgt` and `ble` with the largest immediate wrap; `sub` of the smallest word adds it; `ulw`, `ld`, `ulh` and
    `ush` with the destination as base destroy the address; trap immediates that do not fit end the simulator.
20. `c.cond.fmt`, `movt`, `bc1fl`, `bc2t` and several rows of the table decode to another instruction, since two
    rows have one pattern or an operand is placed over pattern bits (the set `Lost` in `Listing` and the exclusions of
    `PrintsBack` list all of them).

Debugger and session:

21. A refused breakpoint leaves `break_inst` in an empty text word without a record, where `print` and `step`
    then loop; on a data address it clears the word.
22. An `exit` system call under a breakpoint does not end the program: `run_program` ignores what stepping over it
    returned.
23. `-f good -f missing` and `-f bad -f good` end with status 0 (`parser.c` 2144); so does `run_error` in a batch
    run.
24. With libedit a bare `print`, `breakpoint`, `delete` or `read` ends the session, as `flush_to_newline` finds the
    end of the line's source; without, it swallows the next line.
25. A ^C between `scanner_push_source` and the flag that tells it leaves a source on the stack, of which there is
    room for eight (`spim.c` 769).
26. `initialize_world` does not reset the statics of the devices, of delay slots and of loads, nor
    `first_bad_exception` (`spim-utils.c` 82).

Explain mode:

27. Looking at memory for a bad address changes EXL, EPC and Cause and `first_bad_exception`, so that the exit
    status of a program differs under `-explain` (`explain.c` 418 says that it must not); a program that reads CP0
    or returns from its handler may run differently. `NarrationHarmless` names the case.
28. An instruction that is reached by a jump or a return into the middle of an expansion is told as a continuation
    of the pseudo-operation that was expanded last (`pending_pseudo_name`).
29. The target told of a branch is one instruction too far without delayed branches (`explain.c` 1010 and 1032;
    `BranchTold` states it); the value before a byte or half store is told as 0 off a word; the memory written by
    `swl`, `swr` and `sc` is not told; a faulting store is told as a write.

The `asm` command:

30. `asm` emits the whole tree of the file read last, or of the handler, once more behind the text
    (`spim.c` 1067, `parser.c` 2194); an empty line repeats it with standard input, up to its end, as the source.
    Re-emission of a handler that sets its own address would overwrite a breakpoint planted there.

## Not modelled

Formatting, wording and layout of messages; the input and output of system calls; the spelling of numbers and
strings and lines beyond the scanner's buffer; the build without libedit; the `.half`, `.float`, `.double` and
string directives in the emit phase, which are emitted as `.word` and `.byte` are with other sizes; segment
directives with an address. In `Assembler` a jump and `la` stand for the instructions that name symbols: the
offsets of branches, the carry of a load's offset into its `lui` and the range of an immediate field
(`symbol-table.c` 230-300) are left out, and so is the error when the text segment is full. In `Session` the
lines given to `asm` define and use no symbols and have no errors, and no breakpoint is set in the handler's
text. In `Explain` loads and branches are not delayed, nothing reads CP0 or returns from the handler, there are
no interrupts, of a string that is read only the first byte is modelled, and `$a3` shares a register with `$ra`.
`PROJECT.json` lists every component with its status.

## Plan

1. `Cpu` with the devices of `MappedIO` in place of its arbitrary device lines.
