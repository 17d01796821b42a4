# Audio-DSP-RISCV in TLA+

This directory models the system of the repository: the RISC-V core `picorv32` with
its co-processors (multipliers, divider, and the audio unit this repository adds), the
bridges between the core and its memories, PicoSoC (bus, flash controller, UART), and
the programs that run on them: the noise cleaner, the firmware of PicoSoC and the
Dhrystone benchmark. TLC checks the models on small instances, TLAPS proves the most
important properties for every instance. Paths are relative to `src/`.

1. [The system](#1-the-system)
2. [The modules](#2-the-modules)
3. [The runs](#3-the-runs)
4. [The proofs](#4-the-proofs)
5. [Disagreements between the code and its documentation](#5-disagreements)
6. [What is not modelled](#6-what-is-not-modelled)
7. [What is left](#7-what-is-left)

## 1. The system

| component | source | state it keeps | operations | modelled by |
|---|---|---|---|---|
| core: memory interface | `picorv32.v:379-671` | `mem_state`, `mem_valid`, the request, `mem_rdata_q` | ask, take an answer, keep a prefetched word | `PicoCore` |
| core: decoder | `picorv32.v:674-1198` | two stages of decoded flags, the triggers | decode at the end of a fetch, decode again a cycle later | `PicoCore` |
| core: main machine | `picorv32.v:1200-2005` | `cpu_state`, `reg_pc`, `reg_next_pc`, `latched_*`, `mem_do_*` | fetch, ld_rs1, ld_rs2, exec, shift, stmem, ldmem, trap | `PicoCore` |
| core: interrupts | `picorv32.v:1470-1475, 1535-1585, 1697-1725, 1945-1993` | `irq_pending`, `irq_mask`, `irq_active`, `irq_state`, `timer`, `eoi` | raise, mask, enter, return, wait | `PicoCore` |
| core: co-processor port | `picorv32.v:256-376, 1453-1460` | `pcpi_valid`, the time-out | offer, answer, claim, give up | `PicoCore`, `PicoPcpi` |
| `picorv32_pcpi_mul` | `picorv32.v:2227-2346` | operands, sum and carries, counter | start, step, finish | `PcpiMul` |
| `picorv32_pcpi_fast_mul` | `picorv32.v:2348-2443` | a pipeline of two or four stages | start, answer | `PcpiFastMul` |
| `picorv32_pcpi_div` | `picorv32.v:2450-2540` | dividend, divisor, quotient, its mask | start, step, finish | `PcpiDiv` |
| `picorv32_pcpi_audio` | `picorv32.v:2563-2845` | none | ten instructions, in the cycle of the offer | `AudioOps`, `PcpiAudio` |
| `picorv32_axi_adapter` | `picorv32.v:3068-3145` | `ack_*`, `xfer_done` | drive the channels, mark what is accepted | `AxiBridge` |
| `picorv32_wb` | `picorv32.v:3152-3388` | `state`, `mem_ready`, the bus registers | IDLE, WBSTART, WBEND | `WbBridge` |
| test memories | `testbench.v:278-480`, `testbench_wb.v:189-293` | the words, latched requests | accept, perform, answer | `AxiBridge`, `WbBridge` |
| UART | `picosoc/simpleuart.v`, bus side `picosoc/picosoc.v:120-128, 190-206` | divider, shift registers and counters of both directions | send a byte, idle frame, receive a byte | `SimpleUart` |
| flash controller | `picosoc/spimemio.v` | configuration, state, transfer unit, the words read ahead | read a word, read ahead, jump, reset by a write, hand the pins to software | `SpiMemio` |
| flash | `picosoc/spiflash.v` | command, address, mode, dummy clocks, continuous reading | take a byte, take a clock, select, deselect | `SpiFlash` |
| PicoSoC bus | `picosoc/picosoc.v:100-260` | `ram_ready`, the request | route, merge the answers | `SocFlash` |
| PicoSoC firmware | `picosoc/firmware.c`, worker in `picosoc/start.s` | its place, timers, what it wrote | boot, menu, commands, memory test, flash modes, benchmark | `FlashFirmware`, `SocMemtest`, `SocConsole` |
| audio firmware | `firmware/main.c`, `aux.c`, `aux.h` | the filter's history, the buffer | check the header, clean a sample, report | `AuxOps`, `NoiseClean`, `AudioDemo` |
| its host program | `testbench.cc` | the files | load the input, dump the output | `AudioDemo` |
| Dhrystone and its library | `dhrystone/dhry_1.c`, `dhry_2.c`, `stdlib.c` | the benchmark's variables | main and its procedures; string functions, `printf` | `Dhrystone`, `DhryLib`, `DhryLibCalls` |

Boards, start-up code, instruction tests, scripts and linker files are not modelled
(section 6).

**How they interact.** The core asks its memory by `mem_valid` with an address,
data and byte strobes, and holds them until `mem_ready`; a bridge turns that into
channel handshakes and back, and PicoSoC routes it by address to the RAM, the flash
controller, the controller's register or the UART, whose ready signals share one
wire. The controller reads words from the flash byte by byte and reads ahead; the
firmware that runs *from* that flash writes the controller's register, and for other
commands a worker copied to RAM takes the flash's pins and gives them back. The core
offers an instruction it does not know to all co-processors at once by `pcpi_valid`;
one of them claims it by `pcpi_wait` within a time-out, or answers by `pcpi_ready`;
otherwise the core treats it as illegal. Interrupt lines, the timer, illegal
instructions and bus errors meet in `irq_pending`. Inside the core the main machine and
the memory machine run side by side and talk through `mem_do_prefetch`,
`mem_do_rinst`, `mem_do_rdata`, `mem_do_wdata` one way and `mem_done` the other. The
noise cleaner works on a WAV file that the host puts into its memory before it starts
and reads back after it has trapped.

**What is hard.** There are no threads: everything in the hardware happens at clock
edges. The difficulty is in the overlap. The next instruction is prefetched and decoded while
the current one executes; a jump, an interrupt, a trap or a reset arrives in any
cycle of that; the memory answers after any number of cycles; a request may be
dropped and made again; non-blocking assignments make the *order of statements* in
one edge significant (the `set_mem_do_*` at the end of the main machine); flags
that reset does not write keep their old values; a bridge's flags outlive the
transfer by a cycle while the next request is already there; a flash that is cut off in
the middle of a byte remembers part of it. The programs are sequential; theirs are
the numbers: widths that wrap, sizes that a file only claims, a counter that wraps
within a wait, words compared byte-wise.

**What makes each part correct.**

- *memory interface*: one request at a time, stable until answered, never without an
  owner in the main machine; the look-ahead signals announce what happens next.
- *fetch and decode*: the instruction that starts is the one at the
  architectural program counter; both decode stages describe it for as long as it
  runs; its result goes to its own register; its data access happens exactly once.
- *interrupts*: no latched interrupt is lost, the return address is right, an
  interrupted program makes progress, `waitirq` wakes up.
- *co-processors*: an answer belongs to the instruction offered, two units never
  answer at once, a unit at work is not given up, the results are those of the
  instruction set (M extension) and of the repository's README (audio).
- *UART*: the byte that arrives is the byte that was written, once, also after a reset
  or a change of the divider in the middle of a byte.
- *flash*: the word the core gets is the one it asked for, in every mode and after every
  change of it; the flash and the controller agree on what the next byte means.
- *noise cleaner*: its output is the cleaned input, computed as its description says in
  exact arithmetic, and nothing outside its buffer is touched.
- *other programs*: prompts come in time, the memory test fails the RAMs it should, the
  benchmark and the library leave the values that the C standard prescribes.
- *bridges*: each request of the core is performed exactly once, between request
  and answer, with reads returning the memory's word; channels hold while valid;
  every request is answered.

`PROJECT.json` lists the hazards behind these, each at its line, with the properties
that cover it.

## 2. The modules

All models step on clock edges. A register is a variable, a wire a state function,
an edge one action: what is read before an edge and what is assigned at it are kept
apart as in the Verilog.

### PicoCore

The core with `COMPRESSED_ISA = 0` and `CATCH_ILLINSN`, `CATCH_MISALIGN`,
`ENABLE_COUNTERS`, `ENABLE_IRQ_QREGS` at their default 1. The other parameters that
change control flow are constants of the module.

*Data abstraction.* A program counter counts halfwords modulo `2*NWords` (odd ones
are misaligned). An instruction word is the address it was read from, its class
and its displacement; memory may return any instruction at any address, so a
run covers every program over its classes at once. The operands of a branch or a
jalr are chosen where the code reads the registers. All other data is `Undef`,
which also stands for `'bx`.

*Actions.* `Cycle` is the clocked block of `picorv32.v:1432-2005` with one disjunct
per case of `cpu_state` (`StFetch`, `StLdRs1`, `StLdRs2`, `StExec`, `StShift`,
`StStMem`, `StLdMem`, `StTrap`), each split by its branches, together with the
memory machine (`MemStep`), the decoder and the time-out of the same edge
(`SharedCycle`). `MemDo` is the end of the block: `mem_done` clears the requests,
then the `set_mem_do_*` set them. `Reset` is an edge with `resetn` low; registers
it does not write keep their values.

*History variables* (`arch_pc`, `arch_ret`, `running`, `accesses`, `returned`)
record what the instruction set prescribes, so that properties can
compare; no action reads them in a guard.

`MCPicoCore` gives the instruction classes and inputs of the three runs.

### AudioOps, PcpiAudio

`AudioOps` has the ten audio instructions as functions of two words
(`picorv32.v:2563-2845`), with the width of a byte and of a word as parameters and
every intermediate result wrapped at the width of the Verilog register that holds it.
`PcpiAudio` is the unit: it answers in the very cycle of the offer and never asserts
`pcpi_wait`.

### PcpiPort, PcpiMul, PcpiFastMul, PcpiDiv, PicoPcpi

`PcpiPort` declares the port the units share. `PcpiMul` is the carry-save
multiplier with its chains of `CARRY_CHAIN` bits; `PcpiDiv` the restoring
divider; both step for step, in words of `XLEN` bits. `PcpiFastMul` is the multiplier
that may take the place of `PcpiMul`: a pipeline that answers two cycles after the offer,
or four with `EXTRA_MUL_FFS`, in which case `MUL_CLKGATE` may clock only the stages in use. It
never claims its instruction, so its answer races the time-out. `PicoPcpi` composes one
of the multipliers with the divider, the
audio unit, the multiplexer (`picorv32.v:351-376`), the time-out, and the core's
side: it offers an instruction, holds the operands, and takes the answer or gives up.

Two facts are built into the environment, because the code relies on them:

- a reset lasts at least two cycles (`MinReset`). A reset of one cycle leaves
  `picorv32_pcpi_mul` to start on the last offer and multiply without a request;
  all boards and test benches of the repository hold reset far longer.
- between two offers at least the cycles pass that the core needs to fetch
  (`Pause`).

`scripts/smtbmc/mulcmp.v` asserts that the slow and the fast multiplier give equal
results; here both are compared with the same `Reference`, which says more. Two settings of
the fast multiplier that no instance of the repository makes are left out, because the
unit would not work with them: with `EXTRA_INSN_FFS` it looks at a copy of the offer that
is a cycle old, so it starts again on the offer it has just answered and raises
`pcpi_ready` some cycles later, when the core may have the next instruction offered; with
`MUL_CLKGATE` but not `EXTRA_MUL_FFS` the product register is clocked only after the
answer, which is then the product of before (`picorv32.v:2399-2436`).

### NativeMem, NativePort, AxiBridge, WbBridge

`NativeMem` is the abstract specification: a memory, at most one request, at most
one answer; `Ask`, `Perform`, `Take`, and `Abort` for a reset, which may or may not
let the request through. It is what `PicoCore` assumes of its environment.
`NativePort` is the core as a bridge sees it, including `SecondWord`: a compressed
core keeps `mem_valid` set from one read to the next.

`AxiBridge` is `picorv32_axi_adapter` with `axi4_memory` of `testbench.v`, which
works on both clock edges and lets pseudo-random bits decide what goes ahead: the
set `D` of an edge. The test memory's `ready` flags and its `fast_*` flags are always
equal, so the model has one set `accepted` for both. That memory has no reset, while
`scripts/smtbmc/axicheck.v:94-102` assumes the bus is reset with the core; the
model follows the latter (`MemoryReset`). Without it an answer to a request of before
the reset would be taken for the next one.

`WbBridge` is the bridge of `picorv32_wb` with `wb_ram` of `testbench_wb.v`. That
memory acknowledges after one cycle; `MaxWait` admits slower ones.

Both map to `NativeMem` by the same refinement mapping: `request` is the core's
request while `mem_valid` is set, `answer` the read data while `mem_ready` is set too.

### SimpleUart

The transmitter of `picosoc/simpleuart.v` behind the bus of `picosoc/picosoc.v`, which
holds a write to the data register until the transmitter takes it, and the receiver of
a second UART at the far end of the line. The near side may be reset at any edge and
software may write its divider at any time, so a frame may stop anywhere; the far
side keeps its divider and is not reset. After a reset or a divider write the
transmitter sends an idle frame of 15 bits (`SendDummy`), because the far end may
believe to be in the middle of a byte. Three limits are deliberate:

- software writes the divider before it sends (`Accesses`), as `picosoc/firmware.c:669`
  does; with the divider of reset the far end would see another speed;
- a divider of 0 is excluded (`DivAssumption`): a bit then takes two cycles, and
  each sample of the receiver falls into the first cycle of the following bit;
- counters that nobody compares stop at `MaxCount` (the code lets them run).

`flight` is history: the byte accepted and not delivered, or `Noise` from a reset or
a divider write under a byte until the next byte is accepted.

### SpiFlash, SpiMemio

`SpiFlash` is the flash as a record and the effect of a byte, a clock and chip select
on it. Where sender and flash agree on the lanes and neither has a bit left over, a byte
is one step; where they do not, or a byte is cut short, the flash takes single clocks and
what it puts together is `Junk`. A byte of the memory is its own address. The registers for
latency and quad reads that the firmware writes exist in the real chips only, not in
`spiflash.v`; they are modelled from how `firmware.c` uses them.

`SpiMemio` is the controller, one step per clock edge: the sequence of states 0 to 12
(wake the flash, command, address, mode, four data bytes, four more while nobody waits), the
tags by which an arriving byte finds its place, and the transfer unit. The latter
is exact about when it takes a byte and when it hands one on, including the delayed
hand-on in DDR mode; that a byte takes 1 to 16 clocks and its dummy clocks is abstracted
to *any number* of edges, which covers every speed. A jump or a write to the configuration
register may therefore come at any point of a byte, and then any number of its clocks
has reached the flash. `Held` forgets the words read before a reset of the controller, so that
a use of them would be seen.

### FlashFirmware, SocFlash

`FlashFirmware` has the programs of `picosoc/firmware.c` that reach the controller as the
sequences of their calls: boot, the mode keys, flash ID and registers, the benchmark. A call
sets the register or is one of `flashio`, and `Writes` gives the writes to the register that it makes, with
the worker of `flashio` in RAM (`enter`, `manual`, bytes, `memio`).
`SocFlash` composes them with the controller, the flash, the RAM and the bus of `picosoc.v`; `calls` are the
calls that are left of a command and `step` is the write that the first of them is at (`Op`).
Between two writes the core fetches words of the flash in any order (`Fetch`), which
stands for whatever code runs there, with an idle cycle between two words or, for the second word of
an instruction that is not aligned, none (`FinishOn`; the core of PicoSoC has compressed instructions); inside
the worker it fetches none, as the worker is in RAM. The two boards differ in the commands they send and in the latencies of their
flash. Every command can be followed by every other, key 7 in every mode, and the benchmark of the HX8K
goes through all six modes.

`lost` is history: set once the firmware has led the flash into one of two states that the controller does not
bring it out of (`Losing`). One is continuous reading on one lane, by key 7, which is not among the modes that
`picosoc/README.md:86-96` calls valid. The other is the *end* of continuous reading on two lanes, which is
among them, by any write to the register; that it loses the flash is the disagreement run `soc_dual` shows. The other
properties of the flash speak of the time before.

### SocMemtest, SocConsole

`SocMemtest` has the memory test as a function of a RAM and its fault (a data line stuck at
one or zero, an address line stuck at zero), with the pseudo-random words of `xorshift32`
computed exactly, and `print_hex` and `print_dec`. `SocConsole` is `main` of
`firmware.c` with `getchar_prompt`, the menu and the echo: `rdcycle` wraps
at `CycleRange`, prints and commands take any of a few durations, the user may
type at any time, and the receive register holds one byte. `since` is history: the cycles
that really passed in a wait.

### AuxOps, NoiseClean, NoiseGate, AudioDemo

`AuxOps` are the wrappers of `firmware/aux.c`. `NoiseClean` is
`noise_clean_samples`, one iteration per step, in place, each step of the filter computed by
the audio instructions and 32-bit arithmetic of the code with its wrap-around. All its
constants are given relative to the width of a lane; `ByteHalf = 128`, `WordBits = 32`,
`NoiseShift = 6` are the code's.

`NoiseGate` is the abstract specification: what the cleaner does to its samples in exact
integers, without instructions, ring buffer, predictor and compression. `AudioDemo` refines
it: the four slots of the ring are the list of the last four levels, `prev_x` is the last
sample. So the refinement also states that two parts of the code are without effect: the
LMS predictor (its result reaches only its own coefficients) and the compression at
`env_avg > 200` (no four levels, of at most 117 each, have that mean). `AudioDemo` adds the host program that
loads the WAV file and dumps the buffer: files of any header, too short, too long or with an
odd byte, missing arguments, failing reads, and writes that stop at any of three places.

### Dhrystone, DhryLib, DhryLibCalls

`Dhrystone` is the benchmark statement by statement (a turn of a loop is a step), its procedures as operators on the
record of globals. `DhryLib` has the string functions with their word-wise loops (`memcpy` byte by byte, as the code is) and
`printf`; `DhryLibCalls` compares each with what the C standard asks for. `MCPrograms`
runs one of the programs per behaviour: the noise cleaner, the console, the benchmark, the library, or the UART
they print through. They share no state; their variables stand side by side.

## 3. The runs

| run | module, configuration | distinct states | what it shows |
|---|---|---|---|
| `core_pcpi` | `MCPicoCore`, `PicoCore_pcpi.cfg` | 614,251 | registers, decode, targets and the co-processor port in the slow configuration |
| `core_irq` | `MCPicoCore`, `PicoCore_irq.cfg` | 665,702 | interrupts at every point of a program and its handler |
| `core_live` | `MCPicoCore`, `PicoCore_live.cfg` | 72,959 | every instruction ends; `waitirq` wakes |
| `audio_ops` | `MCPcpiAudio`, `Audio_ops.cfg` | 720,909 | the ten operations against exact arithmetic |
| `pcpi` | `MCPicoPcpi`, `Pcpi.cfg` | 369,981 | multiply and divide on all operands, offers in a row, three multipliers |
| `audio_mix` | `MCAudioDemo`, `Audio_mix.cfg` | violation | section 5 |
| `bus_axi` | `AxiBridge`, `Axi.cfg` | 15,712 | the AXI bridge refines `NativeMem` and answers |
| `bus_wb` | `WbBridge`, `Wb.cfg` | 58,360 | the Wishbone bridge refines `NativeMem` and answers |
| `soc_flash` | `MCSocFlash`, `Soc_flash.cfg` | 959,468 | every fetch gets its word, and every command reaches the flash, while the firmware switches its modes, until it is lost |
| `soc_live` | `MCSocFlash`, `Soc_live.cfg` | 459,185 | every fetch is answered, also of a flash that is lost |
| `soc_dual` | `MCSocFlash`, `Soc_dual.cfg` | violation | section 5 |
| `programs` | `MCPrograms`, `Programs.cfg` | 204,806 | the noise cleaner refines `NoiseGate` and works only on files it accepts; prompts in time, the memory test's verdicts, Dhrystone's values, the library; sent bytes arrive, once and whole, also after an interrupted byte |

**Bounds of the core runs.** Three words are enough for an instruction, its
successor and a target that is neither, with the interrupt vector at the last;
displacements include an odd one. The memory may answer at any edge. The
classes of instructions are divided over the runs by the
mechanism they exercise, since all of them at once only multiply states. Three or four
interrupt lines: timer, ebreak and bus error are the ones the core raises, a
fourth is external. `PcpiTimeout` is 2 (15 in the code): the counter has every
relation to an answer (before, at, after). Shifts start at 0 and 5 so that steps of
four, of one and of none occur. The handler of `core_irq` loads the timer with 2 or 5: with 5 it may
expire in the very cycle in which an earlier interrupt of the timer is acknowledged. The two register-file organisations and the two slow ALU
options each appear on and off. The proofs of section 4 have none of these bounds.

**Bounds of the audio runs.** `audio_ops`: `ByteHalf = 2` and `WordBits = 8`, that is bytes of 2
bits, lanes of 4, words of 8. All widths keep the relations of 8, 16 and 32 bits, so every
sum that reaches a boundary in the code does so here; all pairs of words are tried.
The noise cleaner in `programs`: one size larger, as a lane of 4 bits has no room for the thresholds. Seven samples
turn the ring of four around and leave it in the middle; the samples are chosen so that
each gain and both sides of the soft clip occur. Short files have every header
and every combination of arguments.

**Bounds of the co-processor run.** `XLEN = 4` with chains of 2 bits: two chains,
so that carries cross one. In one program one offer with all pairs of operands; in the
other boundary operands for three offers of different units, with garbage on the operand
wires in between; resets at any cycle. `PcpiTimeout = 4` is the
smallest value that works with the four stages of the fast multiplier; the 15 of the code leaves more
room. The constant `Multipliers` also admits the four stages without clock gates; that
build differs from the gated one only in registers nobody looks at, and is left to larger runs.

**Bounds of the bus runs.** Two addresses and two values tell a right word from a
wrong one. The AXI run has one lane (present or absent in the strobes), the
Wishbone run two, so that a partial write occurs.

**Bounds of the UART (in `programs`).** Dividers 1 (from reset) and 2 (set by software, and at the
far end): one odd, one even, so that "half a bit" is rounded both ways and a broken
frame has another speed than the next. The bytes 63 and 255 have both levels, an edge
inside the byte, and (255) one that looks like an idle line.

**Bounds of the flash runs.** `Base = 4` makes an address byte two bits, so 64 bytes of
flash; the words at 4 and 8 are successors (the controller reads the second ahead) one way and
a jump the other. `MaxLatency = 1` and `Registers = 1` shorten the loops of two commands, all
other commands are whole. `soc_flash` has both boards and every key. `soc_live` has the commands of the
iCEBreaker only, because liveness on the graph of both boards takes too long; the worker, which takes the pins and
gives them back, is the same in both. `soc_dual` types the one key for the benchmark on the HX8K.

**Bounds of the other programs.** A RAM of the 128 words `firmware.c` defines and one of 2048, walked in several strides and with every kind of address line (the 32768 of the iCEBreaker only lengthen the walk); the fault is any
single line of 32 data (either level) and 11 address lines. `CycleRange = 8` with
`Timeout = 3` makes the counter wrap in most waits. Dhrystone has its 100 runs. The string
calls take all strings of up to 5 (strcpy) or 4 bytes over {1, 128, 255} or {1, 128}, the values that decide the
borrows of the zero-byte test, in all four alignments of both addresses. Deadlock is not
checked: three of the programs end, and `ProgramSpec` is fair to the UART alone.

**Fairness.**

- `PicoCore!FairSpec`: the clock runs, there is no reset, and the memory answers
  every request (`MemoryAnswers`); a memory that never answers stops the core by
  design. Co-processors stay silent, as the time-out promises to suffice.
- `PicoPcpi`, `AxiBridge`, `WbBridge`, `SimpleUart` (`UartProgress`): weak fairness of the clock edge *whether or not
  reset is asserted again* (`Clock /\ (resetn => resetn')`): a liveness property must
  not be satisfied by a reset that fairness forces.
- `AxiBridge`: strong fairness of a rising edge on which all bits of the memory's
  generator are set. The memory draws these bits from an xorshift sequence
  (`testbench.v:326-345`) that takes every value again and again.
- `SocFlash`: weak fairness of `Progress`, a clock edge on which a byte that is on the
  wires ends. The clock runs, and a byte takes at most 31 clocks (16 of a slow byte or 15 dummy
  clocks and the byte), so any behaviour of the chip has such edges for ever.

Each property of each passing run is also shown to depend on the code: `PROJECT.json` lists a
mutated definition for it, kept in the modules and marked *Mutant*, under which
TLC finds it violated.

## 4. The proofs

All by TLAPS, for every value of the constants that satisfies the modules'
assumptions, and without anything assumed beyond them.

**PicoCoreProof.** `TypeCorrect`: every register keeps its type. `ControlCorrect`: the
invariant `ControlInv`, and from it `RequestsAreExclusive`, `TransfersHaveOwners`,
`RequestsDoNotOverlap`; and the action properties `RequestsAreStable` and `TrapIsFinal`.
Four of these state no property of a run any more: what is proved for every instance needs
no small one.

`RequestsExclusive` and `TransferHasOwner` are the assertions the authors wrote into
the memory interface (`picorv32.v:576-593, 625-664`), and neither is inductive: a step
that makes a new request is only safe because the main machine is in a state in which
the old one is finished. `StateRequests` says which requests each state can have
outstanding. Two of its parts carry the argument: a load or store keeps its prefetch
outstanding from `ld_rs1` until it replaces it by the data request
(`mem_do_rdata <=> ~mem_do_prefetch`), and the fetch state launches an instruction only
with no request left (`Quiet`), because `decoder_trigger` is set by the completion of
the fetch. The proof has one lemma per state of the main machine, each with the
memory machine's lemma `MemStepOwner`.

*The program.* All other safety properties of the core: that it runs the program
(`LaunchesTheNextInsn`, `AccessesDataOnce`, `WritesItsOwnRegister`, `KeepsDecodedInsn`,
`TargetsAreDefined`), the interrupts (`SavesReturnAddress`, `AdvancesBetweenInterrupts`,
`LosesNoInterrupt`, which also says that a timer that expires while another expiry of it is acknowledged
stays pending), the co-processor port (`PcpiIsOwned`) and the look-ahead signals
(`HonoursLookAhead`); for programs of any size, every combination of the core's parameters and any
memory. None is inductive. The invariant `ProgramInv` has ten parts:

- `FetchInv` is the heart: the word on its way, kept or decoded is the one at `Target`, the place the next
  fetch will be for. It needs
- `CounterInv`, that the architectural counter is `reg_next_pc` while an instruction
  runs and what `latched_branch` selects afterwards, and
- `JumpInv`, that a jump leaves its successor unrequested and a branch has it on the way
  (else the prefetch of the successor would be taken for the target);
- `StagesInv` ties both decode stages to `mem_rdata_q`, and `RunningInv` says which
  instructions a state runs and what they have accessed: without it `stmem` could follow a load;
- `OperandsInv`: in the slow configurations the comparison and the target are used a
  cycle after they are registered, when `alu_wait` is over;
- `RegisterInv` gives the destination of the write-back, through the entry of an interrupt;
- `InterruptInv`: nothing masked by the configuration pends, and `irq_delay` holds the
  next interrupt back after a return; `PcpiInv` and `BusInv` are the corners: no offer
  in a core without the port, no fetch that writes.

There is one lemma for each branch of each state, and one for what a cycle does to the two
machines at once.

**WbBridgeProof.** `ImplementsNative`: `Spec => ServesCore`. The invariant `BusInv`
says that the bus is quiet between transfers, carries the core's request during one
(and, with the acknowledgement, the memory has the right address and word), and that
`mem_ready` meets `mem_valid` only in `WBEND`. The last part is what makes an
unreset `mem_ready` harmless.

**AxiBridgeProof.** `ImplementsNative`, `ChannelsAreHeld`, `QuietBetweenRequests`. The
invariant `BusInv`: before the answer the memory has latched exactly the channels that
are marked or ready (`latched_en = ack \cup accepted`), after it all of the request's
channels are, and none is latched; and in the cycle after a read that was followed
at once (`xfer_done` with `mem_valid`) the old mark on the read channel holds the
new request back. Each clock edge is then an `Ask`, a `Perform`, a `Take`, an `Abort`
or a stutter of `NativeMem`.

**PicoPcpiProof.** The co-processors other than the audio unit, for every word width, chain
length, multiplier, program of offers and moment of a reset (the time-out at least 4).
`ClaimedInTime` (`NeverGivenUp`): the core never gives up an instruction that a unit
executes. `AnswersAreResults` (`AnswersOffer`): an answer belongs to the instruction that is offered, comes
from one unit and is what the instruction set prescribes. `LoopsAreRight` (`LoopsKeepResult`): in every
cycle the registers of the multiplier's and the divider's loop make up the exact product or the dividend.

- The control invariant (`Control`) ties each unit to the age of the offer: it takes
  the offer up in its first cycle, claims it in the third, and holds the counter from then on; between
  offers it forgets within the cycles that the core pauses. No unit can thus answer an offer that is gone.
- The data invariant (`Data`) is one equation per loop. For the multiplier: sum and carries are, modulo
  the double word, the product of what is shifted out of the first factor so far and the second. A step keeps it
  because a chain of carry-save adders keeps the sum of its three inputs and hands one carry on
  (`CarrySave`, by induction over the chains); at the end no carry is left. For
  the divider: quotient times divisor and rest make up the dividend, with the rest below
  the divisor at the end.
- The arithmetic rests on `DivModIs` (quotient and rest are unique) and on induction. The induction
  theorems of the library take an operator; here the least element of the set of
  counterexamples is taken instead (`Smallest`, `Induction`). Powers of two are known by
  `PowersAssumption`, which TLC evaluates for the constants of each run.

**AudioProof.** Three parts.

- *The unit.* `UnitTypeInvariant`, `ResultsAreNearest` and `ShiftsRoundToNearest`: for every width each of the
  ten instructions gives the exact result, or the nearest that fits, for every pair of words.
- *The buffer.* `StaysWithinBuffer`: for every file the firmware cleans no sample
  behind its buffer; it holds because the host cuts the size in the header to what it has
  read, and needs the invariant that the header in the buffer is that cut one or none.
  `OutputCameFromInput`: what is dumped comes from a file that passed every check, all its samples
  were cleaned and none behind them touched.
- *The filter.* `FirmwareIsNoiseGate`: `Spec => ImplementsNoiseGate`, for every width of a sample. Each instruction's
  lemma says what number it leaves (`MacValue`, `EnergyValue`, `PackedBytes`, `ClipValue`, `NoiseValue`,
  `MeanValue`, `GainValue`, `MixValue`), and `IterationKeepsPromise` puts them in the order of the
  code. The points of the argument: the thresholds are computed in words that may wrap, and they do so only when
  the energy is below the first of them, so that the gain is decided before; a mean of four levels is
  below `ByteHalf`, so the compression never acts (`NoCompression`); the predictor's
  result reaches no sample; a ring of four slots with an index is the list of the last four levels (`RingMoves`).

**ProgramsProof.** `TurnsOverOnTime`: with a counter that wraps, the lamps turn over
exactly when more than `Timeout` cycles have passed. The invariant: the difference of the two readings is
`since` modulo `CycleRange`, and in a wait `since` is at most `Timeout + 1` (one poll past the
limit), which is smaller than `CycleRange` by assumption. `PrintsWhatItShould` (`FinalValues`): Dhrystone leaves the
values it prints as expected, for every number of runs that an `int` can count. The invariant says what the comments
of `main` say, at each place (`LocalsInv`, `GlobalsInv`), and what carries over from run to run: the first
record keeps all fields but one (`BeginInv`), so that `Proc_1` meets the same records in the first run,
where the second one is still what `malloc` returned, as in all others. It also shows that the
loops of `Func_2` and `Proc_2`, which turn for ever on other values, end (`LoopsEnd`), and that no run divides by zero.

*The UART.* `TransmitterKeepsPace` (`DeliversSent`), for every divider of both ends, every set of bytes, and a
reset or a divider write in any cycle. While a byte is on the line (`LineInv`) the receiver follows the
transmitter at a fixed distance, which `InStep` states for each bit and cycle: it samples bit `k` in the cycle
`FarDiv \div 2 + 2` of that bit, so also in the stop bit it is done before the frame ends; what is left
in the one shift register and what has arrived in the other are the two parts of the byte (`Sent`, `Received`).
While none is on the line (`IdleInv`) the cycles that the receiver needs until it waits again are at most those that
the transmitter is still busy: an idle frame is 15 bits, a receiver that saw a false start needs less than 10, and
both count down by one per cycle. That is why a byte that is accepted finds the far end waiting (`FoundWaiting`).

**SocFlashInv, SocFlashProof.** `AnswersOwnRequest`: no slave answers another's request. The RAM's ready comes
a cycle after its request, and in that cycle the request stands because `RamEdge` looked at the
joined `mem_ready`.

*The flash.* The other safety properties of `SocFlash`: `FetchesAreRight` (`FetchesRight`), `ReadsBeginRight`
(`FlashExpectsNextByte`) and `CommandsReach` (`CommandReachesFlash`), for flashes of any size, both boards, any words,
any keys in any order and a byte that takes any number of clocks. They have no hypothesis about the firmware:
all modes of the benchmark and key 7 in every mode are covered, and so is continuous reading on two
lanes while it lasts. What they say holds until the flash is `lost` (section 2), which is as much as is
true: from then on TLC finds fetches answered wrongly (section 5). The invariant is `lost \/ Inv`: each step from
`Inv` leads to `Inv` or to `lost`, and `lost` stays (`LostStays`). `Inv` has four parts, each a conjunction of named ones:

- `ProgramInv`: what may be left of a command. Each command is a sequence of calls in which only some may follow
  others (`Follows`): a call that changes the latency of the flash comes right behind the write that sets
  the same latency in the controller, and on the HX8K with all modes off (`ProgramOk`); the worker makes no
  fetch while it has the pins (`BusOk`). `Boot` and each of the commands is shown to be such a sequence
  (`WellFormed`), for every length of its loops. `RegisterOk` says that continuous reading is on with two or four
  lanes only, and that the worker never begins in it on two lanes, as its first write would end it.
- `ControlInv`: the controller, whatever the flash does. For each state, the byte it offers, the one on
  the wires, its lanes, dummy clocks and tag (`RunningOk`), and what the two bytes of a restart
  are and that each has a chip select of its own (`RestartOk`).
- `FlashInv`: the flash against the controller. While the controller restarts, or is about to, the flash may
  have up to 8 dummy clocks to go or be in continuous reading, but it writes nothing (`SafeOk`); the FF
  brings it out of that and the AB wakes it up (`StartOk`); from then on its bytes and lanes follow
  the states (`ReadyOk`). While the worker has the pins the flash has exactly the bytes the
  worker sent (`ManualOk`). Outside the two writes that change it, the latency is the same at both ends (`AgreeOk`).
- `DataInv`: the flash drives byte `Turn` of the word `current` and will go on with the one behind it, the buffer has
  those before it (`BytesCome`), and in DDR mode, where a byte is handed on late, the last of a
  word may arrive after the next word was begun (`LateComes`).

Only `ReadyOk` mentions the property `FlashExpectsNextByte`; all of the rest is needed because a byte may be cut short
at any clock, by a jump of the core or by a write to the register. The flash then gets an
unknown number of clocks, and the argument is one about sets: the states it can be in after any number of them
(`PastSet`, `CutSet`) all lie in a set that the restart leads back from (`XipSet`, `WakeSet`). How
`n` clocks change the flash is by induction over `ClockRun`, with the set of the numbers for which it
holds (`Induction`). `SocFlashInv` has the invariant, these facts about the flash alone, and what the commands of the
firmware do; `SocFlashProof` the edges. Each edge is then one of four for the flash: none, clocks of a byte, a whole byte, or the
chip select.

**Only model-checked**: all liveness (fairness and ENABLED are out of the prover's reach), and the memory test
and the C library (`TestSeesFaults`, `LibraryAgrees`), which are recursion over data.

## 5. Disagreements

Shown by a run:

- `audio_mix`: the comments at `firmware/main.c:175-177` say that step 8 mixes the high-passed
  sample and the DC estimate with the weights 0.75 and 0.25 in Q1.15. CMAC does not
  scale its products back by 2^-15, it saturates the full sum: any audible sample becomes
  16384 times too large, and the mix only takes the values 0, 16384, 32767 and their negatives.

- `soc_dual`: the table of modes at `picosoc/README.md:86-96` lists dual I/O with
  continuous reading as valid (line 92), the HX8K benchmark uses it (`firmware.c:537-549`), and the iCEBreaker
  firmware has it commented out (`firmware.c:628-631`). The controller leaves continuous reading by one
  byte FF on a single lane (`spimemio.v:235-243`); its 8 clocks are only 2 of the 4 bytes, address and mode, that a
  flash in dual mode waits for (`spiflash.v:144-163`). It stays in continuous reading and takes what follows for an
  address. In the run the benchmark sets the next latency after its first round of `dspi-crm`, and the next
  fetch is answered with what is not the word of the flash (`FetchesRight`).

Written into a property as an explicit exception:

- `README.md:106` says CLIP16 uses `L = |rs2.lo16|` and clips into
  `[-L, +L]`. The code negates in 16 bits (`picorv32.v:2733-2735`): a limit of -32768 stays
  negative, and every sample is forced to -32768. (`ResultsNearest`)
- `README.md:97` says both parts of CMAC are saturated to 16 bits.
  With all four lanes at -32768 the imaginary part is 2^31, which wraps in the 32-bit
  register before it is saturated (`picorv32.v:2700`): the result is -32768, not 32767.
  (`ResultsNearest`)
- `NoiseGate!Mix` cuts `x - prev_x` and `x + prev_x` to 16 bits, as the cast at
  `main.c:176` does: two loud samples of opposite sign change the sign of the mix.

Met while modelling, without a run of their own:

- *Key 7 in single mode* gives the other combination the table does not have, continuous reading on one lane. The
  controller sends no mode byte then and does not tell the flash, so the next jump goes wrong.
- *Flash, dummy clocks.* Behind the FF that ends continuous reading, the flash still counts the
  dummy clocks of the mode byte it took FF for, and these eat the clocks of the AB that
  follows; that is harmless up to a latency of 8, the largest the firmware uses.
- *Flash ID under continuous reading* is garbage: the flash takes the command as an address
  (hence the condition in `CommandReachesFlash`).
- `picosoc/README.md:63` says the UART divider is the clock
  frequency divided by the baud rate. The code compares "greater than" with a counter
  that starts at 0 (`picosoc/simpleuart.v:130`), so a bit takes the divider plus 2
  cycles; `SimpleUart` has both ends follow that rule.
- `firmware.c:26`: `MEM_TOTAL 0x200` with the comment "2 KB" is 512 bytes. The banner shows 0 KiB, and the
  memory test on HX8K walks the single word 0 per cycle, so a stuck data line can pass. With more memory it
  misses address lines between its byte walk and its stride of 256 words. `TestSeesFaults` says
  exactly which faults are found.
- `print_dec` leaves out a tens digit of 0: 105 is printed as 15.
- `getchar_prompt` prints a prompt that is due even if a key has arrived, and a byte typed
  over an unread one is lost.
- In the noise cleaner the predictor and the compression have no effect (section 2);
  `hdr->riff_size` keeps the size the file claims when `data_size` is cut (`wav_demo.h:13`).
- `testbench.cc` has no limit of cycles: firmware that does not trap runs for ever.
- `dhry_1.c:359` comments that `Int_1_Loc` "becomes 4" where 5 is right; the comment at
  `dhry_2.c:112` names other letters than the call passes.
- `stdlib.c`: a format that ends in a bare `%` is read past its end; `printf_d` of -2^31 negates
  it in 32 bits; `heap_memory` has no alignment for what `malloc` hands out. No call in the repository does
  any of these, and the model's inputs leave them out.

## 6. What is not modelled

- In the core: compressed instructions, the barrel shifter, counters, trace and RVFI
  outputs, the values the ALU computes.
- In the multiplier: `STEPS_AT_ONCE > 1` and `CARRY_CHAIN = 0`, and in the fast one
  `EXTRA_INSN_FFS` and gated clocks without the additional registers; nothing in the
  repository sets them (section 2 says what the latter two would do). A reset of less than two cycles.
- `picorv32_axi` (wires), `picorv32_regs` (an alternative to the array behind a macro), boards (wiring,
  a reset counter, a GPIO register), external peripherals (`iomem`).
- In the test memories: the console and the ends of simulation behind special addresses (`testbench.v:402-425`,
  `testbench_wb.v:236-280`), and what they do with addresses outside the memory; in `WbBridge` also that the memory
  takes the console's address for a low one. No property speaks of such an address.
- In `SocFlash`: that a core asks for at most one second word per instruction (`FinishOn` may come any number
  of times in a row).
- At the receiving end of the UART: a reset and a change of the divider.
- Of the PicoSoC firmware: the text it prints and the values its benchmark computes; the
  copying and clearing of memory in `start.s` before `main`.
- Of Dhrystone: `malloc`, the timer, the report of the times; `dhry_1_orig.c`, which is
  not built.
- Start-up code, test programs and instruction tests (inputs of the model), synthesis and
  formal scripts, linker scripts.

## 7. What is left

In this order:

1. The compressed fetch of `picorv32.v:390-440, 630-650` in `PicoCore` (`mem_la_secondword`,
   the kept halfword); the bridges already meet it through `NativePort!SecondWord`.
2. `PicoIsa`, an abstract specification with one instruction per step, and `PicoCore` shown to
   implement it; `ProgramInv` is the invariant such a proof needs.
3. The receiving side of the UART with a reset and a divider write of its own.
4. In `SocFlash`, once the controller leaves continuous reading on two lanes by bytes that a flash in dual
   mode takes for its own: `Losing` without its second part. `SafeOk` and `StartOk` are the parts of the proof that
   would change.
